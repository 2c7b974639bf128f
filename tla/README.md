# FunStuffWithLinux in TLA+

Three programs of an operating-systems course: `myBank`, a bank of POSIX
threads; `tftp`, a single-threaded TFTP server; and `smash`, a small shell.
These modules model what makes them hard to test (threads, lost datagrams and
timeouts, signal handlers, system calls that fail half-way), TLC checks them on
small instances, and TLAPS proves their safety properties for instances of every
size: any number of threads and processes, any files, input and limits.

## The system and its parts

### myBank

| part | state | operations | code |
| --- | --- | --- | --- |
| readers-writer lock | `_db_rd_lock`, `_db_wrt_lock`, `_db_rcount`; the same three in every `Account` | DownReadAction, UpReadAction, DownWriteAction, UpWriteAction; GetBalance, SetBalance | `AccountController.cpp:153-183`, `Account.cpp:52-83` |
| account list | `_accountList`, a vector of id, password, balance | AddAccount, DeleteAccount, AddToBalance, TakeFromBalance, TransferCommissions, GetAccountsBalance, lookups | `AccountController.cpp` |
| ATM threads | the input file and the place in it | Run, HandleLine, six transactions | `ATM.cpp` |
| bank threads | `_back_account`, `_stopCommission` | TakeCommission, PrintBalance | `Bank.cpp` |
| main | which threads run | create, join, StopCommission, delete | `main.cpp` |
| Logger | the log file | write | not in the repository |

ATMs, the commission and the printer call the account list between a Down and
an Up call of its lock; opening, closing and transfers as writers, everything
else, deposits and withdrawals included, as readers. Within that, each balance
has a lock of its own that is held for one reading or one writing. Right would
be: writers are alone; a position looked up stays valid; an account number
exists once; money neither appears nor vanishes; each transaction takes effect
at once; every line is logged; the program ends.

### tftp

One server object: `Start` waits for a write request, acknowledges it, opens the
file and calls `readData`, which waits for each block with `select`, repeats its
last acknowledgement after three seconds of silence and gives up after the
seventh time. `internalError` removes the file of a failing transfer.
`MessageHandler` converts packets. The counterparts are a UDP network and
clients that are not in the repository. Right would be: during a transfer every
block stands where its number says, afterwards the file is whole or not there; a
client that saw its last acknowledgement finds its file there; every transfer ends;
repetition does no harm.

The server takes a datagram from whoever sent it, and its acknowledgements go to
whoever sent the last one. Blocks of two clients may therefore end up in one
file, and no property claims otherwise: they say what is left of the promise.

### smash

One thread with three signal handlers: SIGINT and SIGTSTP pass the signal on to
`foreground_pid`, SIGCHLD calls `JobsList::CleanFinished`. The list of jobs is a
vector that the commands (`fg`, `bg`, `kill`, `quit`, external commands with and
without `&`) and the SIGCHLD handler change, and that the user addresses by
position. Right would be: every living process can be reached; the cleaning
takes off only what has ended, and all of it; Ctrl-C reaches the process in the
foreground; `quit kill` leaves nothing behind.

| part | state | operations | code |
| --- | --- | --- | --- |
| jobs | `_jobs`, `foreground_pid` | fg, bg, kill, quit, running a program, three handlers | `JobsList.cpp`, `jobprocess.cpp`, `signals.cpp` |
| main loop, history | `_history_log` | fgets, AddToHistory, BgCmd, ExeCmd | `smash.cpp`, `JobsList.cpp:210-219`, `commands.cpp:600-641` |
| parser | none | SplitCommand, parseCommand | `commands.cpp:17-81` |
| file commands | current directory, `path_buffer`, descriptors | cd, cp, diff | `commands.cpp:103-301` |

The main loop keeps a line in the history, starts the pieces of it that have an
`&` behind them, and runs the rest. `cp` and `diff` work byte by byte on files
that background jobs may be changing, and each of their calls may fail. Right
would be: a line starts exactly the programs it names, with the words it names;
a copy is reported only if it is one; an error does no more harm than it must;
no descriptor is lost; the history keeps the last lines.

## Modules

| module | models | state and actions |
| --- | --- | --- |
| `RWLocker` | enum RWLocker | constants of the lock, assumption on `Thread` |
| `RWLockSpec` | nothing: what a readers-writer lock promises | `mode` of each thread; enter and exit |
| `RWLockCalls` | the four calls, each as one step | `wrt_lock`, `rcount`, `mode` |
| `RWLock` | the four calls, one step per semaphore operation | `rd_lock`, `wrt_lock`, `rcount`, `at` |
| `AccountSnapshot` | GetAccountsBalance at one account: RWLock and a printer that copies its semaphores | adds `printer`, `copy` |
| `Ledger` | nothing: the bank as a book of accounts | `balance`, `transit`, `vault`; one action per transaction |
| `Bank` | all of myBank | lock (through `RWLockCalls`), `accounts`, `vault`, `stop`, and per thread `at`, `file`, `pos`, `loc`, `log` |
| `MCBank` | input files for TLC | |
| `TFTPServer` | the server, and clients of which nothing is assumed | `server`, `client_addr`, `Ack_counter`, `timeoutExpiredCount`, `message`, `file`, `exists`; one action per outcome of a wait or a request |
| `TFTP` | server, network and one client that keeps the protocol | adds `client`, `sent` |
| `Jobs` | job control of smash over the kernel's processes | `jobs`, `foreground`, `main`, `handler`; `proc`, `pend`, `sigchld` for the kernel |
| `MCJobs` | bound and test scenario for TLC | |
| `CommandLine` | SplitCommand and parseCommand, as functions of a line | |
| `FileCommands` | cd, cp and diff, one step per system call that others can see | `disk`, `fds`, `cwd`, `path_buffer`, `task`, `told` |
| `Shell` | main loop of smash, over the two above, and what others do to files | `history`, `line`, `commands`, `rest`, `command`; reading, splitting, launching, executing |
| `MCShell` | files and command lines for TLC | |
| `DataLemmas` | lemmas on taking an element off a sequence and on sums | |
| `RWLock_proofs`, `RWLockCalls_proofs`, `Bank_proofs`, `TFTP_proofs`, `Jobs_proofs`, `Shell_proofs` | theorems about the module of that name | |
| `BankLedger_proofs` | that `Bank` implements `Ledger` | |

`RWLock` implements `RWLockCalls` (`CallsSpec`), which implements `RWLockSpec`
(`AbstractSpec`), so `Bank` may use the calls as atomic actions. Balances are
read and written under the same algorithm; `Bank` therefore has GetBalance and
SetBalance as one step each, and keeps the two apart where the code does. `Bank`
implements `Ledger` (`LedgerSpec`) as long as no update is lost, no round of
commissions dropped and the lock not broken; up to then each of its steps is a
whole transaction or none (`WholeTransactions`). The mapping (`Balance`) gives a
transfer's money back to the account it left until the second balance is written,
which is where the transfer takes effect.

`Jobs` and `Shell` are two views of one program that meet where a program is
started: `Shell` decides which, with what arguments and whether in the
background (`launched`), `Jobs` what becomes of the process. `Shell` leaves
processes alone, `Jobs` the text of the line.

Operators named in a comment as *mutant* are deliberate errors. No specification
uses them; each shows, put in the place of the definition it names, that a
property notices the error.

History variables (`mode`, `booked`, `surplus`, `lost`, `unsaid`; `stored`, `torn`;
`overtaken`, `dismissed`, `missed`; `launched`, `before`, `meddled`, `failed`)
record what happened for the properties to speak of. No guard that stands for a
condition of the code reads one; the guards that read `torn` and `meddled` are
bounds.

## Runs

| run | instance | shows |
| --- | --- | --- |
| `rwlock` | 4 threads, 1604 states | `IInv` (the inductive invariant of the proof), mutual exclusion, which calls return and a writer's way in where readers leave it one, and the refinement of `RWLockCalls` |
| `bank_races` | 2 ATMs, commission, printer; 18 pairs of input files; balances modulo 64 read modulo 32; 320 000 states | lock bookkeeping, stable positions, unique numbers, conservation of money and whole transactions up to the two ways in which the code loses money, one line in the log for each line of an input file, the short ones and the transfers to nobody excepted |
| `bank_ledger` | the same threads; files of opening, closing, transfer, inquiry | conservation, refinement of `Ledger`, the program exits |
| `tftp` | files of 1 to 4 blocks, block numbers modulo 4, other clients; 560 000 states | every block in its place during a transfer, all or nothing after it, also when a write, an fclose or a select fails; an acknowledged file is there until the next write request is taken; every transfer ends |
| `jobs` | 3 processes, one ignoring SIGTERM, one reading the terminal; all commands; 2.1 million states | order of the list, nothing living forgotten, an ended job listed only for known reasons, cleaning takes ended jobs only, whom Ctrl-C reaches and whom it spares, `quit kill`, a wait that ends |
| `shell` | 2 lines; 349 lines for the parser, 16 commands on two files of up to 2 bytes and two directories; 410 000 states | a line starts what it names, cp and diff are right or do bounded harm, descriptors, the way back of `cd -`, every line ends |

Six runs show where the code departs from what its documents say;
each expects the violation it names.

| run | what happens |
| --- | --- |
| `bank_open_twice` | opening an existing number unlocks twice (`ATM.cpp:154,158`); afterwards two threads write the list at once |
| `bank_lost_update` | a deposit between the reading and the writing of a commission is overwritten (`AccountController.cpp:58,72`) |
| `account_snapshot` | the printer copies a semaphore that is down and waits on the copy for ever (`AccountController.cpp:112`) |
| `tftp_retransmit` | a block that comes twice costs the client its transfer (`tftpServer.cpp:164`) |
| `jobs_finished` | of two jobs that end together one stays listed (`JobsList.cpp:106`), against `tests/test.py:138` |
| `shell_history` | the line after the history is full makes the shell crash (`JobsList.cpp:215`) |

### Reading the properties

The bank has two defects that break almost every invariant once they strike.
The properties say exactly so, and no more: `LockBooks` ties the
semaphore's excess to the number of double unlocks (`surplus`) and claims
exclusion while there was none; `StableIndex` and `UniqueIds` hold until then.
`MoneyConserved` holds unless `lost`, which is set only by a write from a
reading that is no longer the balance, that was cut off, or that wraps, and by a
commission round that drops what it took. `NothingForgotten` and the second half
of `ControlReach`, `OthersSpared`, hold unless `overtaken`: the handler erased a job while a
command held a position. `NothingForgotten` also leaves out the jobs that a kill
command took off the list with SIGTERM (`dismissed`). What these conditions exclude is the subject of the violation runs,
or listed as a hazard.

Other properties say how far a fault reaches, where the code does less than one
would wish:

* `EveryCallReturns`, `WritersGetIn`: a thread that has called waits at a place of its
  own (`ask_read`, `ask_write`). Readers always get in. A writer does not: without
  the premise of `WritersGetIn`, that the readers are all gone time and again, two
  readers that relieve each other keep it in `sem_wait` for ever
  (`AccountController.cpp:157`).
* `LogAccounted`: "All actions are documented to log.txt", `src/myBank/README.md:12` says.
  They are not: a transfer that finds its own account but not the one to pay to
  composes its message and returns without writing it (`ATM.cpp:285-292`), and a line of
  less than three words is dropped in silence. The history variable `unsaid` records
  the lines of those transfers, and the log has exactly one line for each other
  line of three words, whatever the locks did.
* `BlocksInPlace`: a short `fwrite` ends the transfer as its last block would,
  RECVOK included (`tftpServer.cpp:196`), and so does an `fclose` that fails
  (`tftpServer.cpp:95`), for nobody looks at its result; both spoil the end of
  the file only. An error of `select` (`tftpServer.cpp:145`) writes the block before once
  more, or what the stack held: one block out of place, with its successors
  in theirs.
* `AcknowledgedIsThere`: a file that was reported stays only until the next write
  request is taken (`tftpServer.cpp:75`). One that was late or came twice empties it, and the
  transfer it starts, which nobody follows, removes it; the client that is done
  never learns of it. `stored` tells this case from the others. A retry may also be
  served by acknowledgements of the try before. And nothing is said of a file of
  2^16 blocks, whose last acknowledgement carries the number of the first.
* `FinishedExplained`: an ended job is on the list at the prompt only if it ended before it was
  put there, moved up during the cleaning, or `waitpid` failed.
* `RunsAsTyped`: a blank piece between two `&`s drops the pieces behind it
  (`commands.cpp:621-624`), and `kill` is missing from `COMMANDS` (`commands.h:26`), so that
  `kill ... &` starts a program of that name. A program with MAX_ARG words or more is
  given an array without its final NULL (`commands.cpp:26`).
* `CopyExact`, `CopyHarmless`: `cp` empties its target before it compares the names
  (`commands.cpp:174`), so a copy of a file to itself empties it, with an error under the
  same name and as a success under another.
* `DescriptorsKept`: an error leaves up to two descriptors open: after a failing read, after
  equal names, and after `close(new) || close(old)` whose first call fails.
* `DiffRight`: two directories can be opened but not read; equal results of -1 lead to
  `memcmp` over `(size_t)-1` bytes, which answers 1 or crashes.
* `ControlReach`: Ctrl-C and Ctrl-Z clear `foreground_pid` (`signals.cpp:19,35`), so the
  second of them is lost on a process that ignores the first, although the shell still
  waits for it. The first half, `WaitedReached`, says that there is no other way for the
  process waited for to get out of their reach. After the wait
  `foreground_pid` still names the process, and a Ctrl-C at the prompt reaches one that
  stopped itself by reading the terminal.
* `WayBack`: a current directory that was removed makes `get_path` throw, so
  that no `cd` leads out of it; the saved directory survives. A path is compared with the
  current directory as it was typed (`commands.cpp:133`): `cd .` succeeds, makes the current
  directory its own way back, and the former one is lost; `cd -` answers with an error then.

### Bounds

* `rwlock`: four threads give two readers and a writer inside, entering or
  waiting at once, and one more to overtake them. The theorems lift the bound.
* Bank: two ATMs are enough for every conflict between two transactions, with the
  commission as a third that visits all accounts. The files are pairs
  chosen for it: update against update, a failing commission round, one number
  opened twice, positions that move, more money than a `uint` holds, and each way
  a line can be refused. `Bound` cuts a behaviour after its first lost update,
  since everything afterwards is lost as well. 64 and 32 stand for 2^64 and 2^32,
  and 256 and 64 where wrapping is not the question. The input amounts 20, 25 and 26
  make the commission 0 or 1, below and at the limit.
* TFTP: the block numbers wrap within the largest file, the case of 65536 blocks,
  whose last acknowledgement has the number of the first. Datagrams on their way
  form a set from which delivery does not take them: there is no bound on
  repetition, and one that is never taken is lost. Other clients may send every
  packet at every moment. One spoiling fault (`torn`) per behaviour.
  `tftp_retransmit` has one client and a file of two blocks; a repeated block
  needs no more.
* Jobs: three processes, for a job before and a job after the one a command means,
  and for a stale `status` (one job collected, one passed over, one collected
  earlier). `OneSignal` bounds the signals under way to one. Commands are not
  counted: the user may type for ever.
* Shell: `MAX_ARG` is 3 and the lines have up to 4 words, one below, at and
  above the limit. The parser sees every line of up to 4 symbols over two
  words, the blank and `&`. `MAX_HISTORY` is 2, so a behaviour has two lines
  before the crash of the third: an error or a changed directory, and a command
  after it. Files of up to two bytes let a copy be cut off before, between and
  after them, or differ in length, at the first or at the second byte. Other
  processes append or remove once (`MaxMeddle`), at any moment; the properties
  on files speak of lines during which they did not, the others of all. Paths are
  absolute, but for "."; two names of one file stand for links.

CHECK_DEADLOCK is off where the modelled program may stop: the bank exits, the
server exits, the shell quits or crashes, and a lock nobody asks for rests.

### Fairness

* `RWLock`: a thread in a call goes on. `sem_wait` is strongly fair, since a post
  wakes a waiter and those that could overtake it sleep between their calls.
  Nobody is made to call, and nobody to leave `wrt_lock` up: that the readers are
  gone time and again is a premise that `WritersGetIn` states, not fairness.
* `Bank`: threads go on, and taking the list's lock is strongly fair. The lock
  prefers readers, and the code has no remedy, so `BankCloses` assumes that the
  readers leave together again and again, and that the printer was not caught by
  a copied semaphore. It is about the rest: joins, stop flag, loops.
* `TFTP`: the server goes on, which includes the timeout of `select`. Nothing is
  assumed of client or network; they may fall silent or talk for ever.
* `Jobs`: the shell's own statements and the handler go on. No process must end
  and no user type.
* `Shell`: the shell goes on with the line it has read, since each of its calls
  returns; that a program in the foreground ends is the subject of `Jobs`. No
  user must type. Another process may append to a file that `cp` reads, but
  only `MaxMeddle` times: one that never stops would keep `cp` going.

## Proofs

Every safety property that a passing run checks is proved for all values of the
constants, but `RunsAsTyped` (see the end of this section). Each proof goes from an inductive invariant, named
below, whose conjuncts say what the property silently relies on. What a proof
assumes of the constants is an ASSUME of the modelled module, which TLC evaluates
in every run; none bounds an instance.

### The lock: `RWLock_proofs`, `RWLockCalls_proofs`

For every finite set `Thread`:

* `LockInvariant`: `IInv` is an invariant. `MutualExclusion` alone is not
  inductive: that a first reader may pass because `wrt_lock = 1` says nothing of
  who is inside. `IInv` adds that `rd_lock` admits one thread to the counter
  (`OneInner`), that `rcount` is the number of threads counted in (`CountExact`),
  and that `wrt_lock` is down exactly while somebody is inside (`GateExact`).
  There is one step per action, and below it one per conjunct.
* `LockExcludes`: hence mutual exclusion.
* `LockImplementsCalls`: under the mapping that counts a reader as inside from
  the moment it has passed `wrt_lock` until it may give it back, every step
  is a call of `RWLockCalls` or a stutter.
* `CallsInvariant`, the accounting of the atomic calls, and `CallsImplementSpec`,
  that they implement the abstract lock. By the last three the semaphore program
  is a readers-writer lock.

### The bank: `Bank_proofs`

For every finite set of ATMs, every input (`Scripts`), every pair of widths of a
balance with the reading narrower than the store, and rates of 2 to 4 percent
(`BankAssumption`, and `ScriptAssumption`, that `AccountId` and `Amount` name what
the accepted lines do).

* `Always`: `Base` is an invariant: the types, the books of the lock
  (`LockBooks`), and two facts that neither can do without. `Holding` ties the
  mode of a thread to its place, so that no thread gives back a lock it does not
  hold, and `Standing` ties the place to the line of the input file the ATM works
  on, so that a thread that took the lock as a reader gives it back as one.
  `Types` and `LockIsExact` follow.
* `LogIsComplete`: `LogAccounted`, from `Base` and `Told`, that the line an ATM works on
  is in `unsaid` exactly while the ATM leaves the lock without a word. When an ATM
  goes to its next line, the lines to be logged grow by one or stay, and the
  proof follows each way to do so.
* `SafeAlways`: while no failing OpenAccount has unlocked twice, `OneEach` (no
  number twice on the list) and `Knows(t)` for every thread: after CheckOpen
  nobody has the number about to be entered; the positions looked up are on the list
  and name the accounts meant. Neither is inductive without the other, and both
  rest on `ListExclusive`, which is in `Base`: a step that inserts or erases is a
  writer's, which is alone, so that every other thread stands where it knows
  nothing. `NumbersAreUnique` and `PositionsHold` follow.
* `MoneyIsKept`: `MoneyConserved`, with `Settled`, that the commission thread has
  no sum left over when a round begins. `DataLemmas` proves the laws of
  `SumFunction` the argument needs (one value changed, one argument more or fewer,
  an entry of a sequence taken out). They do not follow by induction, which is out
  of the provers' reach: a subset of the arguments for which a law failed would
  have a smallest one, and that is contradicted.

### The bank as a ledger: `BankLedger_proofs`

Under the assumptions of `Bank_proofs`. The inductive invariant is `Base`, `Safe`,
`Settled` and `Prepared`, that an ATM at work moves the sum its line names.

* `TransactionsAreWhole`: `WholeTransactions`. The steps are split once, by
  `QuietOrMoving`: most are `Quiet`, which write no balance, enter or take out no
  account and carry no money, and they change nothing in the book (`QuietBook`).
  The `Moving` ones are the transactions: `InsertOpens`, `EraseCloses`,
  `AddDeposits` (a deposit, or a transfer at its second write), `TakeWithdraws` (a
  withdrawal, a commission, or a transfer's first write, which changes nothing yet)
  and `CreditCredits`. Each needs `Safe`: by `OneEach` the account at a position is the
  one `Balance` shows under its number (`BookIs`), and by `Knows` it is the one that
  the line names. That the money pending belongs to one transfer at a time
  (`PendingIs`, `OnlyOwn`) follows from the exclusion of writers in `Base`.
* `ImplementsLedger`: the bank implements `Ledger` in every behaviour in which no
  stale balance is written, no round dropped and no lock given back twice
  (`Unharmed`). The hypothesis cannot go: `bank_lost_update` and `bank_open_twice`
  show the code doing the first and the last, and the second is the round that
  fails in `bank_races`. The run `bank_ledger` shows the conclusion on files
  that harm nothing.

### The server: `TFTP_proofs`

For every number of block numbers above 1, every set of file sizes up to it, and with
or without other clients (`TFTPAssumption`).

* `TransferInvariant`: `IInv`. Of the properties, none is inductive alone.
  `Counting` says that while a block is waited for the file has as many blocks
  as were acknowledged and the timeouts are not used up. `Placing` says for each
  kind of fault which blocks may be out of place; hence the next block, written at
  the end of the file, is the one of its number. `Answering` says that the last
  acknowledgement leaves only once the file is reported, `Reported` that a client
  that is done had it reported, and `Lasting` that a reported file stays whole
  until a request is taken.
* `TransferTypes`, `EveryBlockInPlace`, `WholeFileOrNone`, `AcknowledgedIsStored`:
  the four invariants of the run `tftp`.

### Jobs: `Jobs_proofs`

For every number of processes, any of them ignoring SIGTERM or reading the
terminal, every set of commands, and for `kill` any of the signals that the switch at
`JobsList.cpp:149-162` acts on (`JobsAssumption`; SIGSTOP as SIGTSTP). The bound
`OneSignal` of the run is not in the specification, so the theorems hold for any number of signals
under way at once.

* `JobInvariant`: `Always`, which no handler can disturb: processes are named as
  they are forked (`Counted`), so a list in order (`InOrder`) is no longer than
  there are processes (`Spread`); what the shell holds at each place (`Stands`); a
  job that ended is one the list does not follow, or a cleaning is still to come
  to it (`Followed`); the jobs `quit kill` has passed are about to die (`Passed`).
  `JobTypes`, `ListInOrder`, `FinishedJobs`, `QuitIsFinal` and the action property
  `CleanIsSound` follow.
* `ListFollows`: as long as no handler came between a command and the position it
  holds, also `Undisturbed`: the position is that of the job (`Position`), a job that is not
  marked as stopped runs (`Marked`), the process in the foreground is the one
  waited for (`Foreground`). From it, `NoneForgotten` and the second half of `ControlReaches`,
  `OthersSpared`.
* `NextWaited`: the first half, `WaitedReached`, is inductive on `Always` alone, so it holds
  whatever the handlers erase: a signal that clears `foreground_pid` is then on its
  way to the process waited for, which ends or stops by it unless it ignores it.

The attempt found a gap in `TypeOK`: `quit kill` leaves `kill` in `main.cmd` whether
or not `kill` is among the commands typed, and the type now says so.

### Files and lines: `Shell_proofs`

For all disks and paths (`FileAssumption`: links are names of one file), all
lines in which the words where `cd`, `cp` and `diff` expect a path are paths, every
length of the history and number of meddling writes (`ShellAssumption`), each
call failing at any time.

* `LineInvariant`: `TInv`: for each place of a line's execution, what the command
  and the rest of the line are (`Reading`, `Running`), how long the history is
  (`Numbering`), and how many descriptors the command at work holds, so that what is
  open beyond them was left by commands that failed (`Leaks`).
* `FileInvariant`: `FInv`: for each place of `cp` and `diff`, which part of the
  source the target holds, or that both files agree up to the offset.
* `ShellTypes`, `NoLeakOnSuccess`, `CopyIsExact`, `CopyDoesNoHarm`, `DiffIsRight`,
  and the action property `BackWhereOneWas`, with the invariant that the way back is a
  directory as `getcwd` spells it (`Saved`).

### Only model-checked

* Every liveness property: `EveryCallReturns`, `WritersGetIn`, `BankCloses`, `TransferEnds`,
  `WaitEnds`, `LineEnds`. Fairness and ENABLED are out of the prover's reach.
* `RunsAsTyped`, which compares what the recursive functions of `CommandLine`
  compute with a reference (`Wanted`) over all bounded lines: that is induction over
  data, also out of its reach.
* `AccountSnapshot` and the other runs that expect a violation.

## Not modelled

* The Logger, whose source is missing, and all wording of output.
* What C++ does after a broken lock of the bank lets a position run past the end
  of the vector: the model stops that thread there. In `Jobs`, where a position is
  past the end more easily, an element read there is any job, a write is without
  effect, and an erasure takes the last element, as the library does.
* The figure `PrintBalance` shows for the bank's own account (`Bank.cpp:67`),
  which the commission changes outside the lock under which it is read.
* TFTP packets that fit no message (too short, too long, other modes), and the
  creation and binding of the socket.
* smash: signals of `kill -N` other than SIGTSTP (or SIGSTOP), SIGCONT, SIGTERM and
  SIGKILL, which are sent without any effect on the list; running times; reuse of process
  numbers; a handler in the middle of a
  vector operation; lines of 79 characters or more, which `fgets` hands over in
  parts; a `fork` that fails, in `Shell`.
* The count of instances, which `JobsList.h:68` and `JobsList.cpp:14` spell differently,
  so that smash does not compile as it stands; the model is of what is meant.
* Scripts for tests and submission.

## Plan

Done: all parts but those under "Not modelled"; every safety property, action
property and refinement that a passing run checks is proved, but `RunsAsTyped`.
Next: TFTP packets that fit no message; the figure `PrintBalance` shows for the
bank's own account; a `fork` that fails, in `Shell`.
