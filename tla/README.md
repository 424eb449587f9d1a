# Verification of daemontools-encore

daemontools-encore supervises long-running services on Unix.  `svscan` watches a
directory of service directories and keeps one `supervise` process for each (and one
for its logger, with a pipe in between); `supervise` starts, restarts and stops the
scripts of one service; `svc` sends it commands, `svstat`, `svup` and `svok` read what
it reports; `multilog`, usually the logger, writes lines to automatically rotated log
directories that survive kills and power failures.  The rest are small tools that set
up a process and execute another.

This directory holds TLA+ models of the parts of it that have state, run for
months and meet failures at any moment, and of the tools that scripts chain together;
TLC configurations that check them; and TLAPS proofs.  Paths such as `src/supervise.c` are relative to the repository.

    tlc -workers 2 -config Supervise_main.cfg MCSupervise.tla     # a run
    tlapm SvscanProofs.tla                                        # a proof

`PROJECT.json` lists the runs, the source lines each definition models, the hazards the
properties are for, one plausible bug ("mutant") per property that the run detects, and
the theorems.

## 1. Inventory

| component | state it keeps | operations | interacts with |
|---|---|---|---|
| `supervise` | two service records (pid, wanted or not, once, paused, status, ranstop), flagexit, firstrun, runscript; `supervise/status`, `supervise/control`, `supervise/lock` | first start, reaper, controller (19 command bytes), announce, end of loop, signal handlers | `svc` (fifo), its children (fork, kill, wait), `svstat`/`svup` (status file), `svscan` (SIGTERM, exit) |
| `svc` | none | one write of command bytes | `supervise/control` |
| `svscan` | table `x` of services (device and inode, pids, pipe, active), `logx`, `exit_asap`, `all_stopped` | log service at start, scan, start, reap, prune, SIGTERM | `supervise` (fork, SIGTERM, exit), the scan directory |
| `multilog`, a log directory | files current, previous, processed, state, newstate and the old ones, with modes and link counts; descriptor, byte count | restart, write, rotate, process, remove old files, quit | the file system, the processor it forks |
| `multilog`, line loop | line buffer, flags of the two signals, buffers of stdin and logs, status file | read, split, select, log, flush, TERM, ALRM | stdin's writers, the log directories |
| status readers `svok`, `svup`, `svstat` | none | read 18 or 36 bytes | `supervise/status`, `supervise/ok` |
| `envdir`, `envini`, `envuidgid`, `setuidgid`, `setuser`, `softlimit`, `setlock`, `pgrphack`, `fghack` | their own process: environment, ids, limits, locks, process group, a pipe | set something, execute the next command of the line | each other through what `execve()` and `fork()` keep; other lines through locks and files |
| times: `struct taia`, `deepsleep()`, `iopause()` | the deadline of a sleep | sleep, compare, add, subtract | the clock, which is set; signals |
| pattern matching, buffers, `getopt` | pure | -- | -- |
| `readproctitle`, `sleeper`, `tai64n`, `tai64nlocal`, `svpath` | none | filters and paths | -- |

What is hard in it, and therefore what the models keep:

- **supervise** is one thread, but everything around it is concurrent: children end at
  any point, SIGCHLDs merge and `reaper()` stops after one service, several `svc`
  commands are read in one call of `controller()` and share the selection of a service
  and of a process group, `fork()` and `kill()` fail, and the files in the service
  directory change between the `stat()` of one start and the next.  What runs next is
  decided from five flags that commands and deaths change in any order.
- **svscan** is interrupted by SIGTERM anywhere in a scan; directories are renamed,
  linked twice, removed and brought back during and between scans, and between the moment
  svscan looks at a name and the moment its child does; forks, pipes and
  directory reads fail half-way; entries of the table are moved when others are deleted.
- **multilog** may be killed, or the power may fail, between any two system calls of a
  rotation, and again during the recovery from that; its processor outlives it and
  writes into the same directory; signals come while they are blocked.
- **the tools** are sequential, but a line of them is not: each inherits what the ones before
  it did, any call of any of them may fail, `fghack` and the program fork, another line waits for
  the same lock, and what is promised is about the whole line.
- **time**: the clock is set forward and back while supervise sleeps, signals interrupt
  `poll()`, and the arithmetic is done in unsigned words that wrap around.

What makes each correct:

- supervise: it knows each of its children and signals no other process; no script of
  a service starts while another runs, or while the service is wanted down; a service
  that is wanted up is never left idle and runs again; one that is wanted down stops;
  `svc -dx` ends supervise with nothing left behind, the logger last; the status file
  says what is the case.
- svscan: it knows its children; no two supervises of one role meet in a directory; service
  and logger share a pipe; a named directory gets its supervise back; at exit loggers are
  stopped after what they log; svscan exits, and after its children.  A rename at the wrong
  moment breaks some of these (section 6); the properties say what is left.
- multilog: no byte written is lost but by an outage or by the removal of old files,
  none is logged twice, order is kept; `.s` files are safely on disk; files end at ends
  of lines; the selected lines reach the log unchanged; it exits at the end of a line.
- the tools: a command of a line is replaced by the next one only when it has done all that
  its manual page says, and nothing else (two do not: section 6); one line at a time holds a lock, until the last of
  its processes ends; fghack ends last, with its child's code; lines end.
- times: a second between two starts, no sleep longer than asked for, no spinning, the right
  age in `svstat`.

## 2. Modules

    ServiceLife   what supervise promises about one service      (abstract)
       ^ implemented by, for the main service and for the logger
    Supervise     one supervise process   <-- SuperviseProofs
       ^
    Shutdown      svscan and one supervise, composed
       v
    Svscan        one svscan process      <-- SvscanProofs
    Startup       supervises that share a directory's files   <-- StartupProofs
    Cyclog        one log directory of multilog   <-- CyclogProofs <-- CyclogLog
    Multilog      multilog's line loop    <-- MultilogProofs
    Launch        what a line of tools promises, by the manual pages   (abstract)
       ^ implemented by
    Chain         processes that run lines of tools   <-- ChainProofs
       |  both use
    Tools         options, numbers, environments, limits: the library's functions
    Pace          supervise's sleeps and times   <-- PaceProofs
       |  uses
    Tai           the arithmetic of times, in machine words
    MC*           values for TLC

### Supervise (`src/supervise.c`, and `src/svc.c` as far as it writes)

The variables are the program's: `svc` holds the two `struct svc` (without time stamps),
`flagexit`, `firstrun`, `runscript`, `logpipe`; `pc`, `cur`, `wstat`, `killgroup` are
where the thread is and its locals.  `fifo` is `supervise/control`, `wake` is a byte in
the self-pipe, `child` is the kernel's table of supervise's children, `status` the
status file, `dir` the files of the service directory as `stat()` and `execve()` see them.

One step is one child collected by `reaper()`, its second half (`Reaped`: what follows
`pidchange`), one command byte of `controller()` (`Down`, `Up`, `Once`, `Pause`, `Exit`,
`Signal`, `SelectService`, `SelectGroup`), or the end of a turn of `doit()` with the two
tests there (`LoopEnd`).  Between any two of these, children end, `svc` writes (one atomic
write per command), signals add `dx`, `p` or `c` to the fifo -- or lose them when it is
full -- and the directory changes.  C functions that end in another call (`trystart` in
`forkexecve` in `pidchange` in `announce`) are operators that take the values assigned so
far; each fork may fail.  The fifo remembers for each byte which service its writer meant;
that ghost is only used by properties.

`main()` up to its first `trystart` is the initial state; Startup models how one gets there.

What the readers of the status file make of it are operators: `showstatus`, `svstat(opt)`
(`src/svstat.c`) and `checkstatus`, `svup(opt)` (`src/svup.c`), which `StatusCurrent` holds
against the table of processes.

### Startup (`src/supervise.c`: main; `src/svok.c`, `svc`'s opening of the fifo)

Here a service directory has any number of supervise processes: svscan or somebody by hand
starts them, they contend for `supervise/lock`, are killed, and start again.  `Setup` is the
order in which `main()` locks, opens and announces; `pc[s]` is the place of supervise `s`
in it, `held[s]` the descriptors it has.  A forked child has the same ones (`kept[s]`) until
it executes its script (`Exec`), as `closeonexec()` says -- or does not, were it forgotten for
one of them.  That matters when supervise dies in between: the child still has the lock
(`flock()`, as `HASFLOCK` selects it, is inherited) and both ends of the fifo.

`status` names the supervise whose status is in the file; `fifo` holds the commands nobody has
read, which the kernel frees when nobody has the fifo open (`Retained`).  A client or reader is
`disturbed` when the supervise that has the lock dies while it is under way, or when what it
opened was held by no supervise but a dead one's child: nothing is promised to it then.

Two simplifications: a process that dies or executes has all its files closed in one step, and of
each supervise one child at a time is between `fork()` and `execve()`.

### Svscan (`src/svscan.c`)

`x`, `logx`, `all_stopped`, `exit_asap` are the program's.  `start()` is three steps for each name
`readdir()` returns: its `stat()` (`Stat`), which fixes the directory `st` that the name `fn` is;
the table and the service (`StartMain`, or `StartSkips` when the second `stat()` or `pipe()` fails);
and the log (`StartLog`).  `unread` and `due` are POSIX's promise about `readdir()`: an entry that
is there during the whole scan is returned once, one that comes or goes may be.  `Prune` is one turn
of the loop that deletes idle entries by moving the last one.

SIGTERM, ends of supervise processes and changes of the directory (`Edit`: a name appears, vanishes
or becomes another directory) interleave with all of it.  A directory is its device and inode, so
that two names may be one directory.  svscan recognises a directory by the first `stat()`, but the
child it forks has the name only, and looks it up once more: `supervise fn` in `supervise.c:442`, a
log's before its `execve()` (`svscan.c:143`).  `ChildEnters` is that `chdir()`.  So a child has two
directories: `dir`, the one of the entry it was forked for, and `at`, the one that it has entered,
if any.  They differ (`Strayed`) when the name changed hands in between.  What two supervises in one
directory do about each other, the lock of `supervise.c:451`, is in Startup.

### Shutdown (`src/svscan.c` with `src/supervise.c`)

Both modules, composed: svscan's only child is the supervise of module Supervise; its
`kill()` makes SIGTERM pending, supervise's handler takes it (`Terminate`), and
supervise's last step is what svscan's `wait_nohang()` sees.  svscan repeats SIGTERM each
second until then.

`setup` is how far supervise's `main()` has come, for SIGTERM means something else in each
part: the forked process still has svscan's handler (`forked`), then none and dies (`default`),
then `terminate()` writes to descriptor 0, as `fdcontrolwrite` is not open (`caught`), and at last
to the fifo (`done`), which drops it when it is full.  The set-up may also fail (`SetUpFails`), and
svscan then starts another supervise unless it is ending itself.

### Cyclog (`src/multilog.c`: restart, c_write, fullcurrent, finish, filesfit, startprocessor, c_quit)

The directory is names and inodes: `ino[i]` has its bytes, how many are synced and the
mode bit that tells `restart()` that a file is complete; `old` are the files `@stamp.s`
and `.u` in the order of their stamps; links are counted as the kernel does.  `pc` is the
next system call that changes the directory, so that `Kill` (the process is gone) and
`Outage` (and all unsynced bytes of any set of files are) come between any two.  Byte k
is the k-th the line loop has put into the buffer: that makes loss, duplication and order
visible in the files.  `proc` are the processors, one per multilog process; after a kill
they go on, holding the inherited lock until their `execve()`.

### Multilog (`src/multilog.c`: doit, flushread, the signal handlers; `src/buffer_gets.c`, `src/buffer_get.c`, `src/buffer_put.c`)

The characters typed into stdin, the buffers on their way and the log as the sequence of
what `c_write` is handed.  A step is a call of `read()`, a turn of `buffer_gets()`, or one
stretch of `doit()` between two such calls; signals are held pending while blocked and
run their handler in `sig_unblock()`.  `Script` is the parsed script: the actions `F` and `S`,
which change the global `match`, and selections with their patterns.  `match_simple` is the
function of `src/match.c`; `match_fnmatch` stands for the C library's, for patterns with `*`
and `?`.  What the log and the status file should get (`LogHeads`, `StatusHeads`, by
`SelectedAt`) is defined from multilog.8, with `Concatenates` instead of the loops.  `read` and `blocked` tell a `read()` that is about
to be called from one that sleeps, for only the latter is interrupted by a signal.

### Launch, Chain and Tools (`src/envdir.c`, `src/envini.c`, `src/envuidgid.c`, `src/setuidgid.c`, `src/setuser.c`, `src/softlimit.c`, `src/setlock.c`, `src/pgrphack.c`, `src/fghack.c` and the library)

Launch is the manual pages (`Spec`): a line is a sequence of commands, and `view[p]` is what the command
that `p` runs found -- environment, ids, limits, directory, process group, locks, fghack's pipes.
`Load` does all that one command promises and goes to the next; `Fails` ends the line with a
documented code, and only for a reason.  Launch does not know how options are spelled, which
calls a tool makes or in which order, or how an environment is merged.  Where the pages are silent
it follows the tools: envdir leaves hidden files out, the next command is looked for with the
`$PATH` the tool was given, a soft limit is at most the hard one.  Two promises are not kept, the
variables of setuser and the exit of envini without its file; `LoadAmiss` is what happens instead,
and `SpecAmiss` the pages with these two exceptions.

In Chain a process has an image, `argv`, an environment and a `pc`: the next system call of that
tool's `main()`.  `Parse` is one turn of its `getopt()` loop; `prot_gid`, `prot_gids` and
`prot_uid` are `src/prot.c`'s; `doit` is one limit of softlimit; `Readdir` is one entry of envdir's
directory, which may change (`Edit`), and `sa` the buffer that keeps the last file's content.
`CallFails` lets any of the calls fail, `Killed` kills any process.  The lock belongs to the open
file, `<<"file", name, opener>>`, that `execve()` and `fork()` inherit; fghack's pipe likewise.
At the end of a line is a program, which may fork (`Daemonize`), close what it has inherited, and
end.  `view` is recorded when an image is loaded, so that "Chain implements
Launch" is `Promised`, which `Chain_pages.cfg` refutes, and "but for the two exceptions" is
`PromisedElse`.

Tools are the functions: `subgetopt`, `scan_ulong` (which wraps), `env_get`, `pathexec` (the merge
of bindings), `pathexec_run` (the search of PATH), `Value` (an envdir file), `parse` (envini),
`Limited` and `doallenv` (softlimit).  A string is a sequence of characters, or of pieces that no
function looks into.

Simplifications: a process that ends has its files closed in one step.  In the passing run the
directory does not change while envdir reads it and no environment has a name twice (section 6 has
what happens otherwise), and no line locks the same file twice, for which it would wait for itself.

### Pace and Tai (`src/deepsleep.c`, `src/iopause.c`, `src/taia_*.c`, `src/supervise.c`: forkexecve, pidchange, announce, doit; `src/svstat.c`)

Pace is supervise seen by a clock.  `real` is the time that has passed, `clock` what
`gettimeofday()` shows, which `Tick` advances with it and `SetClock` moves.  `pc` is in a turn of
`doit()`, in `pidchange()` or `announce()`, or in `deepsleep()`: `check` is its test of the
deadline, `poll` the `poll()` that ends when its milliseconds are over or a signal comes.  A start
may fail to fork, and so may `./notify`; each of these sleeps a minute of its own.  The rest --
`started`, `ahead`, `begun`, `from`, `back`, `calm`, `changed`, `shown` -- is history for the
properties.  What supervise starts, and why, is in module Supervise, which has no times.

Tai has the arithmetic with its carries, borrows and wrapping differences; the constants that the
C code writes out (2^64, 1000, 20 ...) are constants of the module.  `Millisecs` allows for the
product of doubles in `iopause()`, which may come out one below.  Reading the clock and the call
of `poll()` are one step: a delay between the two is one after it.

## 3. Runs

| run | instance | what it shows |
|---|---|---|
| `supervise_main` | 2 pids, 3 writes, all signals, three layouts (with `./start`, `./stop`, `down`, `no-setsid`, a `./start` that fails to stat) that change while it runs | `PausedMatches`, `NoIdleWanted`, and the main service implements `ServiceLife` (`MainLives`) |
| `supervise_logged` | three layouts, two with a logger and one with `./notify`; failing forks; commands for both services, mixed, with and without process groups | `Tracked`, `StatusCurrent`, `NotifyNamesScript`, `SvcOnTarget`, `LoggerOutlivesRun`, `LogLives` |
| `supervise_live` | fairness; two layouts with a logger, one with `./start` and `./stop`; exits with 0 and 100; two writes out of `-u`, `-d`, `-o`, `-x`, `-dx`, `-p`, commands for the logger, and SIGTERM | `WantedUpRuns`, `DownStops`, `ExitsOrRests`, `ZombiesReaped` |
| `svscan_safe` | 2 names, 2 directories, one with a log, no log service, 3 pids, 2 changes of any kind, 1 failing call | `ChildrenTracked`, `SoleSupervise`, `PipePaired`, `LogOutlives`, `ExitsLast` |
| `svscan_live` | fairness; 2 names, one the log service, 2 directories, 3 pids, 1 name that appears or vanishes, 1 failing call | `Supervised`, `ExitsAfterTerm` |
| `startup` | 2 supervises, 2 deaths at any point, 2 `svc` commands, 1 reader; fairness | `OkMeansReady`, `CommandsRead`, `Recovers` |
| `shutdown` | a service with a logger, both ending with 100, one late `svc -u`, a fifo of 3 bytes, SIGTERM from supervise's fork on | `ShutsDown` |
| `cyclog_safe` | files of 3 bytes, margin 1, two old files, lines of 2 and 4 bytes, 6 bytes, 2 kills or outages, 1 failure, 1 ALRM, with and without a processor | `NothingLost`, `InOrder`, `SafelyWritten`, `ExecMeansSafe`, `OldBounded`, `AtLineEnd`, `StateFollows` |
| `multilog_lines` | all inputs of 5 characters of 3, `MAXLINE` 2, buffers of 3 and 2, TERM and ALRM once, failing reads, a script with both match modes and selections by `-` and `+` | `LogsLines`, `ExitsAtLine` (with `TermBounded`) |
| `chain_main` | 21 starts: a line of up to four commands alone, most in two spellings, or one of two pairs of lines that contend for a lock; one failing call or kill, one change of a directory | the lines implement `Launch` but for two exceptions (`PromisedElse`); `OneHolder`, `FghackLast`, `LinesEnd` |
| `pace` | a clock of four ticks a second, seconds that count 2 milliseconds, set once forward by 3 or back by 5 ticks; sleeps of 1 and 2 seconds, `poll()`s of one at most | `Paced`, `SleepsAsAsked`, `AgeRight` |
| `multilog_signal` | a smaller `multilog_lines` | a claim of multilog.8 that the code does not meet (section 6) |

The type invariants are not among these: those of Supervise, Svscan, Startup, Pace, Cyclog and
Multilog are proved; that of Chain holds in its run as well, when `TypeOK` is added to the
configuration's INVARIANTS.

Each property's comment in its module says what it means; in one line the deeper ones:

- `Tracked`: every unreaped process of a service is the one in that service's `pid`, and
  every nonzero `pid` is such a process -- so `kill()` never reaches a stranger and no
  second `./run` is forked.
- `MainLives`, `LogLives`: from outside, one script of a service runs at a time, one that
  brings it up starts only while it is not wanted down, `./stop` only while it is not
  wanted up.
- `PausedMatches`: across pauses, restarts, downs and group signals.
- `ExitsOrRests`: `svc -dx`, or `-x` and `-d` in two commands, ends supervise -- or, with a logger,
  leaves it with the main service's status "failed" or "starting", which `LoopEnd` does not take for
  the end.  These two are what svc.8 does not say; `ExitHappens` is without them (section 6).
- `ChildrenTracked`: svscan has each child in the one entry it was forked for, although entries
  move and the directory, the name or both go elsewhere.
- `SoleSupervise`: two supervises of one role meet in a directory only if one of them strayed, and
  only children of directories that have lost a name stray.
- `PipePaired`: of processes that have not strayed, service and logger share the pipe although each
  is restarted alone, the entry moves in the table and the directory is removed and comes back.
- `Supervised`: a named directory gets its supervise again although children end and a call fails,
  as long as each turn finds a service that keeps svscan from exiting (`SeesOne`).  Without that
  premise svscan.8's "designed to run forever" is not the case (section 6, `Svscan_forever`).
- `NothingLost`, `InOrder`: of `1..written` each byte is in the log once and in order, or
  was removed with an old file, or was lost unsynced in an outage -- after a kill at any
  two points, with `previous` and `processed` both there, linked twice or once.
- `StateFollows`: a processor is given what the processor of the file just before wrote,
  never what a failed or repeated run did.
- `LogsLines`: whenever multilog waits for input, what the log was handed is a function of
  what was read, defined independently of the loop, with the lines selected by the rules of
  multilog.8.
- `OkMeansReady`: a reader that finds `ok` open by a live supervise gets, for as long as that one
  lives, that one's status, neither empty nor a dead one's -- although every other supervise
  started in the directory opens files of the same names.
- `ShutsDown`: without a `./stop` (section 6, `Shutdown_stop`) svscan ends, although SIGTERM may come before supervise can take it, or be dropped
  by a full fifo, or reach it in the middle of its end.
- `PromisedElse`: whatever calls fail, no command runs the next one half confined, with a variable
  that another binding of the same line hides, with a limit of another option; and each ends with a
  documented code -- but for setuser's variables and envini's missing file.
- `OneHolder`, `FghackLast`, `LinesEnd`: locks and pipes last as long as the last process that
  has inherited them, no longer, and nobody waits for oneself.
- `Paced`: whatever interrupts its sleeps, supervise does not start scripts faster than one a
  second, but for what the clock was set forward.
- `SleepsAsAsked`: no sleep is longer than asked for but for what the clock was set back, and one
  undisturbed `poll()` is enough, rounded as it is.
- `AgeRight`: the seconds of `svstat`, also when the clock has been set back behind the change.
- `CommandsRead`: bytes that `svc` could write are read by a supervise, also if it is still
  starting; `Recovers`: children that outlive a dead supervise do not keep the next from the lock.

### Bounds, and why they are enough

Every bound is a CONSTANT.  `MaxWrites`, `MaxEdits`, `MaxFailures`, `MaxCrashes`,
`MaxAlarms` and `MaxInput` bound how often the environment acts; `FifoSize`, `Pids`,
`Names`, `Pipes`, `Inodes` its size.

- Three writes into the fifo are a command, another before the first has taken effect, and
  a signal in between; more of them reach no new combination of the five flags: all
  combinations of `flagwant`, `flagwantup`, `flagpaused`, status and `ranstop` the code can
  produce occur in states of these runs.  Two pids are one for each service and, as pids
  are reused as soon as they are reaped, reuse.  With `./notify` a third is needed.
- Two directories under two names is the least in which links, renames, a moved entry and
  a removed directory that comes back occur; one failing call at each point of a scan.  Three pids
  are a service, its log and another; four children at once, which two directories have only if
  a log directory appears between two `stat()`s, are not reached.  The names are symmetric when none
  is the log service; the start with a log service is in `svscan_live` (where its name is a directory
  with a log at first, `MCInit`) and in `Svscan_edits`.  `SERVICES` is 2, so that a full table is only
  in the proofs.
- Two supervises are one that has the lock and one that tries, and, as they start again, any
  number in succession; two deaths are that of a supervise and of its successor, or of one and
  of the one that failed; two `svc` are one whose bytes wait while another opens or closes the fifo;
  readers do not affect anything, so one is enough.
- Two crashes are one in a rotation and one in the recovery from it.  Six bytes fill two
  files of three, with the third begun; `Num` = 2 is the least the code accepts, so that
  old files are removed.  `Size` = 3 with margin 1 has the near-the-end range of one byte
  on each side.  A new file is made only while two inodes are free; fourteen are enough for that
  never to stop anything.  (`AtLineEnd` was also run for every set of newlines with `Size` 6,
  margin 3.)
- Five characters with `MAXLINE` 2 have a line of two pieces and a bit, or five empty
  lines; buffers of 3 and 2 put their ends at every place of a line.  The script of the run
  selects after `F` and again after `S` by a pattern that the two modes read differently.

- A fifo of 3 bytes is full when two SIGTERMs, or one and svc's `lu`, wait in it.
- One line alone shows what each tool does to the next; two are what a lock needs, with one place
  for fghack's child and one for a process left in the background.  One fault at any point of a line
  is the first; after it the process is over.  The strings in the lines have the cases that the
  code tells apart: names that are twice there, empty files and missing ones, blanks and null
  characters, sections, comments, numbers above a limit.
- The clock of Pace jumps once, at any moment, by more or less than a second and more than a
  sleep; `MaxReal` is longer than a start, its sleep and the next.  A second of four ticks has times
  before, at and after each boundary.  The proofs are for any clock, any jumps and any number.

Deadlock is checked for Supervise, Svscan and Shutdown, whose ends (`Gone`, `Finished`)
are explicit, and for Startup, where somebody can always start a supervise.  Cyclog and
Multilog stop when their bounds are used up or multilog has exited, Chain when all lines have
ended and Pace at the end of its clock, so they say `CHECK_DEADLOCK FALSE`.

### Fairness

- Supervise (`FairSpec`): supervise's thread keeps running and `iopause()` does time out (the
  deadline is an hour, and `src/iopause.c` waits 1000 seconds at most); a child that was sent SIGTERM or SIGKILL and is not stopped,
  could not execute its script, or runs a one-shot script (`./start`, `./stop`, `./notify`)
  ends; `wait()` does not pass over one zombie forever (SF), as kernels look through the
  children in a fixed order.  Nothing is assumed of `./run` and `./log`: they may run for
  ever.
- Svscan: svscan keeps running, and a supervise that was sent SIGTERM exits -- which the Supervise runs and Shutdown show, but for the services of
  `Supervise_failed_exit`, `Supervise_exit_down` and `Shutdown_stop`.
- Startup: when supervises end, svscan starts one again; a supervise's `main()` and its loop keep
  running, and its child executes or dies; a `svc` that has opened the fifo writes and closes it.
  Nothing is assumed of deaths, readers, and of `svc`s that have not begun.
- Shutdown: both of these, and that svscan's SIGTERMs, one a second, do not keep
  `controller()` from ever emptying the fifo (`[]<>(pc = "controller" => fifo = <<>>)`,
  and SF of `LoopEnd`): reading two bytes takes less than a second.  A supervise gets through
  its set-up or dies (WF of `SetUp`); nothing is assumed of its failures.
- Chain: as long as some tool can take a step or some program can end, one does (WF of all of
  them together: there is no cycle in which a process could be passed over).  Programs are taken to
  end; a tool that waits for a lock or for end of file cannot take a step.
- Pace states safety only.

## 4. Proofs

`SuperviseProofs`, `SvscanProofs`, `StartupProofs`, `PaceProofs`, `CyclogProofs` and `CyclogLog`,
`MultilogProofs` and `ChainProofs` hold for every value of the constants that satisfies
`SuperviseAssumption`, `SvscanAssumption`, `StartupAssumption`, `TaiAssumption`, `PaceAssumption`,
`CyclogAssumption` and `MultilogAssumption`: any number of pids, names, directories and inodes, any
service directories, any commands, any sizes of files and buffers, any scripts and lines of tools,
any bounds, with and without failing calls, any clock and jumps of it.  Those of Chain need no
assumption.  Where a theorem has a hypothesis besides these, it is named below.

**Supervise.**  `TypeCorrect` (`TypeOK`) is inductive by itself, with one lemma for each C
function that the actions share.  `NoChildLost` (`Tracked`) and `ExitsClean` (`ExitClean`)
follow from `LifeInvariant`: `TypeOK`, `Tracked`, and for the places where supervise is
about to call `trystart` or `trystop` outside `controller()`, and where it has exited, that
the service has no pid.  That part is needed because those forks do not test `pid`: at
`bootlog` and `bootmain` nothing has been started, and at `reaped` the pid has just been
cleared, and nothing between `reaper()`'s two halves sets it.  In `controller()` the code tests `pid` itself.  The step
of a fork needs that the new pid is unused, so that it is no other service's; the step of
a reap that the zombie's pid belongs to at most one service, which is `Tracked`.

The other theorems rest on three summaries of all steps, so that no invariant goes through the
actions again: what a step does to a service's process (`Moves`: it keeps it, gets one that was
forked for it, or loses a dead one), to its goal and `flagstatus` (`Turns`), and to the status file
(`Tells`).
 - `ScriptNamed` and `PausedTold` are inductive over `Moves`.
 - `NeverIdle` needs `UpInv`: a service without a process is wanted up, or said to run or to start,
   only until supervise has looked at it (`Quiet`); `./start` runs only for a service whose goal is up
   or once (`Starting`); "stopped" with a process means `./stop` (`StopRuns`).  The first two hold only
   if no fork fails, which is the theorem's premise; the run has no failing fork either, and
   `Supervise_fork_idle` is the counterexample with one.
 - `StatusTold`: the file is what `announce()` would write now, but for what a failed fork or the
   end of the logger has changed since (`ToldOf`).
 - `LoggerLast` is an action property, from where `doit()` tests `pid` and what `Turns` allows.
 - `OnTarget` follows from `FifoInv`: a byte of `svc` that names no service has one of the same command
   before it or, when it is the first, `controller()` at its service.  It assumes that every command
   begins with `l`, as `src/svc.c:17` has it; a handler's bytes may come before a command, but not
   within it.
 - `LogRefines` (for all constants) and `MainRefines` show that each step of supervise is a step of
   `ServiceLife` or leaves it as it is (`LifeMoves`).  `MainRefines` assumes that no fork fails: after
   a failed fork of `./start`, the end of `./stop` starts a `./run` that is wanted down
   (`Supervise_fork_down`).

**Svscan.**  `ScanInvariant` is `Inv`: `TypeOK`, and
 - `Distinct`: no directory is twice in `x`;
 - `Valid`: each pid in `x` is a child that was forked for the entry's directory and the right role;
 - `Held`: each child is in the entry that it was forked for;
 - `Piped`: a running child has the pipe of that entry; `Apart`: no two entries have one pipe;
 - `Halfway`, `Within`: in `start()`, `fn` is a name, before the table is looked at `st` is a
   directory for which there is an entry or room, and after that `cur` is an entry.

None of `Valid`, `Held` and `Distinct` is inductive without the other two: reaping clears
every slot that has the pid, which is the child's only if slots and children correspond;
an entry is deleted when its slots are empty, which leaves no child behind only by `Held`.
`ScanTypes`, `ScanTracks` and `PipeKept` follow; `LogLast` (an action property)
follows because a log gets SIGTERM only when its entry's `pid` is 0, and then by the
invariant no live child was forked for that entry's service.  `Prune`, which moves the last
entry, and `Table`, which adds one, each have a lemma that keeps the correspondence.

`Inv` says for which directory a child was forked, not which one it has entered.  That is `Course`: a
name that `start()` or a new child has in hand still is the directory that `stat()` found, or that
directory has lost a name (`Means`), and who entered another directory belongs to one that has.  Only
`Edit` changes what names mean (`OnlyEdits`), and it notes what it takes a name from.
`OneSupervise` (`SoleSupervise`) follows from `Inv` and `Course`.

`LastToExit` (`ExitsLast`) needs `Last`.  svscan leaves its loop when a scan ends with `all_stopped`
still set, and a scan looks only at names that `readdir()` returns: so while it is set, the
directory of a live child has lost a name, or has one that is still to be read, or the child is the
log that `start()` is about to look at (`Counted`).  For `start()` to look at a log, an entry with
`pidlog` must have `flaglog` (`LogsFlagged`); and each entry's directory must have a name, or have
lost it (`TableNamed`).  `Counted` is claimed as long as no call has failed, as `ExitsLast` is: a
`stat()` that fails makes `start()` pass a service by.

**Startup.**  `OkTells` (`OkMeansReady`) and `OneLock` (`Exclusive`: nobody has the lock of a
supervise but itself and its own child) follow from `Inv`: `TypeOK`, `Ordered` (the files of a
supervise are those of the steps behind it), `Exclusive`, `Named` (the status of a supervise past
`announce()` is in the file) and `Unanswered`.  The argument is that of the lock: past the first
step of `Setup` a supervise is alone (`Alone`), so the steps that truncate and write the status
are not taken beside a supervise that has `ok` open.  `Unanswered` is needed because
`OkMeansReady` says nothing of a reader that has not begun.  Children come in only as holders of
the lock: `Fork` gives one to its parent's child, and `Lock` tests for it.

**Times.**  A `struct taia` stands for one number (`Value`), in units of an attosecond.
`LessOrders`, `AddAdds` and `SubTakesAway` say that `taia_less`, `taia_add` and `taia_sub` compare,
add and subtract these numbers, exactly, when the result is in range -- the seconds of a sum need
room for the carry, and only a smaller time is taken away.  `PaceAssumption` says that there is
room: the clock and the longest sleep end before the 64-bit seconds do.  From these come `Later`
(`deepsleep()`'s test in microseconds: the deadline is over exactly when the clock is more than
the interval ahead of where it was) and `TimeoutBounds` (`poll()`'s milliseconds against what is
left; at least two milliseconds of slack are needed for the last conjunct, and the code has 20).

`NeverTooFast` (`Paced`) then follows from `Rests`: while supervise sleeps after a start the
deadline is that of the clock at its beginning, and the clock has since moved no further than
time since the start and jumps forward account for; so when the test lets it go on, more than
`Pause` has gone by.  `SleepsRight` (`SleepsAsAsked`) needs `Drift`, how far the clock may be from
where it would be had it only ticked, and `Polls`, when a `poll()` of the sleep ends.  `AgeTold`
(`AgeRight`) holds as the stored time is always the clock of some moment (`Stamps`).

**Cyclog.**  `CyclogInvariant` is `Inv` of `CyclogProofs`, from which `CyclogTyped`,
`CyclogWritesCurrent`, `CyclogSafelyWritten` and `CyclogExecMeansSafe` follow at once:
 - `Shape`: a file has one name and one old name at most, and both only where a kill came between
   `link()` and `unlink()`, or as long as those two are the next calls; a file without either that
   nobody has open is free.
 - `Files`: where multilog has a descriptor it is that of `current`, `d->bytes` is that file's
   length and no file is longer than `d->size`.
 - `Procs`: processors do not share files; one that outlived its multilog keeps `previous`,
   `processed` and `newstate` only until `restart()` has unlinked or finished them, and never one
   that is old or marked; one that still has the lock finds the directory as its multilog left it.
 - `Place`: which of the names exist at each system call, and which of their files are synced or
   marked -- also in the calls that `restart()` and `fullcurrent()` share.
 - `Kept`: `SafelyWritten`, `ExecMeansSafe`, and that a marked `processed` is synced.

What the properties say is by itself far from inductive.  That the file which becomes `.s` is
synced depends on the mode that a multilog killed long before has set; that no processor writes
into it any more depends on the order in which `restart()` unlinks; and what a link count tells
`finish()` depends on the names of all files.  The proof goes by kinds of change: `NameSteps`,
`FileSteps`, `HeldSteps`, `ExecSteps` and `CutSteps` each say what a step can do to one part of the
state, once, and the steps of the invariant cite these instead of the actions.

`CyclogLog` reads the log back.  Its files are the old ones, the one being finished (`processed`
when it is marked, else `previous`) and `current` (`InLog`).  `LogData` says what a file in the log
holds after a step, `StaysInLog` when it remains one, `EntersLog` what becomes one, and
`FollowsSteps` which follows which.  With these `CyclogNothingLost` follows: a file leaves the log
by `filesfit()` or when `processed`, equal to it, takes the place of `previous` (`Present`).
`CyclogInOrder` is shown of an order on files (`Ordered`), not of positions: `LogFilesAt`
translates.  What `written` is ahead of is what makes new bytes larger than all before (`NewBytes`).
`CyclogOldBounded` needs `Bounded`, which says where the one more file of a kill is counted.

`CyclogAtLineEnd` needs `LineEnds`: as long as no ALRM forces a rotation, a file that is being
written and has a newline within the margin of its end is not left there, so another newline that
still fits is pending in the buffer (`LateAwaits`), since `Offered` goes to the last newline that
fits.  A file that is full has therefore passed none by.  Files that an outage cuts were not synced
and become `.u`.  `CyclogStateFollows` is shown by `StateKept`: `state` is empty or holds the byte
before the first one of the file that comes next (`current`, `previous` during a rotation), and
`newstate` the last byte of `previous` once a processor has ended well.  Only the rename of
`newstate` changes `state`, after which `current` follows; nobody but a processor writes into the
files it has open (`HeldData`), and one that outlives its multilog spoils none that the next
multilog keeps (`Procs`).

**Multilog.**  `MultilogTyped` contains the bounds of `line` and of the log's buffer; it needs that
`linelen` is below `MAXLINE` wherever the next character is put (`Bounded`).

`StopsAtLine` (`ExitsAtLine`) follows from `ExitInv`: `Stops` says what holds where a line is over,
in `flushread()` and at the end -- `flagnewline` tells how the last `read()` ended (`LastRead`), so at
the end of a line either that is a newline or more is buffered -- and `Term` what has been read since
TERM: it is pending, or noticed, and then one `read()` at most was larger than a byte.

`Lines` is the invariant of the log.  At each place, what was read is a consumed part `h` and the
buffer; the definition of lines (`Split`) divides `h` into what is done and a rest; and what went to
`c_write` and on from there (`Out`) is the selected lines among those done, with the pieces of the
last one that are handled.  The places differ in what of the last line is where: none (`AtTop`), in
`line` (`InFirst`, `FirstOver`), pieces of `MAXLINE` characters behind it (`InPiece`, `PieceOver`,
`AtEnd`); and stdin may have ended or failed within it (`Broken`).  `LogsChosen` concludes
`LogsLines` for every behaviour in which the script, when it is applied, logs the lines that
multilog.8's rules select (`Chooses`).

`LogsAllLines` shows the latter for every script that is settled (`SettledScript`), as that of the
run is: it names the log; if it uses `F`, an `F` or `S` precedes each pattern; no simple pattern has a
star behind a star.  Both conditions on patterns are needed.  Without the first the match function of
the last line is still there (section 6, `Multilog_mode`); without the second `match_simple`, which
looks for the character after a star, looks for a literal star.  The proof goes through the script as
the code does, and compares the running values with `SelectedAt`, which picks the last selection that
matches (`ModesGo`, `HitsGo`, `PicksGo`, `DotsGo`); and it shows that `match_simple`, which goes to the
first place where the next character fits and never back, finds a match exactly if the text
`Concatenates` (`SimpleMatches`): whatever a star may stand for ends before the next occurrence of
that character.

`Acted`, `Split` and `match_simple` are recursive functions over sequences.  The library's induction
theorems cannot be used with the provers at hand, as they have an operator as a parameter;
`CountUp` is induction over a set instead, shown from the well-ordering of the naturals, and
`Recursion` says that a function that is defined along `1..n` exists.

**Chain.**  `OneHolder` speaks of the locks an image found when it was loaded.  `Inv` ties them to
the open files: all files that a process has open are locked but the one `setlock` is about to lock
(`FilesLocked`); of the locked files that somebody has open no two are the same (`LockedOnce`);
whoever made an open file still has it, unless it has become a program (`OwnKept`), so a new one
is nobody else's; and what an image found locked is still open in it (`Viewed`).  `FghackLast` needs
that past its `read()` no process has fghack's pipe (`Unpiped`), and that only the child it has
forked ends its `wait()` (`EndedWith`).  The forty steps are sorted into kinds by what they do to
open files (`StepKinds`), and each kind keeps the invariant.

**Only model-checked.**  Liveness (all of `supervise_live`, `svscan_live`, `shutdown`,
`CommandsRead`, `Recovers`, `LinesEnd`), which, as `ENABLED`, is beyond the prover; the refinement
`PromisedElse`, which speaks of what the functions of Tools compute for every input; and `SignalHeard`
and the other claims of section 6, which do not hold.

## 5. What is not modelled, and why

- supervise: `mkdir()` and `mkfifo()` of a new directory; what a killed supervise's `./run` and
  the next one's do to each other, as supervise knows nothing of the former.  TSTP and CONT before
  it is ready (Shutdown has SIGTERM only, which svscan sends).
- svscan: a SIGTERM before its handler is installed; names longer than 255 bytes; messages.
- multilog: time stamps, the action `e`, more than one log in one process, parsing of the
  script.  The clock is taken not to be set back (old files are ordered by their names).  A
  system call that is repeated until it succeeds changes nothing when it fails and is left
  out; but `link()` in `finish()`, whose repetition is not the same call.  Directory
  operations and modes last in the order in which they were made, as multilog.8 asks of the
  file system; data last when synced.  `unlink()` in `restart()`, which is not repeated, is
  taken to succeed.  What a processor writes is abstract: it copies its input, and its state
  is the last byte it saw.  Whether a log has a processor is fixed in a behaviour.
- svc, svstat, svup, svok: options, more than one directory, paths.
- the tools: running out of memory, messages, a command line that has too few words (but for one
  envdir); descriptors that a line is started with; envini's `open_read()` of something that is no
  file.  `setrlimit()` of a limit the system does not have.
- `tai64n`, `tai64nlocal`, the packing of times, `readproctitle`, `sleeper`, `svpath`: filters and
  formats, byte by byte, without interleaving or state that lasts.  `svscanboot` is a shell script
  that starts svscan once.
- buffers, `stralloc`, system call wrappers: what they do is part of the actions that use them.
- build and installation programs.

## 6. Where program and documentation differ

One run is expected to find a violation:

- `multilog_signal` (`SignalHeard`): `flushread()` looks at its flags before it unblocks the
  signals (`src/multilog.c:482`): a TERM that came during a rotation is noticed and multilog
  nevertheless waits in `read()` for more input.

While modelling, more such claims were found not to hold.  They are stated at the end of the
modules and have configurations of their own, which are not among the runs of PROJECT.json:

| configuration | property | what happens |
|---|---|---|
| `Chain_pages` | `Promised` | three lines (`tlc -continue` shows each).  setuser collects `HOME`, `SHELL`, `USER`, `GID` and `UID` with `pathexec_env()` and runs its program with `pathexec_run(*argv,argv,envp)`, which passes on the environment it was given (`src/setuser.c:54`); setuser.8 (`src/setuser.8:14`) says that it sets these variables.  envini takes a missing file for an empty one (`src/openreadclose.c:13`); envini.8 (`src/envini.8:51`) lets it exit 111.  `pathexec()` replaces the first binding of a name only (`src/pathexec_env.c:59`), so that a name that the environment has twice keeps its second value, in front of the tool's |
| `Chain_dir` | `OwnValue` | a file that vanishes between envdir's `readdir()` and `open()` counts as the one read before it: `openreadclose()` leaves the buffer as it is and `envdir` goes on (`src/openreadclose.c:13`, `src/envdir.c:66`), so that a variable gets another one's value |
| `Multilog_mode` | `LogsLines` | `F` and `S` set the global `match`, which is not set back at the start of a line (`src/multilog.c:541`): a pattern before the script's first `F` is a simple one for the first line and an fnmatch one for all others.  multilog.8 says that `F` holds for subsequent patterns and that simple patterns are the default |
| `Cyclog_code` | `CodesKnown` | `finish()` advances `code` beyond its end while it builds the name (`src/multilog.c:165`); when `link()` fails, the next try copies what lies behind the string, so that the old file's name does not end with `.s` or `.u` |
| `Multilog_status` | `StatusLast` | after a line longer than 1000 characters, `oldlinelen` is that of its last piece, and the status file of the next, shorter line keeps the tail of the long one (`src/multilog.c:611`, `src/multilog.c:534`) |
| `Supervise_badstart` | `RunAfterGoodStart` | `svc -d` and `svc -u` while `./start` runs: SIGTERM kills `./start`, whose status is by then "stopping", and `./run` starts all the same (supervise.8: if `./start` exits zero) |
| `Supervise_failed_exit` | `ExitHappens` | with a logger, `svc -dx` and a `./run` that ends with 100: its status is "failed", not "stopped", so the logger is not told to stop and supervise does not exit; svc.8 (`src/svc.8.in:114`): supervise exits as soon as the service is down |
| `Supervise_exit_down` | `ExitHappens` | with a logger, `svc -x` while `./start` runs, then `svc -d`: `./stop` ends with the status still "starting", and supervise does not exit |
| `Supervise_restart` | `StartAfterStop` | `svc -u` while `./stop` runs, which resets `firstrun` at its end: `./run` follows `./stop` without `./start` |
| `Supervise_twice` | `StopAfterRun`, `StopOnce` | `ranstop` is reset by `stopsvc()` and nothing else: `svc -d` and `svc -o` of a stopped service run `./run` and then no `./stop`; `svc -d` while `./stop` runs ends with a second `./stop` |
| `Supervise_early_log` | `LogAfterStop` | `svc -dx`: the logger is sent SIGTERM while `./stop` still runs and may want to log |
| `Supervise_group` | `GroupOnTarget` | the `+` of one `svc` command is still in force for the next in the same call of `controller()` |
| `Supervise_lost_group` | `DownStops` | `svc -+d` with `no-setsid`: the group does not exist and nobody gets SIGTERM |
| `Supervise_fork_down`, `Supervise_fork_idle` | `NoStartWhenDown`, `NoIdleWanted` | after a failing `fork()` |
| `Svscan_forever` | `RunsForever` | svscan exits when a scan fails, or finds nothing to start (svscan.8: "designed to run forever") |
| `Svscan_edits` | `ExitsLastOfAll` | a removed service's supervise is not told to exit and survives svscan |
| | `SoleReader` | `logx` stays when the log service's entry is pruned: the next service in that place reads svscan's log pipe |
| | `PairServes` | the name of a service becomes another directory between svscan's `stat()` and the child's `chdir()`: a service and a log from different entries meet in one directory, and the pipe of either leads elsewhere |
| `Shutdown_stop` | `ShutsDown` | SIGTERM each second with a `./stop` that takes longer: each one is sent to `./stop` |

Read in passing, without a configuration: `scan_ulong()` wraps numbers of 2^64 and more, which
softlimit takes as small ones; `deepsleep()` lasts longer by what the clock is set back, as
it is the time of day that it compares; and in a simple pattern a star after a star is looked for as
a character (`src/match.c:14`), where multilog.8 has each star match some string.

## 7. Plan

Order of work, the most important behaviour first; what is done is marked.

1. [done] Supervise, ServiceLife: safety, refinement, liveness; proofs of all safety properties and
   of both refinements.
2. [done] Svscan: safety, liveness; proofs of all safety properties.
3. [done] Shutdown: the composition, from supervise's fork on.
4. [done] Cyclog, Multilog: crash recovery, line loop, selection of lines; proofs of all
   that `cyclog_safe` and `multilog_lines` check, with `match_simple` and the script.
5. [done] Startup: lock, start-up, crash and restart of supervise, the readers; proofs of `Exclusive`
   and `OkMeansReady`.  `svstat` and `svup` as operators of Supervise.
6. [done] Tools, Launch, Chain: the chain-loading tools against their manual pages; proofs of
   `OneHolder` and `FghackLast`.
7. [done] Tai, Pace: sleeps and times; proofs of the arithmetic and of all properties.
8. Proofs: type invariant of Chain; `PromisedElse`, as far as it does not depend on what Tools computes.
9. `readproctitle`'s loop and `svc`'s options as operators; `multilog` with several logs and the
   processor's exit in one model, if small enough.
