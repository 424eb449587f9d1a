--------------------------------- MODULE Pace ---------------------------------
(***************************************************************************)
(* supervise and time: how long it sleeps after a start, after a failing   *)
(* fork() and while it waits, by a clock that is set forward and back and  *)
(* with signals that interrupt poll(); and what svstat makes of the time   *)
(* of the last change.  What it starts is in module Supervise.             *)
(***************************************************************************)
EXTENDS Tai

CONSTANTS
  Pause,              \* 1: the seconds after a start
  ForkPause,          \* 60: the seconds after a failing fork()
  Turn,               \* 3600: the seconds for which supervise waits at most
  Clock0,             \* what the clock shows at first
  Jumps,              \* by how much it may be set, in microseconds
  MaxReal, MaxClock, MaxJumps   \* bounds

ASSUME PaceAssumption ==
  /\ Pause \in Nat /\ ForkPause \in Nat /\ Turn \in Nat
  /\ MaxReal \in Nat /\ MaxClock \in Nat /\ MaxJumps \in Nat
  /\ Clock0 \in 0 .. MaxClock /\ Jumps \subseteq Int
  /\ Epoch + MaxClock + Pause + ForkPause + Turn + 1 < Word

VARIABLES
  real,      \* microseconds that have passed
  clock,     \* microseconds as gettimeofday() has them
  pc,        \* where supervise is
  after,     \* where it goes after pidchange()
  resume,    \* where it goes after deepsleep()
  asked,     \* deepsleep()'s argument, or Turn
  deadline,  \* of deepsleep()
  until,     \* when poll() returns at the latest
  when,      \* svc.when
  status     \* svc.when in supervise/status

(* History, for the properties.                                            *)
VARIABLES
  started, ahead,   \* when the last script was started; by how much the clock has
                    \* been set forward since
  begun, from,      \* when the last sleep began, and the clock then
  back,             \* by how much the clock has been set back since
  calm, polled,     \* it has not been set since, nor was there a signal; a poll() is over
  changed, shown,   \* the clock when "when", and what is in status, were taken
  jumps             \* how often it has been set

sleep   == <<asked, deadline, until>>
rest    == <<begun, from, back, calm, polled>>
history == <<started, ahead, rest, changed, shown, jumps>>
vars    == <<real, clock, pc, after, resume, sleep, when, status, history>>

Begins == begun' = real /\ from' = clock /\ back' = 0 /\ calm' = TRUE /\ polled' = FALSE

(* The sleep is over, its locals are gone.                                 *)
Awake == /\ asked' = 0 /\ deadline' = taia_uint(0) /\ until' = 0
         /\ begun' = 0 /\ from' = 0 /\ back' = 0 /\ calm' = TRUE /\ polled' = FALSE

Init ==
  /\ real = 0 /\ clock = Clock0
  /\ pc = "turn" /\ after = "turn" /\ resume = "turn"
  /\ asked = 0 /\ deadline = taia_uint(0) /\ until = 0
  /\ begun = 0 /\ from = 0 /\ back = 0 /\ calm = TRUE /\ polled = FALSE
  /\ when = taia_now(clock) /\ status = when
  /\ started = -(Pause + 1) * Micros /\ ahead = 0
  /\ changed = clock /\ shown = clock /\ jumps = 0

----------------------------------------------------------------------------
(* The clock                                                               *)

Tick ==
  /\ real < MaxReal /\ clock < MaxClock
  /\ real' = real + 1 /\ clock' = clock + 1
  /\ UNCHANGED <<pc, after, resume, sleep, when, status, history>>

SetClock ==
  /\ jumps < MaxJumps /\ jumps' = jumps + 1
  /\ \E j \in Jumps :
       /\ clock + j \in 0 .. MaxClock /\ clock' = clock + j
       /\ ahead' = IF j > 0 THEN ahead + j ELSE ahead
       /\ back' = IF j < 0 THEN back - j ELSE back
  /\ calm' = FALSE
  /\ UNCHANGED <<real, pc, after, resume, sleep, when, status, started,
                 begun, from, polled, changed, shown>>

----------------------------------------------------------------------------
(* A turn of doit(): reaper() and controller()                             *)

Sleeps(s, then) == pc' = "deepsleep" /\ asked' = s /\ resume' = then

(* A child is gone.                                                        *)
Reap ==
  /\ pc = "turn" /\ pc' = "pidchange" /\ after' = "turn"
  /\ UNCHANGED <<real, clock, resume, sleep, when, status, history>>

(* trystart(), trystop(): forkexecve() starts a script, or sleeps.         *)
Start ==
  /\ pc = "turn"
  /\ \/ pc' = "pidchange" /\ after' = "pause" /\ UNCHANGED <<resume, asked>>
        /\ started' = real /\ ahead' = 0
     \/ Sleeps(ForkPause, "turn") /\ UNCHANGED <<after, started, ahead>>
  /\ UNCHANGED <<real, clock, deadline, until, when, status, rest, changed, shown, jumps>>

(* If ./notify cannot be forked, announce() comes a minute later.          *)
pidchange ==
  /\ pc = "pidchange"
  /\ when' = taia_now(clock) /\ changed' = clock
  /\ \/ pc' = "announce" /\ UNCHANGED <<resume, asked>>
     \/ Sleeps(ForkPause, "announce")
  /\ UNCHANGED <<real, clock, after, deadline, until, status, started, ahead, rest, shown, jumps>>

announce ==
  /\ pc = "announce"
  /\ status' = when /\ shown' = changed
  /\ \/ after = "turn" /\ pc' = "turn" /\ UNCHANGED <<resume, asked>>
     \/ after = "pause" /\ Sleeps(Pause, "turn")
  /\ UNCHANGED <<real, clock, after, deadline, until, when, started, ahead, rest, changed, jumps>>

(* Nothing more to do: iopause() with an hour's deadline.                  *)
TurnEnds ==
  /\ pc = "turn" /\ pc' = "wait" /\ asked' = Turn
  /\ LET stamp == taia_now(clock)
     IN  \E m \in Timeouts(taia_add(stamp, taia_uint(Turn)), stamp) : until' = real + m * Milli
  /\ Begins
  /\ UNCHANGED <<real, clock, after, resume, deadline, when, status, started, ahead, changed,
                 shown, jumps>>

(* It returns when there is something to do, too.                          *)
TurnBegins ==
  /\ pc = "wait" /\ pc' = "turn"
  /\ Awake
  /\ UNCHANGED <<real, clock, after, resume, when, status, started, ahead, changed, shown, jumps>>

----------------------------------------------------------------------------
(* deepsleep()                                                             *)

deepsleep ==
  /\ pc = "deepsleep" /\ pc' = "check"
  /\ deadline' = taia_add(taia_now(clock), taia_uint(asked))
  /\ Begins
  /\ UNCHANGED <<real, clock, after, resume, asked, until, when, status, started, ahead,
                 changed, shown, jumps>>

(* Mutant: deepsleep() does not go on after one poll().                    *)
Over_once == polled \/ taia_less(deadline, taia_now(clock))

Over == taia_less(deadline, taia_now(clock))

Wakes ==
  /\ pc = "check" /\ Over
  /\ pc' = resume /\ resume' = "turn"
  /\ after' = IF resume = "turn" THEN "turn" ELSE after
  /\ Awake
  /\ UNCHANGED <<real, clock, when, status, started, ahead, changed, shown, jumps>>

iopause ==
  /\ pc = "check" /\ ~Over /\ pc' = "poll"
  /\ \E m \in Timeouts(deadline, taia_now(clock)) : until' = real + m * Milli
  /\ UNCHANGED <<real, clock, after, resume, asked, deadline, when, status, history>>

(* poll() takes the time it was given, or there is a signal: TERM, TSTP or *)
(* CONT (CHLD is blocked).                                                 *)
PollEnds ==
  /\ pc = "poll" /\ pc' = "check"
  /\ \/ real >= until /\ UNCHANGED calm
     \/ calm' = FALSE
  /\ polled' = TRUE /\ until' = 0
  /\ UNCHANGED <<real, clock, after, resume, asked, deadline, when, status, started, ahead,
                 begun, from, back, changed, shown, jumps>>

----------------------------------------------------------------------------
Next == \/ Tick \/ SetClock
        \/ Reap \/ Start \/ pidchange \/ announce \/ TurnEnds \/ TurnBegins
        \/ deepsleep \/ Wakes \/ iopause \/ PollEnds

Spec == Init /\ [][Next]_vars

----------------------------------------------------------------------------
(* Properties                                                              *)

Timed(t) == t \in Taia /\ t.atto = 0

(* Every variable holds a value of its type; no time leaves its range.     *)
TypeOK ==
  /\ real \in 0 .. MaxReal /\ clock \in 0 .. MaxClock
  /\ pc \in {"turn", "pidchange", "announce", "deepsleep", "check", "poll", "wait"}
  /\ after \in {"turn", "pause"} /\ resume \in {"turn", "announce"}
  /\ asked \in {0, Pause, ForkPause, Turn}
  /\ Timed(deadline) /\ Timed(when) /\ Timed(status)
  /\ until \in Nat
  /\ started \in Int /\ ahead \in Nat
  /\ begun \in 0 .. real /\ from \in 0 .. MaxClock /\ back \in Nat
  /\ calm \in BOOLEAN /\ polled \in BOOLEAN
  /\ changed \in 0 .. MaxClock /\ shown \in 0 .. MaxClock
  /\ jumps \in 0 .. MaxJumps

(* supervise.8: it "pauses for a second after starting ./run, so that it   *)
(* does not loop too quickly".  Whatever signals come, forks fail and      *)
(* children end in between: when it may start the next script, more than a *)
(* second has passed since the last, but for what the clock was set        *)
(* forward meanwhile.                                                      *)
Paced == pc \in {"turn", "wait"} => real - started + ahead > Pause * Micros

(* No sleep is longer than what was asked for, iopause()'s addition and    *)
(* what the clock was set back meanwhile; no poll() longer than Longest,   *)
(* so that a missed wake-up lasts no longer; and undisturbed one poll() is *)
(* enough, rounded down as its milliseconds are (else deepsleep() spins).  *)
SleepsAsAsked ==
  /\ pc \in {"poll", "wait"} =>
       /\ until <= begun + asked * Micros + back + Slack * Milli
       /\ until <= real + (Longest * Millis + Slack) * Milli
  /\ pc = "check" /\ polled /\ calm /\ asked <= Longest => Over

(* The seconds that svstat prints are those that the clock shows to have   *)
(* passed since the change, within one; none if the clock has been set     *)
(* back behind it -- and no number near 2^64.                              *)
AgeRight ==
  LET age    == seconds(status.sec, tai_now(clock))
      passed == IF clock > shown THEN clock - shown ELSE 0
  IN  passed - Micros < age * Micros /\ age * Micros < passed + Micros
=============================================================================
