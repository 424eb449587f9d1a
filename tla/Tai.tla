--------------------------------- MODULE Tai ---------------------------------
(***************************************************************************)
(* Times: struct tai, struct taia, their arithmetic in machine words, and  *)
(* the milliseconds that iopause() hands to poll().  The numbers that the  *)
(* C code writes out are constants here, so that small ones can be used.   *)
(***************************************************************************)
EXTENDS Integers

CONSTANTS
  Word,     \* 2^64: how many values a uint64 and an unsigned long have
  Epoch,    \* 4611686018427387914: tai_unix(0)
  Millis,   \* 1000: milliseconds of a second
  Milli,    \* 1000: microseconds of a millisecond
  Longest,  \* 1000: the seconds after which iopause() returns at the latest
  Slack     \* 20: the milliseconds it adds

Micros == Millis * Milli     \* microseconds of a second
Giga   == 1000 * Micros      \* nanoseconds of a second, attoseconds of a nanosecond

ASSUME TaiAssumption ==
  /\ Millis \in Nat \ {0} /\ Milli \in Nat \ {0}
  /\ Longest \in Nat /\ Slack \in Nat \ {0, 1}
  /\ Epoch \in Nat /\ Word \in Nat /\ 3 * Giga <= Word

(* A sum or difference of two words, as a word.                            *)
Wrap(n) == IF n < 0 THEN n + Word ELSE IF n < Word THEN n ELSE n - Word

Taia == [sec : 0 .. Word - 1, nano : 0 .. Giga - 1, atto : 0 .. Giga - 1]

(* The clock, as gettimeofday() gives it, in microseconds since 1970.      *)
tai_unix(s)     == Wrap(Epoch + s)
tai_now(clock)  == tai_unix(clock \div Micros)
taia_now(clock) == [sec |-> tai_now(clock), nano |-> 1000 * (clock % Micros) + 500, atto |-> 0]

taia_uint(s) == [sec |-> s, nano |-> 0, atto |-> 0]

tai_less(t, u) == t < u
tai_sub(u, v)  == Wrap(u - v)

taia_less(t, u) ==
  \/ t.sec < u.sec
  \/ t.sec = u.sec /\ t.nano < u.nano
  \/ t.sec = u.sec /\ t.nano = u.nano /\ t.atto < u.atto

taia_add(u, v) ==
  LET atto == u.atto + v.atto
      up   == IF atto >= Giga THEN 1 ELSE 0
      nano == u.nano + v.nano + up
      over == IF nano >= Giga THEN 1 ELSE 0
  IN  [sec  |-> Wrap(Wrap(u.sec + v.sec) + over),
       nano |-> nano - over * Giga,
       atto |-> atto - up * Giga]

(* A difference that is larger than u's part has wrapped around.           *)
taia_sub(u, v) ==
  LET atto == Wrap(u.atto - v.atto)
      down == IF atto > u.atto THEN 1 ELSE 0
      nano == Wrap(Wrap(u.nano - v.nano) - down)
      less == IF nano > u.nano THEN 1 ELSE 0
  IN  [sec  |-> Wrap(Wrap(u.sec - v.sec) - less),
       nano |-> Wrap(nano + less * Giga),
       atto |-> Wrap(atto + down * Giga)]

(* taia_approx(), in nanoseconds.                                          *)
Nanos(t) == t.sec * Giga + t.nano

(* How long iopause() waits, in nanoseconds.                               *)
Capped(left) == IF left > Longest * Giga THEN Longest * Giga ELSE left

(* As milliseconds for poll().  Whole ones may come out as one less, as d  *)
(* is a double.                                                            *)
Millisecs(d) ==
  LET exact == d \div (1000 * Milli) + Slack
  IN  IF d # 0 /\ d % (1000 * Milli) = 0 THEN {exact, exact - 1} ELSE {exact}

(* Mutant: nothing is added to the time that is left.                      *)
Timeouts_bare(deadline, stamp) ==
  IF taia_less(deadline, stamp) THEN {0}
  ELSE {m - Slack : m \in Millisecs(Capped(Nanos(taia_sub(deadline, stamp))))}

Timeouts(deadline, stamp) ==
  IF taia_less(deadline, stamp) THEN {0}
  ELSE Millisecs(Capped(Nanos(taia_sub(deadline, stamp))))

(* Mutant: svstat trusts that the clock has not been set back.             *)
seconds_trusting(when, now) == tai_sub(now, when)

(* The seconds that svstat prints.                                         *)
seconds(when, now) == IF tai_less(now, when) THEN tai_sub(now, now) ELSE tai_sub(now, when)
=============================================================================
