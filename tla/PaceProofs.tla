------------------------------ MODULE PaceProofs ------------------------------
(* Proofs about module Pace, and about the arithmetic of module Tai.       *)
EXTENDS Pace, TLAPS

(* Facts about numbers that are used below.                                *)
LEMMA DivMod ==
  ASSUME NEW a \in Nat, NEW m \in Nat \ {0}
  PROVE  /\ a \div m \in Nat /\ a % m \in 0 .. m - 1
         /\ a = (a \div m) * m + (a % m)
  OBVIOUS

LEMMA Larger ==
  ASSUME NEW a \in Int, NEW b \in Int, NEW m \in Nat
  PROVE  /\ a <= b => a * m <= b * m
         /\ a < b => a * m + m <= b * m
  OBVIOUS

LEMMA Spread ==
  ASSUME NEW a \in Int, NEW b \in Int, NEW c \in Int, NEW m \in Int
  PROVE  (a - b - c) * m = a * m - b * m - c * m
  OBVIOUS

(* Two-digit numbers to the base m.                                        *)
LEMMA Digits ==
  ASSUME NEW m \in Nat, NEW a \in Int, NEW b \in Int, NEW x \in 0 .. m - 1, NEW y \in 0 .. m - 1
  PROVE  a * m + x < b * m + y <=> a < b \/ (a = b /\ x < y)
  <1>1. a < b => a * m + m <= b * m
    BY Larger
  <1>2. b < a => b * m + m <= a * m
    BY Larger
  <1>3. a * m \in Int /\ b * m \in Int
    OBVIOUS
  <1> QED BY <1>1, <1>2, <1>3

LEMMA Units == Micros \in Nat \ {0} /\ Giga \in Nat \ {0} /\ Giga = 1000 * Micros
  BY TaiAssumption DEF Micros, Giga

LEMMA TaiaParts ==
  ASSUME NEW t \in Taia
  PROVE  t.sec \in 0 .. Word - 1 /\ t.nano \in 0 .. Giga - 1 /\ t.atto \in 0 .. Giga - 1
  BY DEF Taia

Value(t) == (t.sec * Giga + t.nano) * Giga + t.atto

(* taia_less() compares the times, whatever their parts are.               *)
THEOREM LessOrders ==
  ASSUME NEW t \in Taia, NEW u \in Taia
  PROVE  taia_less(t, u) <=> Value(t) < Value(u)
  <1>1. /\ t.sec \in Int /\ t.nano \in 0 .. Giga - 1 /\ t.atto \in 0 .. Giga - 1
        /\ u.sec \in Int /\ u.nano \in 0 .. Giga - 1 /\ u.atto \in 0 .. Giga - 1
        /\ Giga \in Nat
    BY TaiaParts, Units, TaiAssumption
  <1> DEFINE a == t.sec * Giga + t.nano
             b == u.sec * Giga + u.nano
  <1>2. a < b <=> t.sec < u.sec \/ (t.sec = u.sec /\ t.nano < u.nano)
    BY <1>1, Digits, ZenonT(30)
  <1>3. b < a <=> u.sec < t.sec \/ (u.sec = t.sec /\ u.nano < t.nano)
    BY <1>1, Digits
  <1>4. a \in Int /\ b \in Int
    BY <1>1
  <1>5. a = b <=> t.sec = u.sec /\ t.nano = u.nano
    BY <1>1, <1>2, <1>3, <1>4
  <1> HIDE DEF a, b
  <1>6. a * Giga + t.atto < b * Giga + u.atto <=> a < b \/ (a = b /\ t.atto < u.atto)
    BY <1>1, <1>4, Digits
  <1> QED BY <1>1, <1>2, <1>5, <1>6 DEF Value, taia_less, a, b

(* taia_add() carries: the sum is exact, if the seconds have room for it.  *)
THEOREM AddAdds ==
  ASSUME NEW u \in Taia, NEW v \in Taia, u.sec + v.sec + 1 < Word
  PROVE  taia_add(u, v) \in Taia /\ Value(taia_add(u, v)) = Value(u) + Value(v)
  <1>1. /\ u.sec \in Nat /\ u.nano \in 0 .. Giga - 1 /\ u.atto \in 0 .. Giga - 1
        /\ v.sec \in Nat /\ v.nano \in 0 .. Giga - 1 /\ v.atto \in 0 .. Giga - 1
        /\ Giga \in Nat \ {0} /\ Word \in Nat
    BY TaiaParts, Units, TaiAssumption
  <1> DEFINE atto == u.atto + v.atto
             up   == IF atto >= Giga THEN 1 ELSE 0
             nano == u.nano + v.nano + up
             over == IF nano >= Giga THEN 1 ELSE 0
             s    == u.sec + v.sec + over
             n    == nano - over * Giga
             t    == atto - up * Giga
  <1>2. up \in 0 .. 1 /\ over \in 0 .. 1 /\ t \in 0 .. Giga - 1 /\ n \in 0 .. Giga - 1
    BY <1>1
  <1>3. s \in 0 .. Word - 1 /\ Wrap(Wrap(u.sec + v.sec) + over) = s
    BY <1>1, <1>2 DEF Wrap
  <1>4. taia_add(u, v) = [sec |-> s, nano |-> n, atto |-> t]
    BY <1>3 DEF taia_add
  <1>5. taia_add(u, v) \in Taia
    BY <1>2, <1>3, <1>4 DEF Taia
  <1>6. s * Giga + n = (u.sec * Giga + u.nano) + (v.sec * Giga + v.nano) + up
    <2>1. s * Giga = u.sec * Giga + v.sec * Giga + over * Giga
      BY <1>1, <1>2
    <2> QED BY <2>1, <1>1, <1>2
  <1> DEFINE a == u.sec * Giga + u.nano
             b == v.sec * Giga + v.nano
  <1>7. a \in Int /\ b \in Int
    BY <1>1
  <1>8. (s * Giga + n) * Giga + t = Value(u) + Value(v)
    <2>1. (a + b + up) * Giga = a * Giga + b * Giga + up * Giga
      BY <1>1, <1>2, <1>7
    <2> QED BY <2>1, <1>1, <1>2, <1>6, <1>7 DEF Value
  <1> QED BY <1>4, <1>5, <1>8 DEF Value

(* taia_sub() borrows: the difference is exact, if there is one.           *)
THEOREM SubTakesAway ==
  ASSUME NEW u \in Taia, NEW v \in Taia, ~taia_less(u, v)
  PROVE  taia_sub(u, v) \in Taia /\ Value(taia_sub(u, v)) = Value(u) - Value(v)
  <1>1. /\ u.sec \in 0 .. Word - 1 /\ u.nano \in 0 .. Giga - 1 /\ u.atto \in 0 .. Giga - 1
        /\ v.sec \in 0 .. Word - 1 /\ v.nano \in 0 .. Giga - 1 /\ v.atto \in 0 .. Giga - 1
        /\ Giga \in Nat \ {0} /\ Word \in Nat /\ 3 * Giga <= Word
    BY TaiaParts, Units, TaiAssumption
  <1> DEFINE atto == Wrap(u.atto - v.atto)
             down == IF atto > u.atto THEN 1 ELSE 0
             nano == Wrap(Wrap(u.nano - v.nano) - down)
             less == IF nano > u.nano THEN 1 ELSE 0
             s    == u.sec - v.sec - less
             n    == u.nano - v.nano - down + less * Giga
             t    == u.atto - v.atto + down * Giga
  <1>2. /\ down = (IF u.atto < v.atto THEN 1 ELSE 0)
        /\ t \in 0 .. Giga - 1 /\ Wrap(atto + down * Giga) = t
    BY <1>1 DEF Wrap
  <1>3. /\ less = (IF u.nano < v.nano + down THEN 1 ELSE 0)
        /\ n \in 0 .. Giga - 1 /\ Wrap(nano + less * Giga) = n
    <2>1. down \in 0 .. 1
      OBVIOUS
    <2> HIDE DEF down
    <2> QED BY <1>1, <2>1 DEF Wrap
  <1>4. s \in 0 .. Word - 1 /\ Wrap(Wrap(u.sec - v.sec) - less) = s
    <2>1. less \in 0 .. 1
      OBVIOUS
    <2>2. s >= 0
      BY <1>1, <1>2, <1>3 DEF taia_less
    <2> HIDE DEF less
    <2> QED BY <1>1, <2>1, <2>2 DEF Wrap
  <1>5. taia_sub(u, v) = [sec |-> s, nano |-> n, atto |-> t]
    BY <1>2, <1>3, <1>4 DEF taia_sub
  <1>6. taia_sub(u, v) \in Taia
    BY <1>2, <1>3, <1>4, <1>5 DEF Taia
  <1> DEFINE a == u.sec * Giga + u.nano
             b == v.sec * Giga + v.nano
  <1>7. a \in Int /\ b \in Int /\ down \in 0 .. 1 /\ less \in 0 .. 1
    BY <1>1
  <1>8. s * Giga + n = a - b - down
    <2>1. s * Giga = u.sec * Giga - v.sec * Giga - less * Giga
      <3>1. u.sec \in Int /\ v.sec \in Int /\ less \in Int /\ Giga \in Int
        BY <1>1, <1>7
      <3> HIDE DEF less
      <3>2. (u.sec - v.sec - less) * Giga = u.sec * Giga - v.sec * Giga - less * Giga
        BY <3>1, Spread
      <3> QED BY <3>2
    <2> HIDE DEF less, down, s
    <2> QED BY <2>1, <1>1, <1>7
  <1>9. (s * Giga + n) * Giga + t = Value(u) - Value(v)
    <2>1. (a - b - down) * Giga = a * Giga - b * Giga - down * Giga
      <3> HIDE DEF a, b, down
      <3> QED BY <1>1, <1>7, Spread
    <2>2. Value(u) = a * Giga + u.atto /\ Value(v) = b * Giga + v.atto
      BY DEF Value
    <2>3. (s * Giga + n) * Giga = (a - b - down) * Giga
      <3> HIDE DEF s, n, a, b, down
      <3> QED BY <1>8
    <2> HIDE DEF s, n, down, less, a, b
    <2>4. /\ a * Giga \in Int /\ b * Giga \in Int /\ down * Giga \in Int
          /\ (s * Giga + n) * Giga = a * Giga - b * Giga - down * Giga
          /\ t = u.atto - v.atto + down * Giga
      BY <2>1, <2>3, <1>1, <1>7 DEF t
    <2> HIDE DEF t
    <2> QED BY <2>2, <2>4, <1>1
  <1> QED BY <1>5, <1>6, <1>9 DEF Value

----------------------------------------------------------------------------
(* Times that occur: the clock's, and a clock's plus an interval.          *)

Interval == {0, Pause, ForkPause, Turn}

LEMMA Intervals ==
  ASSUME NEW s \in Interval, NEW c \in 0 .. MaxClock
  PROVE  /\ s \in Nat /\ c \in Nat /\ c \div Micros \in Nat /\ c \div Micros <= c
         /\ Epoch + c \div Micros + s + 1 < Word
  <1>1. /\ c \in Nat /\ c <= MaxClock /\ s \in Nat /\ s <= Pause + ForkPause + Turn
        /\ Epoch \in Nat /\ MaxClock \in Nat /\ Word \in Nat
        /\ Epoch + MaxClock + Pause + ForkPause + Turn + 1 < Word
        /\ Pause \in Nat /\ ForkPause \in Nat /\ Turn \in Nat
    BY PaceAssumption, TaiAssumption DEF Interval
  <1>2. c \div Micros \in Nat /\ c = (c \div Micros) * Micros + (c % Micros) /\ c % Micros \in Nat
    <2>1. c \in Nat /\ Micros \in Nat \ {0}
      BY <1>1, Units
    <2> HIDE DEF Micros
    <2>2. /\ c \div Micros \in Nat /\ c % Micros \in 0 .. Micros - 1
          /\ c = (c \div Micros) * Micros + (c % Micros)
      BY <2>1, DivMod
    <2> QED BY <2>1, <2>2
  <1>3. (c \div Micros) * 1 <= (c \div Micros) * Micros
    <2>1. Micros \in Nat /\ 1 <= Micros
      BY Units
    <2> HIDE DEF Micros
    <2>2. c \div Micros \in Nat
      BY <1>2
    <2> QED BY <2>1, <2>2, Larger
  <1>4. c \div Micros <= c
    <2>1. (c \div Micros) * Micros \in Nat
      BY <1>2, Units
    <2> QED BY <1>1, <1>2, <1>3, <2>1
  <1>5. c \div Micros \in Nat
    BY <1>2
  <1> DEFINE q == c \div Micros
  <1>6. q \in Nat /\ q <= c
    BY <1>4, <1>5
  <1> HIDE DEF q
  <1>7. Epoch + q + s + 1 < Word
    BY <1>1, <1>6
  <1> QED BY <1>1, <1>4, <1>5, <1>7 DEF q

LEMMA Now ==
  ASSUME NEW c \in 0 .. MaxClock
  PROVE  /\ Timed(taia_now(c)) /\ taia_now(c).sec = Epoch + c \div Micros
         /\ Value(taia_now(c)) = (Epoch * Giga + 1000 * c + 500) * Giga
  <1>1. /\ c \in Nat /\ c \div Micros \in Nat /\ Epoch + c \div Micros + 1 < Word
        /\ Epoch \in Nat /\ Word \in Nat
    BY Intervals, TaiAssumption DEF Interval
  <1>2. /\ Micros \in Nat \ {0} /\ Giga = 1000 * Micros
        /\ c = (c \div Micros) * Micros + (c % Micros) /\ c % Micros \in 0 .. Micros - 1
    BY <1>1, Units, DivMod
  <1> DEFINE q == c \div Micros
             r == c % Micros
  <1>3. tai_now(c) = Epoch + q
    BY <1>1 DEF tai_now, tai_unix, Wrap
  <1>4. taia_now(c) = [sec |-> Epoch + q, nano |-> 1000 * r + 500, atto |-> 0]
    BY <1>3 DEF taia_now
  <1>5. 1000 * r + 500 \in 0 .. Giga - 1 /\ Giga - 1 \in Nat
    BY <1>2
  <1>6. Timed(taia_now(c))
    BY <1>1, <1>4, <1>5 DEF Timed, Taia
  <1>7. (Epoch + q) * Giga + (1000 * r + 500) = Epoch * Giga + 1000 * c + 500
    <2> HIDE DEF q, r
    <2>1. q \in Nat /\ r \in Nat /\ c = q * Micros + r
      BY <1>1, <1>2 DEF q, r
    <2>2. (Epoch + q) * Giga = Epoch * Giga + q * Giga
      BY <1>1, <1>2, <2>1
    <2>3. q * Giga = 1000 * (q * Micros)
      BY <1>2, <2>1
    <2>4. q * Micros \in Int /\ Epoch * Giga \in Int
      BY <1>1, <1>2, <2>1
    <2> QED BY <2>1, <2>2, <2>3, <2>4
  <1>8. Value(taia_now(c)) = ((Epoch + q) * Giga + (1000 * r + 500)) * Giga + 0
    BY <1>4 DEF Value
  <1>9. (Epoch * Giga + 1000 * c + 500) * Giga \in Int
    BY <1>1, <1>2
  <1> QED BY <1>4, <1>6, <1>7, <1>8, <1>9

Deadline(c, s) == taia_add(taia_now(c), taia_uint(s))

LEMMA Deadlines ==
  ASSUME NEW c \in 0 .. MaxClock, NEW s \in Interval
  PROVE  /\ Timed(Deadline(c, s))
         /\ Value(Deadline(c, s)) = (Epoch * Giga + 1000 * (c + s * Micros) + 500) * Giga
  <1>1. /\ s \in Nat /\ c \in Nat /\ s < Word /\ taia_now(c).sec + s + 1 < Word
        /\ Epoch \in Nat
    BY Intervals, Now, TaiAssumption
  <1>2. taia_uint(s) \in Taia
    BY <1>1, Units, TaiAssumption DEF taia_uint, Taia
  <1>3. /\ Deadline(c, s) \in Taia
        /\ Value(Deadline(c, s)) = Value(taia_now(c)) + Value(taia_uint(s))
    BY <1>1, <1>2, Now, AddAdds DEF Deadline, Timed, taia_uint
  <1>4. Deadline(c, s).atto = 0
    <2>1. taia_now(c).atto = 0 /\ taia_uint(s).atto = 0
      BY Now DEF Timed, taia_uint
    <2> QED BY <2>1, Units DEF Deadline, taia_add
  <1>5. Value(taia_uint(s)) = (s * Giga) * Giga
    BY <1>1, Units DEF Value, taia_uint
  <1>6. s * Giga = 1000 * (s * Micros) /\ s * Micros \in Int /\ Epoch * Giga \in Int /\ Giga \in Int
    BY <1>1, Units
  <1> QED BY <1>1, <1>3, <1>4, <1>5, <1>6, Now DEF Timed

LEMMA Multiples ==
  ASSUME NEW a \in Int, NEW b \in Int, NEW m \in Nat \ {0}
  PROVE  a * m < b * m <=> a < b
  <1>1. a * m \in Int /\ b * m \in Int
    OBVIOUS
  <1>2. a < b => a * m + m <= b * m
    BY Larger
  <1>3. b <= a => b * m <= a * m
    BY Larger
  <1> QED BY <1>1, <1>2, <1>3

(* deepsleep()'s test, in microseconds.                                    *)
LEMMA Later ==
  ASSUME NEW c \in 0 .. MaxClock, NEW k \in 0 .. MaxClock, NEW s \in Interval
  PROVE  taia_less(Deadline(c, s), taia_now(k)) <=> c + s * Micros < k
  <1>1. /\ c \in Nat /\ k \in Nat /\ s * Micros \in Int
        /\ Epoch * Giga \in Int /\ Giga \in Nat \ {0}
    BY Intervals, Units, TaiAssumption
  <1> DEFINE x == Epoch * Giga + 1000 * (c + s * Micros) + 500
             y == Epoch * Giga + 1000 * k + 500
  <1>2. taia_less(Deadline(c, s), taia_now(k)) <=> x * Giga < y * Giga
    BY Deadlines, Now, LessOrders DEF Timed
  <1>3. x \in Int /\ y \in Int
    BY <1>1
  <1>4. x < y <=> c + s * Micros < k
    BY <1>1
  <1> HIDE DEF x, y
  <1> QED BY <1>1, <1>2, <1>3, <1>4, Multiples

(* The milliseconds for poll(), in microseconds: not more than what is     *)
(* left and Slack, and more than what is left unless that is cut off.      *)
LEMMA TimeoutBounds ==
  ASSUME NEW c \in 0 .. MaxClock, NEW k \in 0 .. MaxClock, NEW s \in Interval,
         NEW m \in Timeouts(Deadline(c, s), taia_now(k)),
         NEW left, left = c + s * Micros - k
  PROVE  /\ m \in Nat
         /\ m * Milli <= Slack * Milli + (IF left > 0 THEN left ELSE 0)
         /\ m * Milli <= (Longest * Millis + Slack) * Milli
         /\ 0 <= left /\ left <= Longest * Micros => m * Milli > left
  <1>1. /\ c \in Nat /\ k \in Nat /\ s * Micros \in Int /\ left \in Int
        /\ Slack \in Nat /\ Slack > 1 /\ Milli \in Nat \ {0} /\ Millis \in Nat \ {0}
        /\ Longest \in Nat /\ Giga \in Nat \ {0} /\ Epoch \in Nat
    BY Intervals, Units, TaiAssumption
  <1>2. Slack * Milli \in Nat /\ Longest * Micros \in Nat
        /\ (Longest * Millis + Slack) * Milli = Longest * Micros + Slack * Milli
    <2>1. Micros = Millis * Milli
      BY DEF Micros
    <2> HIDE DEF Micros
    <2>2. Longest * Millis \in Nat /\ (Longest * Millis) * Milli = Longest * Micros
      BY <1>1, <2>1
    <2> QED BY <1>1, <2>2
  <1>3. CASE left < 0
    <2>1. taia_less(Deadline(c, s), taia_now(k))
      BY <1>1, <1>3, Later
    <2>2. m = 0
      BY <2>1 DEF Timeouts
    <2> QED BY <1>1, <1>2, <1>3, <2>2
  <1>4. CASE left >= 0
    <2> DEFINE D == Deadline(c, s)
               N == taia_now(k)
               t == taia_sub(D, N)
    <2>1. ~taia_less(D, N)
      BY <1>1, <1>4, Later
    <2>2. t \in Taia /\ Value(t) = (1000 * left) * Giga
      <3>1. D \in Taia /\ N \in Taia
        BY Deadlines, Now DEF Timed
      <3>2. t \in Taia /\ Value(t) = Value(D) - Value(N)
        BY <2>1, <3>1, SubTakesAway
      <3> DEFINE x == Epoch * Giga + 1000 * (c + s * Micros) + 500
                 y == Epoch * Giga + 1000 * k + 500
      <3>3. Value(D) = x * Giga /\ Value(N) = y * Giga
        BY Deadlines, Now
      <3>4. x \in Int /\ y \in Int /\ x - y = 1000 * left
        <4>1. Epoch * Giga \in Int
          BY <1>1
        <4> QED BY <1>1, <4>1
      <3> HIDE DEF x, y, D, N, t
      <3>5. x * Giga - y * Giga = (x - y) * Giga
        BY <1>1, <3>4
      <3> QED BY <3>2, <3>3, <3>4, <3>5
    <2>3. Nanos(t) = 1000 * left
      <3> DEFINE x == t.sec * Giga + t.nano
      <3>1. t.atto \in 0 .. Giga - 1 /\ x \in Int /\ 0 \in 0 .. Giga - 1
        <4>1. t.sec \in Int /\ t.nano \in Int /\ t.atto \in 0 .. Giga - 1
          BY <2>2, TaiaParts, Units, TaiAssumption
        <4> HIDE DEF t
        <4> QED BY <1>1, <4>1
      <3>2. x * Giga + t.atto = (1000 * left) * Giga + 0
        <4>1. (1000 * left) * Giga \in Int
          BY <1>1
        <4> QED BY <2>2, <4>1 DEF Value
      <3>3. /\ x * Giga + t.atto < (1000 * left) * Giga + 0
               <=> x < 1000 * left \/ (x = 1000 * left /\ t.atto < 0)
            /\ (1000 * left) * Giga + 0 < x * Giga + t.atto
               <=> 1000 * left < x \/ (1000 * left = x /\ 0 < t.atto)
        <4>1. Giga \in Nat /\ 1000 * left \in Int
          BY <1>1
        <4> HIDE DEF x, t
        <4> QED BY <3>1, <4>1, Digits
      <3>4. (1000 * left) * Giga + 0 \in Int /\ 1000 * left \in Int
        BY <1>1
      <3>5. x = 1000 * left
        <4> HIDE DEF x, t
        <4> QED BY <3>1, <3>2, <3>3, <3>4
      <3> QED BY <3>5 DEF Nanos
    <2> DEFINE q == IF left > Longest * Micros THEN Longest * Micros ELSE left
               d == IF Nanos(t) > Longest * Giga THEN Longest * Giga ELSE Nanos(t)
               e == d \div (1000 * Milli)
               r == d % (1000 * Milli)
    <2>4. q \in Nat /\ d = 1000 * q
      <3>1. Longest * Giga = 1000 * (Longest * Micros)
        BY <1>1, Units
      <3> HIDE DEF t
      <3> QED BY <1>1, <1>2, <1>4, <2>3, <3>1
    <2>5. m = e + Slack \/ (m = (e + Slack) - 1 /\ d # 0 /\ r = 0)
      <3>1. m \in Millisecs(d)
        BY <2>1 DEF Timeouts, Capped
      <3> HIDE DEF d
      <3>2. Millisecs(d) = IF d # 0 /\ r = 0 THEN {e + Slack, (e + Slack) - 1} ELSE {e + Slack}
        BY Zenon DEF Millisecs
      <3> HIDE DEF e, r
      <3> QED BY <3>1, <3>2
    <2> HIDE DEF q, d
    <2>6. /\ e \in Nat /\ r \in 0 .. 1000 * Milli - 1
          /\ d = e * (1000 * Milli) + r
      <3> DEFINE w == 1000 * Milli
      <3>1. d \in Nat /\ w \in Nat \ {0}
        BY <1>1, <2>4
      <3> HIDE DEF w
      <3>2. d \div w \in Nat /\ d % w \in 0 .. w - 1 /\ d = (d \div w) * w + (d % w)
        BY <3>1, DivMod
      <3> QED BY <3>2 DEF w
    <2> HIDE DEF e, r
    <2>7. /\ e * Milli \in Nat /\ e * Milli <= q /\ q < e * Milli + Milli
          /\ r = 0 => e * Milli = q
      <3>1. e * (1000 * Milli) = 1000 * (e * Milli) /\ e * Milli \in Nat
        BY <1>1, <2>6
      <3> QED BY <1>1, <2>4, <2>6, <3>1
    <2>8. /\ m \in Int /\ m * Milli \in Int /\ m >= e + 1
          /\ m * Milli <= q + Slack * Milli
          /\ m * Milli > q
      <3>1. CASE m = e + Slack
        <4>1. m * Milli = e * Milli + Slack * Milli
          BY <1>1, <2>6, <3>1
        <4>2. 2 * Milli <= Slack * Milli
          BY <1>1, Larger
        <4> QED BY <1>1, <1>2, <2>4, <2>6, <2>7, <3>1, <4>1, <4>2
      <3>2. CASE m = (e + Slack) - 1 /\ r = 0
        <4>1. m * Milli = e * Milli + Slack * Milli - Milli
          BY <1>1, <2>6, <3>2
        <4>2. 2 * Milli <= Slack * Milli
          BY <1>1, Larger
        <4> QED BY <1>1, <1>2, <2>4, <2>6, <2>7, <3>2, <4>1, <4>2
      <3> QED BY <2>5, <3>1, <3>2
    <2>9. q <= left /\ q <= Longest * Micros /\ (left <= Longest * Micros => q = left)
      BY <1>1, <1>2 DEF q
    <2> QED BY <1>1, <1>2, <1>4, <2>4, <2>6, <2>8, <2>9
  <1> QED BY <1>1, <1>3, <1>4

----------------------------------------------------------------------------
(* Types                                                                   *)

LEMMA TypesOfConstants ==
  /\ Micros \in Nat \ {0} /\ Milli \in Nat \ {0} /\ MaxReal \in Nat /\ MaxClock \in Nat
  /\ MaxJumps \in Nat /\ Pause \in Nat /\ ForkPause \in Nat /\ Turn \in Nat
  /\ Jumps \subseteq Int /\ Clock0 \in 0 .. MaxClock
  BY Units, TaiAssumption, PaceAssumption

LEMMA Zero == Timed(taia_uint(0))
  BY Units, TaiAssumption DEF Timed, Taia, taia_uint

LEMMA InitTypes == Init => TypeOK
  <1> SUFFICES ASSUME Init PROVE TypeOK
    OBVIOUS
  <1>1. Timed(taia_now(clock))
    BY TypesOfConstants, Now DEF Init
  <1>2. started \in Int
    BY TypesOfConstants DEF Init
  <1>3. /\ Timed(deadline) /\ Timed(when) /\ Timed(status)
        /\ started \in Int /\ ahead \in Nat /\ until \in Nat /\ asked = 0
    BY <1>1, <1>2, Zero DEF Init
  <1>4. begun \in 0 .. real /\ from \in 0 .. MaxClock /\ back \in Nat
    BY TypesOfConstants DEF Init
  <1>6. calm \in BOOLEAN /\ polled \in BOOLEAN
    BY Zenon DEF Init
  <1>5. /\ real \in 0 .. MaxReal /\ clock \in 0 .. MaxClock /\ jumps \in 0 .. MaxJumps
        /\ changed \in 0 .. MaxClock /\ shown \in 0 .. MaxClock
    BY TypesOfConstants DEF Init
  <1> QED BY <1>3, <1>4, <1>5, <1>6 DEF Init, TypeOK

(* The milliseconds are a number, whatever the times are.                  *)
LEMMA PollTime ==
  ASSUME NEW t \in Taia, NEW u \in Taia, NEW m \in Timeouts(t, u)
  PROVE  m * Milli \in Nat
  <1>1. /\ Milli \in Nat \ {0} /\ Slack \in Nat /\ Slack > 1 /\ Longest * Giga \in Nat
    BY Units, TaiAssumption
  <1>2. CASE taia_less(t, u)
    BY <1>1, <1>2 DEF Timeouts
  <1>3. CASE ~taia_less(t, u)
    <2> DEFINE d == Capped(Nanos(taia_sub(t, u)))
               e == d \div (1000 * Milli)
    <2>1. Nanos(taia_sub(t, u)) \in Nat
      <3>1. taia_sub(t, u) \in Taia
        BY <1>3, SubTakesAway
      <3> QED BY <3>1, Units, TaiaParts, TaiAssumption DEF Nanos
    <2>2. d \in Nat
      BY <1>1, <2>1 DEF Capped
    <2>3. m \in Millisecs(d)
      BY <1>3 DEF Timeouts
    <2> HIDE DEF d
    <2>4. e \in Nat
      <3> DEFINE w == 1000 * Milli
      <3>1. w \in Nat \ {0}
        BY <1>1
      <3> HIDE DEF w
      <3>2. d \div w \in Nat
        BY <2>2, <3>1, DivMod
      <3> QED BY <3>2 DEF w
    <2>5. m \in {e + Slack, (e + Slack) - 1}
      BY <2>3 DEF Millisecs
    <2> HIDE DEF e
    <2>6. m \in Nat
      BY <1>1, <2>4, <2>5
    <2> QED BY <1>1, <2>6
  <1> QED BY <1>2, <1>3

LEMMA StepTypes == TypeOK /\ [Next]_vars => TypeOK'
  <1> SUFFICES ASSUME TypeOK, [Next]_vars PROVE TypeOK'
    OBVIOUS
  <1>1. /\ real \in Nat /\ clock \in 0 .. MaxClock /\ asked \in Interval
        /\ Timed(taia_now(clock))
    BY Now, TypesOfConstants DEF TypeOK, Interval
  <1> DEFINE Sleep == begun \in 0 .. real /\ from \in 0 .. MaxClock /\ back \in Nat
             Flags == calm \in BOOLEAN /\ polled \in BOOLEAN
  <1>a. Begins /\ real' = real => Sleep' /\ Flags'
    <2>1. Begins /\ real' = real => Sleep'
      BY <1>1 DEF Begins
    <2>2. Begins => Flags'
      BY Zenon DEF Begins
    <2> QED BY <2>1, <2>2
  <1>b. Awake /\ real' = real
          => Sleep' /\ Flags' /\ asked' = 0 /\ Timed(deadline') /\ until' \in Nat
    <2>1. Awake /\ real' = real => Sleep' /\ asked' = 0 /\ Timed(deadline') /\ until' \in Nat
      BY <1>1, Zero, TypesOfConstants DEF Awake
    <2>2. Awake => Flags'
      BY Zenon DEF Awake
    <2> QED BY <2>1, <2>2
  <1>2. CASE Tick
    BY <1>2, TypesOfConstants DEF Tick, TypeOK, sleep, rest, history
  <1>3. CASE SetClock
    <2>1. PICK j \in Jumps :
             /\ clock + j \in 0 .. MaxClock /\ clock' = clock + j
             /\ ahead' = (IF j > 0 THEN ahead + j ELSE ahead)
             /\ back' = (IF j < 0 THEN back - j ELSE back)
      BY <1>3 DEF SetClock
    <2>2. j \in Int
      BY TypesOfConstants
    <2>3. /\ clock' \in 0 .. MaxClock /\ ahead' \in Nat /\ back' \in Nat
          /\ jumps' \in 0 .. MaxJumps
      BY <1>3, <2>1, <2>2, TypesOfConstants DEF SetClock, TypeOK
    <2> QED BY <1>3, <2>3 DEF SetClock, TypeOK, sleep
  <1>4. CASE Reap
    BY <1>4 DEF Reap, TypeOK, sleep, rest, history
  <1>5. CASE Start
    BY <1>1, <1>5 DEF Start, Sleeps, TypeOK, rest
  <1>6. CASE pidchange
    BY <1>1, <1>6 DEF pidchange, Sleeps, TypeOK, rest
  <1>7. CASE announce
    BY <1>7 DEF announce, Sleeps, TypeOK, rest
  <1>8. CASE TurnEnds
    <2>1. Timed(Deadline(clock, Turn))
      BY <1>1, Deadlines DEF Interval
    <2>2. \A m \in Timeouts(Deadline(clock, Turn), taia_now(clock)) : m * Milli \in Nat
      BY <1>1, <2>1, PollTime DEF Timed
    <2>3. until' \in Nat
      BY <1>1, <1>8, <2>2 DEF TurnEnds, Deadline
    <2> QED BY <1>a, <1>8, <2>3 DEF TurnEnds, TypeOK
  <1>9. CASE TurnBegins
    BY <1>b, <1>9 DEF TurnBegins, TypeOK
  <1>10. CASE deepsleep
    <2>1. Timed(deadline')
      BY <1>1, <1>10, Deadlines DEF deepsleep, Deadline
    <2> QED BY <1>a, <1>10, <2>1 DEF deepsleep, TypeOK
  <1>11. CASE Wakes
    BY <1>b, <1>11 DEF Wakes, TypeOK
  <1>12. CASE iopause
    <2>1. until' \in Nat
      BY <1>1, <1>12, PollTime DEF iopause, TypeOK, Timed
    <2> QED BY <1>12, <2>1 DEF iopause, TypeOK, rest, history
  <1>13. CASE PollEnds
    BY <1>13 DEF PollEnds, TypeOK
  <1>14. CASE UNCHANGED vars
    BY <1>14 DEF vars, sleep, rest, history, TypeOK
  <1> QED BY <1>2, <1>3, <1>4, <1>5, <1>6, <1>7, <1>8, <1>9, <1>10, <1>11, <1>12, <1>13, <1>14
          DEF Next

(* Every variable of Pace keeps its type.                                  *)
THEOREM PaceTypes == Spec => []TypeOK
  BY InitTypes, StepTypes, PTL DEF Spec

----------------------------------------------------------------------------
(* svstat's seconds: the times are those of the clock when they were taken *)

Stamps == when = taia_now(changed) /\ status = taia_now(shown)

LEMMA AgeOfStamp ==
  ASSUME TypeOK, Stamps
  PROVE  AgeRight
  <1> DEFINE x == shown \div Micros
             y == clock \div Micros
             a == seconds(status.sec, tai_now(clock))
  <1>1. /\ shown \in 0 .. MaxClock /\ clock \in 0 .. MaxClock
    BY DEF TypeOK
  <1>2. /\ Micros \in Nat \ {0} /\ shown \in Nat /\ clock \in Nat
        /\ Epoch \in Nat /\ Word \in Nat
    BY <1>1, TypesOfConstants, TaiAssumption
  <1>3. /\ x \in Nat /\ y \in Nat
        /\ status.sec = Epoch + x /\ tai_now(clock) = Epoch + y
        /\ Epoch + x + 1 < Word /\ Epoch + y + 1 < Word
    <2>1. status.sec = Epoch + x /\ taia_now(clock).sec = Epoch + y
      BY <1>1, Now DEF Stamps
    <2>2. taia_now(clock).sec = tai_now(clock)
      BY DEF taia_now
    <2>3. x \in Nat /\ y \in Nat /\ Epoch + x + 0 + 1 < Word /\ Epoch + y + 0 + 1 < Word
      <3>1. 0 \in Interval
        BY DEF Interval
      <3>2. x \in Nat /\ Epoch + x + 0 + 1 < Word
        BY <1>1, <3>1, Intervals
      <3>3. y \in Nat /\ Epoch + y + 0 + 1 < Word
        BY <1>1, <3>1, Intervals
      <3> QED BY <3>2, <3>3
    <2> HIDE DEF x, y
    <2> QED BY <1>2, <2>1, <2>2, <2>3
  <1>4. /\ x * Micros \in Nat /\ x * Micros <= shown /\ shown < x * Micros + Micros
        /\ y * Micros \in Nat /\ y * Micros <= clock /\ clock < y * Micros + Micros
    <2>1. /\ shown = x * Micros + (shown % Micros) /\ shown % Micros \in 0 .. Micros - 1
          /\ clock = y * Micros + (clock % Micros) /\ clock % Micros \in 0 .. Micros - 1
      <3> HIDE DEF Micros
      <3>1. /\ shown = (shown \div Micros) * Micros + (shown % Micros)
            /\ shown % Micros \in 0 .. Micros - 1
        BY <1>2, DivMod
      <3>2. /\ clock = (clock \div Micros) * Micros + (clock % Micros)
            /\ clock % Micros \in 0 .. Micros - 1
        BY <1>2, DivMod
      <3> QED BY <3>1, <3>2
    <2> HIDE DEF x, y
    <2>2. x * Micros \in Nat /\ y * Micros \in Nat
      BY <1>2, <1>3
    <2> QED BY <1>2, <2>1, <2>2
  <1>5. a = IF y < x THEN 0 ELSE y - x
    <2> HIDE DEF x, y
    <2> QED BY <1>2, <1>3 DEF seconds, tai_less, tai_sub, Wrap
  <1> HIDE DEF x, y, a
  <1>6. CASE y < x
    <2>1. y * Micros + Micros <= x * Micros
      BY <1>2, <1>3, <1>6, Larger
    <2>2. a * Micros = 0
      BY <1>2, <1>5, <1>6
    <2> QED BY <1>2, <1>4, <2>1, <2>2 DEF AgeRight, a
  <1>7. CASE x <= y
    <2>1. a * Micros = y * Micros - x * Micros /\ x * Micros <= y * Micros
      <3>1. a = y - x
        BY <1>3, <1>5, <1>7
      <3>2. (y - x) * Micros = y * Micros - x * Micros
        BY <1>2, <1>3
      <3>3. x * Micros <= y * Micros
        BY <1>2, <1>3, <1>7, Larger
      <3> QED BY <3>1, <3>2, <3>3
    <2> QED BY <1>2, <1>4, <2>1 DEF AgeRight, a
  <1> QED BY <1>3, <1>6, <1>7

LEMMA StepStamps == Stamps /\ [Next]_vars => Stamps'
  <1> SUFFICES ASSUME Stamps, [Next]_vars PROVE Stamps'
    OBVIOUS
  <1>1. CASE pidchange
    BY <1>1 DEF pidchange, Stamps
  <1>2. CASE announce
    BY <1>2 DEF announce, Stamps
  <1>3. CASE UNCHANGED <<when, status, changed, shown>>
    BY <1>3 DEF Stamps
  <1> QED BY <1>1, <1>2, <1>3 DEF Next, vars, history, Tick, SetClock, Reap, Start,
          TurnEnds, TurnBegins, deepsleep, Wakes, iopause, PollEnds

(* svstat's seconds are right, wherever the clock is set to.               *)
THEOREM AgeTold == Spec => []AgeRight
  <1>1. Init => Stamps
    BY DEF Init, Stamps
  <1> QED BY <1>1, StepStamps, PaceTypes, AgeOfStamp, PTL DEF Spec

----------------------------------------------------------------------------
(* supervise does not loop too quickly                                     *)

Asleep == pc \in {"check", "poll"}

(* What deepsleep() has to do for it: after a start it is asked for Pause, *)
(* and the clock has moved no more since it began than since the start.    *)
Rests ==
  /\ started <= real
  /\ after = "turn" => real - started + ahead > Pause * Micros
  /\ pc \in {"turn", "wait"} => after = "turn"
  /\ after = "pause" /\ resume = "turn" /\ pc \in {"deepsleep", "check", "poll"} => asked = Pause
  /\ Asleep => clock - from <= real - started + ahead /\ deadline = Deadline(from, asked)

LEMMA InitRests == Init => Rests
  <1> SUFFICES ASSUME Init PROVE Rests
    OBVIOUS
  <1>1. 0 - (-(Pause + 1) * Micros) + 0 > Pause * Micros /\ -(Pause + 1) * Micros <= 0
    <2>1. -(Pause + 1) * Micros = 0 - Pause * Micros - Micros
      BY TypesOfConstants, Spread
    <2>2. Pause * Micros \in Nat
      BY TypesOfConstants
    <2> QED BY <2>1, <2>2, TypesOfConstants
  <1> QED BY <1>1 DEF Init, Rests, Asleep

LEMMA StepRests == TypeOK /\ Rests /\ [Next]_vars => Rests'
  <1> SUFFICES ASSUME TypeOK, Rests, [Next]_vars PROVE Rests'
    OBVIOUS
  <1>1. /\ real \in Nat /\ clock \in Nat /\ started \in Int /\ ahead \in Nat /\ from \in Nat
        /\ Pause * Micros \in Nat
    BY TypesOfConstants DEF TypeOK
  <1>2. CASE Tick
    BY <1>1, <1>2 DEF Tick, Rests, Asleep, sleep, rest, history
  <1>3. CASE SetClock
    <2>1. PICK j \in Jumps : clock' = clock + j /\ ahead' = (IF j > 0 THEN ahead + j ELSE ahead)
      BY <1>3 DEF SetClock
    <2>2. j \in Int
      BY TypesOfConstants
    <2>3. clock' - clock <= ahead' - ahead /\ ahead <= ahead' /\ ahead' \in Nat /\ clock' \in Int
      BY <1>1, <2>1, <2>2
    <2> QED BY <1>1, <1>3, <2>3 DEF SetClock, Rests, Asleep, sleep
  <1>4. CASE Reap
    BY <1>4 DEF Reap, Rests, Asleep, sleep, rest, history
  <1>5. CASE Start
    BY <1>1, <1>5 DEF Start, Sleeps, Rests, Asleep, rest
  <1>6. CASE pidchange
    BY <1>6 DEF pidchange, Sleeps, Rests, Asleep, rest
  <1>7. CASE announce
    BY <1>7 DEF announce, Sleeps, Rests, Asleep, rest
  <1>8. CASE TurnEnds
    BY <1>8 DEF TurnEnds, Rests, Asleep
  <1>9. CASE TurnBegins
    BY <1>9 DEF TurnBegins, Rests, Asleep
  <1>10. CASE deepsleep
    BY <1>1, <1>10 DEF deepsleep, Begins, Rests, Asleep, Deadline
  <1>11. CASE Wakes
    <2>1. after = "pause" /\ resume = "turn" => real - started + ahead > Pause * Micros
      <3> SUFFICES ASSUME after = "pause", resume = "turn"
                   PROVE  real - started + ahead > Pause * Micros
        OBVIOUS
      <3>1. /\ asked = Pause /\ deadline = Deadline(from, Pause)
            /\ clock - from <= real - started + ahead
        BY <1>11 DEF Wakes, Rests, Asleep
      <3>2. from \in 0 .. MaxClock /\ clock \in 0 .. MaxClock /\ Pause \in Interval
        BY DEF TypeOK, Interval
      <3>3. from + Pause * Micros < clock
        BY <1>11, <3>1, <3>2, Later DEF Wakes, Over
      <3> QED BY <1>1, <3>1, <3>3
    <2>2. after \in {"turn", "pause"} /\ resume \in {"turn", "announce"}
      BY DEF TypeOK
    <2> QED BY <1>11, <2>1, <2>2 DEF Wakes, Rests, Asleep
  <1>12. CASE iopause
    BY <1>12 DEF iopause, Rests, Asleep, rest, history
  <1>13. CASE PollEnds
    BY <1>13 DEF PollEnds, Rests, Asleep
  <1>14. CASE UNCHANGED vars
    BY <1>14 DEF vars, sleep, rest, history, Rests, Asleep
  <1> QED BY <1>2, <1>3, <1>4, <1>5, <1>6, <1>7, <1>8, <1>9, <1>10, <1>11, <1>12, <1>13, <1>14
          DEF Next

(* More than a second passes between two starts of a script, but for what  *)
(* the clock was set forward; failing forks, signals and ends of children  *)
(* do not shorten it.                                                      *)
THEOREM NeverTooFast == Spec => []Paced
  <1>1. Rests => Paced
    BY DEF Rests, Paced
  <1> QED BY <1>1, PaceTypes, InitRests, StepRests, PTL DEF Spec

----------------------------------------------------------------------------
(* No sleep is longer than it should be                                    *)

(* How far the clock is from where it would be had it only ticked.         *)
Drift ==
  /\ pc \in {"check", "poll", "wait"} =>
       /\ real - begun - back <= clock - from
       /\ calm => clock - from = real - begun
  /\ pc = "wait" => asked = Turn

(* When a poll() that began in the sleep ends.                             *)
Polls ==
  /\ pc \in {"poll", "wait"} =>
       /\ until <= begun + asked * Micros + back + Slack * Milli
       /\ until <= real + (Longest * Millis + Slack) * Milli
  /\ pc = "poll" /\ calm /\ asked <= Longest => until > begun + asked * Micros
  /\ pc = "check" /\ polled /\ calm /\ asked <= Longest => Over

(* What a poll() that begins now will be.                                  *)
LEMMA PollBegins ==
  ASSUME TypeOK, NEW c \in 0 .. MaxClock, NEW s \in Interval,
         NEW m \in Timeouts(Deadline(c, s), taia_now(clock)),
         NEW b \in 0 .. real, NEW k \in Nat, real - b - k <= clock - c,
         ~taia_less(Deadline(c, s), taia_now(clock))
  PROVE  /\ real + m * Milli <= b + s * Micros + k + Slack * Milli
         /\ real + m * Milli <= real + (Longest * Millis + Slack) * Milli
         /\ clock - c = real - b /\ s <= Longest => real + m * Milli > b + s * Micros
  <1> DEFINE left == c + s * Micros - clock
  <1>1. /\ real \in Nat /\ clock \in 0 .. MaxClock /\ clock \in Nat /\ c \in Nat /\ b \in Nat
        /\ b <= real /\ s \in Nat /\ Micros \in Nat /\ s * Micros \in Nat /\ Slack * Milli \in Nat
        /\ Longest \in Nat /\ Longest * Micros \in Nat
    <2>1. real \in Nat /\ clock \in 0 .. MaxClock /\ clock \in Nat
      BY TypesOfConstants DEF TypeOK
    <2>2. s \in Nat /\ c \in Nat
      BY Intervals
    <2> QED BY <2>1, <2>2, TypesOfConstants, TaiAssumption
  <1>2. /\ m \in Nat /\ m * Milli <= Slack * Milli + (IF left > 0 THEN left ELSE 0)
        /\ m * Milli <= (Longest * Millis + Slack) * Milli
        /\ 0 <= left /\ left <= Longest * Micros => m * Milli > left
    BY <1>1, TimeoutBounds
  <1>3. m * Milli \in Nat /\ (Longest * Millis + Slack) * Milli \in Nat
    BY <1>2, TypesOfConstants, TaiAssumption
  <1>4. left \in Int /\ 0 <= left /\ left <= b + s * Micros + k - real
    BY <1>1, Later
  <1>5. clock - c = real - b /\ s <= Longest => left = b + s * Micros - real /\ left <= Longest * Micros
    <2>1. s <= Longest => s * Micros <= Longest * Micros
      BY <1>1, Larger
    <2> QED BY <1>1, <2>1
  <1> HIDE DEF left
  <1> QED BY <1>1, <1>2, <1>3, <1>4, <1>5

LEMMA StepPolls == TypeOK /\ Rests /\ Drift /\ Polls /\ [Next]_vars => Drift' /\ Polls'
  <1> SUFFICES ASSUME TypeOK, Rests, Drift, Polls, [Next]_vars PROVE Drift' /\ Polls'
    OBVIOUS
  <1>1. /\ real \in Nat /\ clock \in Nat /\ begun \in Nat /\ from \in Nat /\ back \in Nat
        /\ until \in Nat /\ asked \in Nat /\ asked * Micros \in Nat /\ Slack * Milli \in Nat
        /\ (Longest * Millis + Slack) * Milli \in Nat /\ Longest \in Nat
    BY TypesOfConstants, TaiAssumption DEF TypeOK
  <1>2. /\ asked \in Interval /\ from \in 0 .. MaxClock /\ clock \in 0 .. MaxClock
        /\ begun \in 0 .. real
    BY DEF TypeOK, Interval
  <1>3. pc \in {"check", "poll"} => (Over <=> from + asked * Micros < clock)
    BY <1>2, Later DEF Rests, Asleep, Over
  <1>4. CASE Tick
    <2>1. pc = "check" /\ Over => Over'
      <3>1. Over' <=> taia_less(deadline, taia_now(clock + 1))
        BY <1>4 DEF Tick, Over, sleep
      <3>2. clock + 1 \in 0 .. MaxClock
        BY <1>1, <1>2, <1>4, TypesOfConstants DEF Tick
      <3>3. pc = "check" => (Over' <=> from + asked * Micros < clock + 1)
        BY <1>2, <3>1, <3>2, Later DEF Rests, Asleep
      <3> QED BY <1>1, <1>3, <3>3
    <2>2. Drift'
      BY <1>1, <1>4 DEF Tick, Drift, sleep, rest, history
    <2>3. Polls'
      BY <1>1, <1>4, <2>1 DEF Tick, Polls, sleep, rest, history
    <2> QED BY <2>2, <2>3
  <1>5. CASE SetClock
    <2>1. PICK j \in Jumps : clock' = clock + j /\ back' = (IF j < 0 THEN back - j ELSE back)
      BY <1>5 DEF SetClock
    <2>2. j \in Int
      BY TypesOfConstants
    <2>3. /\ back' - back >= clock - clock' /\ back' >= back /\ back' \in Nat /\ clock' \in Int
          /\ ~calm'
      BY <1>1, <1>5, <2>1, <2>2 DEF SetClock
    <2>4. Drift'
      BY <1>1, <1>5, <2>3 DEF SetClock, Drift, sleep
    <2>5. Polls'
      BY <1>1, <1>5, <2>3 DEF SetClock, Polls, sleep
    <2> QED BY <2>4, <2>5
  <1>6. CASE Reap
    BY <1>6 DEF Reap, Drift, Polls
  <1>7. CASE Start
    BY <1>7 DEF Start, Sleeps, Drift, Polls
  <1>8. CASE pidchange
    BY <1>8 DEF pidchange, Sleeps, Drift, Polls
  <1>9. CASE announce
    BY <1>9 DEF announce, Sleeps, Drift, Polls
  <1>10. CASE TurnEnds
    <2>1. PICK m \in Timeouts(Deadline(clock, Turn), taia_now(clock)) : until' = real + m * Milli
      BY <1>10 DEF TurnEnds, Deadline
    <2>2. Turn \in Interval /\ ~taia_less(Deadline(clock, Turn), taia_now(clock))
      <3>1. Turn \in Interval /\ Turn * Micros \in Nat
        BY TypesOfConstants DEF Interval
      <3> QED BY <1>1, <1>2, <3>1, Later
    <2>3. /\ until' <= real + Turn * Micros + 0 + Slack * Milli
          /\ until' <= real + (Longest * Millis + Slack) * Milli
      <3>1. real \in 0 .. real /\ 0 \in Nat /\ real - real - 0 <= clock - clock
        BY <1>1
      <3> QED BY <1>2, <2>1, <2>2, <3>1, PollBegins
    <2>4. begun' = real /\ from' = clock /\ back' = 0 /\ real' = real /\ clock' = clock
          /\ asked' = Turn /\ pc' = "wait"
      BY <1>10 DEF TurnEnds, Begins
    <2> QED BY <1>1, <2>3, <2>4 DEF Drift, Polls
  <1>11. CASE TurnBegins
    BY <1>11 DEF TurnBegins, Drift, Polls
  <1>12. CASE deepsleep
    <2>1. begun' = real /\ from' = clock /\ back' = 0 /\ real' = real /\ clock' = clock
          /\ pc' = "check" /\ ~polled'
      BY <1>12 DEF deepsleep, Begins
    <2> QED BY <1>1, <2>1 DEF Drift, Polls
  <1>13. CASE Wakes
    <2>1. pc' \in {"turn", "announce"}
      BY <1>13 DEF Wakes, TypeOK
    <2> QED BY <2>1 DEF Drift, Polls
  <1>14. CASE iopause
    <2>1. PICK m \in Timeouts(Deadline(from, asked), taia_now(clock)) : until' = real + m * Milli
      BY <1>14 DEF iopause, Rests, Asleep
    <2>2. ~taia_less(Deadline(from, asked), taia_now(clock))
      BY <1>14 DEF iopause, Rests, Asleep, Over
    <2>3. /\ real - begun - back <= clock - from
          /\ calm => clock - from = real - begun
      BY <1>14 DEF iopause, Drift
    <2>4. /\ until' <= begun + asked * Micros + back + Slack * Milli
          /\ until' <= real + (Longest * Millis + Slack) * Milli
          /\ clock - from = real - begun /\ asked <= Longest => until' > begun + asked * Micros
      BY <1>1, <1>2, <2>1, <2>2, <2>3, PollBegins
    <2>5. Drift'
      BY <1>14 DEF iopause, Drift, rest, history
    <2>6. Polls'
      BY <1>14, <2>3, <2>4 DEF iopause, Polls, rest, history
    <2> QED BY <2>5, <2>6
  <1>15. CASE PollEnds
    <2>1. Drift'
      BY <1>15 DEF PollEnds, Drift
    <2>2. calm' /\ asked <= Longest => Over'
      <3> SUFFICES ASSUME calm', asked <= Longest PROVE Over'
        OBVIOUS
      <3>1. real >= until /\ calm
        BY <1>15 DEF PollEnds
      <3>2. until > begun + asked * Micros /\ clock - from = real - begun
        BY <1>15, <3>1 DEF PollEnds, Polls, Drift
      <3>3. from + asked * Micros < clock
        BY <1>1, <3>1, <3>2
      <3>4. Over
        BY <1>3, <1>15, <3>3 DEF PollEnds
      <3> QED BY <1>15, <3>4 DEF PollEnds, Over
    <2>3. Polls'
      BY <1>15, <2>2 DEF PollEnds, Polls
    <2> QED BY <2>1, <2>3
  <1>16. CASE UNCHANGED vars
    BY <1>16 DEF vars, sleep, rest, history, Drift, Polls, Over
  <1> QED BY <1>4, <1>5, <1>6, <1>7, <1>8, <1>9, <1>10, <1>11, <1>12, <1>13, <1>14, <1>15, <1>16
          DEF Next

(* No sleep and no poll() lasts longer than it should, and one poll() is   *)
(* enough when nothing disturbs it.                                        *)
THEOREM SleepsRight == Spec => []SleepsAsAsked
  <1>1. Init => Drift /\ Polls
    BY DEF Init, Drift, Polls
  <1>2. Polls => SleepsAsAsked
    BY DEF Polls, SleepsAsAsked
  <1> QED BY <1>1, <1>2, PaceTypes, InitRests, StepRests, StepPolls, PTL DEF Spec
=============================================================================
