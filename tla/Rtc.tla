--------------------------------- MODULE Rtc ---------------------------------
(***************************************************************************)
(* The real-time clock: rtc_read (drivers/rtc.c) against a chip that       *)
(* updates its registers meanwhile.                                        *)
(*                                                                         *)
(* Of the six registers two are kept: second, which changes with every     *)
(* update, and hour, whose encoding is the involved one.  An hour has      *)
(* SECONDS seconds.  The chip keeps its time in the format it is set to:   *)
(* BCD or binary, 12 or 24 hours.  It is external: an update ends before   *)
(* read_raw runs out of polls, unless the chip is broken and never ends it,*)
(* and reading a register during an update yields its old, its new or      *)
(* another value.                                                          *)
(***************************************************************************)
EXTENDS Integers, Sequences

CONSTANTS
  SECONDS,      \* seconds in the hour
  Chips,        \* what the chip may be: its hour, its register B [bcd, h24], broken
  POLLS,        \* bound of read_raw's wait for the end of an update
  MaxUpdates    \* bound: updates explored

ASSUME RtcAssumption ==
  /\ SECONDS \in 1..60 /\ POLLS \in Nat \ {0}
  /\ Chips \subseteq [hour : 0..23, fmt : [bcd : BOOLEAN, h24 : BOOLEAN], broken : BOOLEAN]

VARIABLES
  now,      \* the chip: the time [hour, second] ...
  fmt,      \* ... register B ...
  uip,      \* ... whether it is updating ...
  broken,   \* ... and whether it never stops
  rpc, polls,
  a, b,     \* rtc_read's two readings
  time,     \* what it returned last
  updates,
  calm,     \* readings completed since the last update
  during    \* ghost: the times the chip had during the call

chip == <<now, fmt, uip, broken, updates>>
rtcVars == <<chip, rpc, polls, a, b, time, calm, during>>

\* External: how the chip shows a number, and an hour.
Bcd(n) == (n \div 10) * 16 + (n % 10)
Shown(f, n) == IF f.bcd THEN Bcd(n) ELSE n
ShownHour(f, h) ==
  IF f.h24 THEN Shown(f, h)
  ELSE Shown(f, IF h % 12 = 0 THEN 12 ELSE h % 12) + (IF h >= 12 THEN 128 ELSE 0)

NoTime == [hour |-> 0, second |-> 0]
RtcInit ==
  /\ \E c \in Chips : /\ now = [hour |-> c.hour, second |-> SECONDS - 1]
                      /\ fmt = c.fmt /\ broken = c.broken
  /\ uip = broken /\ updates = 0
  /\ rpc = "out" /\ polls = 0 /\ a = NoTime /\ b = NoTime /\ time = NoTime
  /\ calm = 3 /\ during = {}

\* External: one update a second.  Three readings take far less than that.
UpdateBegins ==
  /\ ~uip /\ calm >= 3 /\ updates < MaxUpdates
  /\ uip' = TRUE /\ updates' = updates + 1
  /\ UNCHANGED <<now, fmt, broken, rpc, polls, a, b, time, calm, during>>
Later(t) ==
  [second |-> (t.second + 1) % SECONDS,
   hour |-> IF t.second + 1 = SECONDS THEN (t.hour + 1) % 24 ELSE t.hour]
UpdateEnds ==
  /\ uip /\ ~broken /\ uip' = FALSE /\ now' = Later(now) /\ calm' = 0
  /\ during' = IF rpc \in {"out", "done"} THEN during ELSE during \cup {Later(now)}
  /\ UNCHANGED <<fmt, broken, updates, rpc, polls, a, b, time>>

\* External: what a register holds.
Register(value, next) == IF uip /\ ~broken THEN {value, next, 0} ELSE {value}

-----------------------------------------------------------------------------
rtc_read ==
  /\ rpc = "out" /\ rpc' = "wait1" /\ polls' = 0 /\ during' = {now}
  /\ UNCHANGED <<chip, a, b, time, calm>>

\* read_raw: the wait, the seconds, the rest.  The first reading is "1", those of
\* the loop "2".
Steps(k) == CASE k = 1 -> <<"wait1", "second1", "hour1", "again">>
              [] k = 2 -> <<"wait2", "second2", "hour2", "compare">>
WaitUpdate(k) ==
  /\ rpc = Steps(k)[1]
  /\ \/ uip /\ polls < POLLS /\ (broken \/ polls + 1 < POLLS) /\ polls' = polls + 1 /\ UNCHANGED rpc
     \/ ~(uip /\ polls < POLLS) /\ polls' = 0 /\ rpc' = Steps(k)[2]
  /\ UNCHANGED <<chip, a, b, time, calm, during>>
ReadSecond(k) ==
  /\ rpc = Steps(k)[2] /\ rpc' = Steps(k)[3]
  /\ \E v \in Register(Shown(fmt, now.second), Shown(fmt, Later(now).second)) : b' = [b EXCEPT !.second = v]
  /\ UNCHANGED <<chip, polls, a, time, calm, during>>
ReadHour(k) ==
  /\ rpc = Steps(k)[3] /\ rpc' = Steps(k)[4]
  /\ \E v \in Register(ShownHour(fmt, now.hour), ShownHour(fmt, Later(now).hour)) : b' = [b EXCEPT !.hour = v]
  /\ calm' = IF calm < 3 THEN calm + 1 ELSE calm
  /\ UNCHANGED <<chip, polls, a, time, during>>
ReadAgain == rpc = "again" /\ a' = b /\ rpc' = "wait2" /\ UNCHANGED <<chip, polls, b, time, calm, during>>

bcd_to_bin(v) == ((v % 16) + (v \div 16) * 10) % 256

\* The end of rtc_read: the PM bit, BCD, then 12 hours.
Decode(f, r) ==
  LET bin(v) == IF f.bcd THEN bcd_to_bin(v) ELSE v
      pm == r.hour >= 128
      hour == bin(r.hour % 128)
  IN [second |-> bin(r.second),
      hour |-> IF ~f.h24 /\ pm THEN (hour % 12) + 12
               ELSE IF ~f.h24 /\ hour = 12 THEN 0 ELSE hour]

\* Mutant: one reading is enough.
CompareNothing ==
  /\ rpc = "compare" /\ time' = Decode(fmt, a) /\ rpc' = "done"
  /\ UNCHANGED <<chip, polls, a, b, calm, during>>

Compare ==
  /\ rpc = "compare"
  /\ IF a # b THEN rpc' = "again" /\ UNCHANGED time
     ELSE time' = Decode(fmt, b) /\ rpc' = "done"
  /\ UNCHANGED <<chip, polls, a, b, calm, during>>

\* Back in the caller, whose copy of the time goes out of scope with its use.
RtcDone ==
  /\ rpc = "done" /\ rpc' = "out"
  /\ a' = NoTime /\ b' = NoTime /\ time' = NoTime /\ during' = {} /\ UNCHANGED <<chip, polls, calm>>

Reading == \/ ReadAgain \/ Compare
           \/ \E k \in {1, 2} : WaitUpdate(k) \/ ReadSecond(k) \/ ReadHour(k)
Updating == UpdateBegins \/ UpdateEnds
=============================================================================
