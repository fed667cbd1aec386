------------------------------ MODULE Instants ------------------------------
(***************************************************************************)
(* How the parsers convert points in time and what they show of them:      *)
(* FILETIMEs of gorb, shown to the second, and of gojle, shown to the      *)
(* millisecond (filetimeToTime, dotnetDate), the numbers of an             *)
(* ActivitiesCache row that are either Unix seconds or FILETIMEs           *)
(* (toEpochSeconds, durationOf of gowxt), and the seconds in floating      *)
(* point of go-evtx, shown to the nanosecond (systemTime of goevtx).       *)
(*                                                                         *)
(* The constants of the code are parameters, so that the theorems hold for *)
(* them (10 million ticks of 100 ns in a second, 11644473600 s from 1601   *)
(* to 1970, FILETIMEs above 10^14) and TLC can check the same formulas     *)
(* with small ones.                                                        *)
(***************************************************************************)
EXTENDS Integers, Sequences

CONSTANTS
  Millis,       \* milliseconds per second
  MilliTicks,   \* FILETIME ticks per millisecond
  Ticks,        \* FILETIME ticks per second
  PerTick,      \* nanoseconds per tick
  Gap,          \* seconds from 1601 to 1970
  FiletimeMin,  \* numbers above this are FILETIMEs to gowxt
  Half,         \* 2^63: integers are of -Half .. Half - 1
  Sixty,        \* seconds in a minute, minutes in an hour
  Fine,         \* units of goevtx's float per nanosecond
  Inputs        \* Inputs[tool]: what the tool may be given

Nanos == Ticks * PerTick        \* per second

Form == {"unix", "filetime"}
NoNumber == "not a number"      \* NULL, a blob, text that does not parse
NoTime == << >>                 \* rendered as ""
Tool == {"gorb", "gojle", "gowxt", "goevtx"}

(* A stored number of gowxt's stands for an instant in one of two forms. *)
Moment == [form : Form, sec : Int, tick : 0 .. Ticks - 1]

ASSUME UnitAssumption ==
  /\ Ticks \in Nat \ {0} /\ PerTick \in Nat \ {0} /\ Fine \in Nat \ {0}
  /\ Millis \in Nat \ {0} /\ MilliTicks \in Nat \ {0} /\ Ticks = Millis * MilliTicks
  /\ Sixty \in Nat \ {0}
  /\ Gap \in Nat /\ FiletimeMin \in Nat /\ Half \in Nat
  /\ FiletimeMin < Gap * Ticks
  /\ FiletimeMin + Gap < Half
ASSUME InputAssumption ==
  /\ \A x \in Inputs["gorb"] \cup Inputs["goevtx"] : x \in Int
  /\ \A x \in Inputs["gojle"] : x \in Nat
  /\ \A x \in Inputs["gowxt"] :
       /\ x.start \in Moment \cup {[form |-> NoNumber]}
       /\ x.end \in Moment \cup {[form |-> NoNumber]}

VARIABLES tool, input, shown, phase
instantsVars == <<tool, input, shown, phase>>

-----------------------------------------------------------------------------
(* Go's division rounds towards zero, TLA+'s down. *)
Quot(a, b) == IF a >= 0 THEN a \div b ELSE - ((- a) \div b)
Rem(a, b) == a - b * Quot(a, b)
Wrap(n) == ((n + Half) % (2 * Half)) - Half

(* time.Unix: any number of nanoseconds is carried into the seconds. *)
Unix(sec, nsec) == [sec |-> sec + nsec \div Nanos, nsec |-> nsec % Nanos]

(* Mutant: the fraction is dropped on the way. *)
FiletimeToTimeWhole(ft) == Unix(Quot(ft, Ticks) - Gap, 0)
FiletimeToTime(ft) == Unix(Quot(ft, Ticks) - Gap, Rem(ft, Ticks) * PerTick)

(* gorb prints whole seconds (time.RFC3339), gojle whole milliseconds, and
   nothing for a FILETIME of 0, which has a time of its own.                 *)
DeletedOn(ft) == <<FiletimeToTime(ft).sec>>
DotnetDate(ft) ==
  IF ft = 0 THEN NoTime
  ELSE LET t == FiletimeToTime(ft)
       IN  <<t.sec * Millis + t.nsec \div (MilliTicks * PerTick)>>

(* What the database holds for a moment. *)
Stored(m) ==
  IF m.form = "unix" THEN m.sec ELSE (m.sec + Gap) * Ticks + m.tick

(* Mutant: a FILETIME is taken for seconds since 1970. *)
EpochOfNoGap(n) == IF n > FiletimeMin THEN Quot(n, Ticks) ELSE n
EpochOf(n) == IF n > FiletimeMin THEN Quot(n, Ticks) - Gap ELSE n

(* toEpochSeconds: 0 is as good as absent. *)
Given(m) == m.form # NoNumber /\ Stored(m) # 0
ToEpochSeconds(m) == IF Given(m) THEN <<EpochOf(Stored(m))>> ELSE NoTime

HoursMinutesSeconds(total) ==
  <<Quot(total, Sixty * Sixty), Quot(Rem(total, Sixty * Sixty), Sixty),
    Rem(total, Sixty)>>

(* Mutant: the numbers are subtracted as they are stored. *)
DurationOfStored(start, end) ==
  IF ~ Given(start) \/ ~ Given(end) \/ Stored(end) < Stored(start) THEN NoTime
  ELSE HoursMinutesSeconds(Wrap(Stored(end) - Stored(start)))
DurationOf(start, end) ==
  IF ~ Given(start) \/ ~ Given(end) \/ EpochOf(Stored(end)) < EpochOf(Stored(start))
  THEN NoTime
  ELSE HoursMinutesSeconds(Wrap(EpochOf(Stored(end)) - EpochOf(Stored(start))))

(* math.Round of a number of Fine-ths: halves go away from zero. *)
Rounded(n) == Quot(2 * n + (IF n < 0 THEN - Fine ELSE Fine), 2 * Fine)

(* Mutant: the rounded fraction is not carried. *)
SystemTimeUncarried(v) ==
  LET sec == Quot(v, Nanos * Fine)
  IN  [sec |-> sec, nsec |-> Rounded(v - sec * Nanos * Fine)]

(* systemTime: the arguments of its time.Unix. *)
SystemTime(v) ==
  LET sec == Quot(v, Nanos * Fine)
      nsec == Rounded(v - sec * Nanos * Fine)
  IN  IF nsec >= Nanos THEN [sec |-> sec + 1, nsec |-> nsec - Nanos]
      ELSE IF nsec < 0 THEN [sec |-> sec - 1, nsec |-> nsec + Nanos]
      ELSE [sec |-> sec, nsec |-> nsec]

-----------------------------------------------------------------------------
InstantsInit ==
  /\ tool \in Tool /\ input \in Inputs[tool]
  /\ shown = NoTime /\ phase = "given"

(* One number, or one row's two, is converted and rendered. *)
Convert ==
  /\ phase = "given" /\ phase' = "shown"
  /\ shown' = CASE tool = "gorb" -> DeletedOn(input)
                [] tool = "gojle" -> DotnetDate(input)
                [] tool = "gowxt" -> [start |-> ToEpochSeconds(input.start),
                                      end |-> ToEpochSeconds(input.end),
                                      duration |-> DurationOf(input.start, input.end)]
                [] tool = "goevtx" -> SystemTime(input)
  /\ UNCHANGED <<tool, input>>

InstantsNext == Convert
InstantsSpec == InstantsInit /\ [][InstantsNext]_instantsVars

-----------------------------------------------------------------------------
(* Properties *)

InstantsTypeOK ==
  /\ tool \in Tool /\ input \in Inputs[tool] /\ phase \in {"given", "shown"}
  /\ phase = "given" => shown = NoTime
  /\ phase = "shown" =>
       IF tool = "gowxt"
       THEN shown \in [start : Seq(Int), end : Seq(Int),
                       duration : {NoTime} \cup Int \X (1 - Sixty .. Sixty - 1) \X (1 - Sixty .. Sixty - 1)]
       ELSE IF tool = "goevtx" THEN shown \in [sec : Int, nsec : Int]
       ELSE shown \in Seq(Int)

(* gorb and gojle: what is printed is the instant of the FILETIME rounded down
   to the unit that is printed, the second or the millisecond: the FILETIME lies
   in the unit that starts there.  Also before 1970, and before 1601, where the
   division and its remainder round towards zero.                            *)
FiletimeIsFloored ==
  /\ phase = "shown" /\ tool = "gorb" =>
       LET sec == shown[1] + Gap
       IN  sec * Ticks <= input /\ input < (sec + 1) * Ticks
  /\ phase = "shown" /\ tool = "gojle" /\ input # 0 =>
       LET ms == shown[1] + Gap * Millis
       IN  ms * MilliTicks <= input /\ input < (ms + 1) * MilliTicks

(* The seconds gowxt can tell apart: from 1601 on, and as Unix seconds up to the
   first number it takes for a FILETIME; 0 means that there is no time.      *)
Readable(m) ==
  /\ m.form # NoNumber
  /\ m.sec \in - Gap .. FiletimeMin
  /\ IF m.form = "unix" THEN m.sec # 0 ELSE Stored(m) > FiletimeMin

(* gowxt: an instant shows the same, whichever way it is stored. *)
EitherFormIsRead ==
  phase = "shown" /\ tool = "gowxt" =>
    /\ Readable(input.start) => shown.start = <<input.start.sec>>
    /\ Readable(input.end) => shown.end = <<input.end.sec>>

(* gowxt: the duration is the time from one instant to the other, also when
   one is stored as Unix seconds and the other as a FILETIME.                *)
DurationIsElapsed ==
  phase = "shown" /\ tool = "gowxt" /\ Readable(input.start) /\ Readable(input.end) =>
    IF input.end.sec < input.start.sec THEN shown.duration = NoTime
    ELSE LET d == shown.duration IN
         /\ d[1] \in Nat /\ d[2] \in 0 .. Sixty - 1 /\ d[3] \in 0 .. Sixty - 1
         /\ input.start.sec + Sixty * (Sixty * d[1] + d[2]) + d[3] = input.end.sec

(* goevtx: the nanoseconds are in range and the instant is the float's, to half
   a nanosecond, for times before 1970 as well.                              *)
NanosInRange ==
  phase = "shown" /\ tool = "goevtx" =>
    /\ shown.nsec \in 0 .. Nanos - 1
    /\ LET err == (shown.sec * Nanos + shown.nsec) * Fine - input
       IN  2 * err <= Fine /\ - Fine <= 2 * err
=============================================================================
