------------------------------ MODULE Schedule ------------------------------
(***************************************************************************)
(* The cron schedule of internal/schedule and the goroutine of             *)
(* cmd/marstek-controller that restarts the device by it.                  *)
(*                                                                         *)
(* Parse turns the five fields into sets, Next searches the first minute   *)
(* that matches, runRestartScheduler waits for it and publishes.  One      *)
(* iteration of the search is one action.  Instants are whole UTC minutes; *)
(* the search takes far less than one.                                     *)
(*                                                                         *)
(* Hours, days, months and weeks have the lengths the constants give them, *)
(* so that a leap year, a short month and a weekday that drifts through    *)
(* the months fit into a small instance.                                   *)
(*                                                                         *)
(* External: time.Date and time.Time's calendar in a zone with one change  *)
(* of its UTC offset.                                                      *)
(***************************************************************************)
EXTENDS Integers, Sequences, FiniteSetsExt

CONSTANTS
    HourMinutes, DayHours, WeekDays, MonthsPerYear,
    MonthDays,        \* lengths of the months of one leap cycle
    Specs,            \* the cron specs DEVICE_RESTART_SCHEDULE may hold
    Zones,            \* the zones DEVICE_RESTART_TIMEZONE may name
    MaxIterations,    \* the cap of Next
    MaxNow,           \* bound: the clock
    MaxLate           \* bound: minutes the timer may fire late

(* A part of a field: "*", "N" or "N-M", with a step or NoStep. *)
NoStep == -1
Part == [kind : {"star", "value", "range"}, from : Int, to : Int, step : Int]

(* A spec is five fields, each the set of its comma-separated parts. *)
Spec5 == [minute : SUBSET Part, hour : SUBSET Part, dom : SUBSET Part,
          month : SUBSET Part, dow : SUBSET Part]

(* The offset of a zone changes from `before` to `after` at instant `at`. *)
Zone == [at : Int, before : Int, after : Int]

ASSUME ScheduleAssumption ==
    /\ HourMinutes \in Nat \ {0} /\ DayHours \in Nat \ {0} /\ WeekDays \in Nat \ {0}
    /\ MonthsPerYear \in Nat \ {0}
    /\ MonthDays \in Seq(Nat \ {0}) /\ Len(MonthDays) > 0
    /\ Len(MonthDays) % MonthsPerYear = 0
    /\ Specs \subseteq Spec5 /\ Zones \subseteq Zone
    /\ \A s \in Specs : \A f \in DOMAIN s : \A p \in s[f] : p.kind = "value" => p.from = p.to
    /\ MaxIterations \in Nat \ {0} /\ MaxNow \in Nat /\ MaxLate \in Nat

VARIABLES
    spec, zone,     \* configuration
    sched,          \* the parsed Schedule
    now,            \* the wall clock
    state,          \* runRestartScheduler: "search", "wait", "stopped", "cancelled"
    after, t, i,    \* Next's argument, candidate and iteration
    fired           \* the instant the timer last fired for

schedVars == <<spec, zone, sched>>
vars == <<schedVars, now, state, after, t, i, fired>>

-----------------------------------------------------------------------------
(* Calendar. *)

DayMinutes == DayHours * HourMinutes

(* Months are numbered through all years from 0. *)
DaysBefore[m \in 0..Len(MonthDays)] ==
    IF m = 0 THEN 0 ELSE DaysBefore[m - 1] + MonthDays[m]

CycleDays == DaysBefore[Len(MonthDays)]

MonthStart(m) ==
    (m \div Len(MonthDays)) * CycleDays + DaysBefore[m % Len(MonthDays)]

DayOf(local)    == local \div DayMinutes
HourOf(local)   == (local \div HourMinutes) % DayHours
MinuteOf(local) == local % HourMinutes
WeekdayOf(local) == DayOf(local) % WeekDays

MonthOf(local) ==
    LET cycle == DayOf(local) \div CycleDays
        day   == DayOf(local) % CycleDays
    IN  cycle * Len(MonthDays)
        + CHOOSE m \in 0..(Len(MonthDays) - 1) :
             DaysBefore[m] <= day /\ day < DaysBefore[m + 1]

MonthOfYear(m) == (m % MonthsPerYear) + 1

DayOfMonth(local) == DayOf(local) - MonthStart(MonthOf(local)) + 1

-----------------------------------------------------------------------------
(* Zones. *)

Offset(z, instant) == IF instant < z.at THEN z.before ELSE z.after

Local(z, instant) == instant + Offset(z, instant)

(* time.Date looks the offset up as if the wall-clock time were UTC and    *)
(* once more if that falls on the other side of the change.  A wall-clock  *)
(* time that does not exist becomes one before or after the gap: which,    *)
(* depends on the zone.                                                    *)
Date(z, local) ==
    LET guess == local - Offset(z, local)
    IN  local - Offset(z, guess)

-----------------------------------------------------------------------------
(* Parse. *)

Every == {[kind |-> "star", from |-> 0, to |-> 0, step |-> NoStep]}

(* The values of a part; {} is an error. *)
parsePart64(p, lo, hi) ==
    LET start == IF p.kind = "star" THEN lo ELSE p.from
        end   == IF p.kind = "star" THEN hi ELSE p.to
        step  == IF p.step = NoStep THEN 1 ELSE p.step
    IN  IF step <= 0 \/ start < lo \/ end > hi \/ start > end THEN {}
        ELSE {v \in start..end : (v - start) % step = 0}

(* {} is an error in any part. *)
parseField64(parts, lo, hi) ==
    IF \E p \in parts : parsePart64(p, lo, hi) = {} THEN {}
    ELSE UNION {parsePart64(p, lo, hi) : p \in parts}

(* "7" is Sunday; a range that ends in 7 ends in 6. *)
normaliseDOW(p) ==
    IF p.kind = "value" /\ p.from = WeekDays THEN [p EXCEPT !.from = 0, !.to = 0]
    ELSE IF p.kind = "range" /\ p.to = WeekDays THEN [p EXCEPT !.to = WeekDays - 1]
    ELSE p

LongestMonth == Max({MonthDays[m] : m \in DOMAIN MonthDays})

Parse(s) ==
    [minute |-> parseField64(s.minute, 0, HourMinutes - 1),
     hour   |-> parseField64(s.hour, 0, DayHours - 1),
     dom    |-> parseField64(s.dom, 1, LongestMonth),
     month  |-> parseField64(s.month, 1, MonthsPerYear),
     dow    |-> parseField64({normaliseDOW(p) : p \in s.dow}, 0, WeekDays - 1),
     wildcardDOM |-> s.dom = Every, wildcardDOW |-> s.dow = Every]

(* config.validate() refuses a spec that does not parse. *)
Valid(s) ==
    \A f \in {"minute", "hour", "dom", "month", "dow"} : Parse(s)[f] # {}

-----------------------------------------------------------------------------
(* Next: the search. *)

Init ==
    /\ spec \in {s \in Specs : Valid(s)} /\ sched = Parse(spec)
    /\ zone \in Zones
    /\ now \in 0..MaxNow
    /\ state = "search" /\ after = now /\ t = now + 1 /\ i = 0
    /\ fired = -1

(* Mutant: the search starts with the current minute. *)
Search_FromNow(from) == state' = "search" /\ after' = from /\ t' = from /\ i' = 0

(* Next(from), from the next whole minute on. *)
Search(from) == state' = "search" /\ after' = from /\ t' = from + 1 /\ i' = 0

Here == Local(zone, t)

MonthOK == MonthOfYear(MonthOf(Here)) \in sched.month

(* With both day fields restricted, either suffices. *)
DayOK ==
    LET domOK == sched.wildcardDOM \/ DayOfMonth(Here) \in sched.dom
        dowOK == sched.wildcardDOW \/ WeekdayOf(Here) \in sched.dow
    IN  IF sched.wildcardDOM \/ sched.wildcardDOW THEN domOK /\ dowOK
                                                  ELSE domOK \/ dowOK

HourOK == HourOf(Here) \in sched.hour

MinuteOK == MinuteOf(Here) \in sched.minute

(* Mutant: the year is not carried. *)
ValidMonths_SameYear ==
    LET m == MonthOf(Here)
    IN  {n \in (m + 1)..(m + MonthsPerYear - MonthOfYear(m)) : MonthOfYear(n) \in sched.month}

(* The months nextValidMonth tries and would take. *)
ValidMonths ==
    LET m == MonthOf(Here)
    IN  {n \in (m + 1)..(m + MonthsPerYear + 1) : MonthOfYear(n) \in sched.month}

nextValidMonth == Date(zone, MonthStart(Min(ValidMonths)) * DayMinutes)

(* Mutant: a day later instead of the next midnight. *)
nextDay_SameHour == t + DayMinutes

nextDay == Date(zone, (DayOf(Here) + 1) * DayMinutes)

nextHour == Date(zone, (Here \div HourMinutes + 1) * HourMinutes)

(* Mutant: no cap. *)
Iterating_Uncapped == state = "search" /\ i' = i + 1

Iterating == state = "search" /\ i < MaxIterations /\ i' = i + 1

searchVars == <<schedVars, now, after, fired>>

SkipMonth ==
    /\ Iterating /\ ~MonthOK /\ ValidMonths # {}
    /\ t' = nextValidMonth
    /\ UNCHANGED <<searchVars, state>>

SkipDay ==
    /\ Iterating /\ MonthOK /\ ~DayOK
    /\ t' = nextDay
    /\ UNCHANGED <<searchVars, state>>

SkipHour ==
    /\ Iterating /\ MonthOK /\ DayOK /\ ~HourOK
    /\ t' = nextHour
    /\ UNCHANGED <<searchVars, state>>

SkipMinute ==
    /\ Iterating /\ MonthOK /\ DayOK /\ HourOK /\ ~MinuteOK
    /\ t' = t + 1
    /\ UNCHANGED <<searchVars, state>>

(* The scheduler computes its delay and starts the timer. *)
Found ==
    /\ Iterating /\ MonthOK /\ DayOK /\ HourOK /\ MinuteOK
    /\ state' = "wait"
    /\ UNCHANGED <<searchVars, t>>

(* Next returns the zero time and the scheduler returns. *)
NotFound ==
    /\ state = "search"
    /\ i = MaxIterations \/ (~MonthOK /\ ValidMonths = {})
    /\ state' = "stopped"
    /\ UNCHANGED <<searchVars, t, i>>

-----------------------------------------------------------------------------
(* runRestartScheduler. *)

(* Time passes; the goroutine may run late. *)
Tick ==
    /\ state = "wait" /\ now < Min({MaxNow, t + MaxLate})
    /\ now' = now + 1
    /\ UNCHANGED <<schedVars, state, after, t, i, fired>>

(* The timer fires; the restart is published or, if the client is not      *)
(* connected, skipped; either way the loop goes on from the present time.  *)
Fire ==
    /\ state = "wait" /\ now >= t
    /\ fired' = t
    /\ Search(now)
    /\ UNCHANGED <<schedVars, now>>

(* ctx.Done(). *)
Cancel ==
    /\ state = "wait"
    /\ state' = "cancelled"
    /\ UNCHANGED <<schedVars, now, after, t, i, fired>>

Next ==
    \/ SkipMonth \/ SkipDay \/ SkipHour \/ SkipMinute \/ Found \/ NotFound
    \/ Tick \/ Fire \/ Cancel

Spec == Init /\ [][Next]_vars

-----------------------------------------------------------------------------
(* What a spec means, from the package comment: read off the text, minute  *)
(* by minute.                                                              *)

Means(parts, v, lo) ==
    \E p \in parts :
        LET start == IF p.kind = "star" THEN lo ELSE p.from
        IN  /\ p.kind = "star" \/ v \in p.from..p.to
            /\ p.step # NoStep => (v - start) % p.step = 0

Fires(instant) ==
    LET local == Local(zone, instant)
        dom == Means(spec.dom, DayOfMonth(local), 1)
        dow == \/ Means(spec.dow, WeekdayOf(local), 0)
               \/ WeekdayOf(local) = 0 /\ Means(spec.dow, WeekDays, 0) /\ spec.dow # Every
    IN  /\ Means(spec.minute, MinuteOf(local), 0)
        /\ Means(spec.hour, HourOf(local), 0)
        /\ Means(spec.month, MonthOfYear(MonthOf(local)), 1)
        /\ IF spec.dom = Every \/ spec.dow = Every THEN dom /\ dow ELSE dom \/ dow

-----------------------------------------------------------------------------
(* Properties. *)

(* Type invariant; the search stays within its cap. *)
TypeOK ==
    /\ spec \in Specs /\ zone \in Zones /\ sched = Parse(spec)
    /\ now \in 0..MaxNow /\ after \in 0..MaxNow
    /\ state \in {"search", "wait", "stopped", "cancelled"}
    /\ t \in Int /\ i \in 0..MaxIterations
    /\ fired \in Int

(* A wall-clock time shown twice around a change of offset may be passed   *)
(* by in its first appearance.                                             *)
Ahead(instant) ==
    \E again \in t..(instant + Max({zone.before - zone.after, 0})) :
        Local(zone, again) = Local(zone, instant)

(* However far the search jumps, over hours, days, month ends and leap     *)
(* days, it passes no minute at which the spec fires.                      *)
NothingSkipped ==
    \A instant \in (after + 1)..(t - 1) : Fires(instant) => Ahead(instant)

(* The wait is for a minute at which the spec fires, strictly later than   *)
(* the last: no restart in a wrong minute, none early, none twice.         *)
RestartsOnSchedule ==
    [][ state = "wait" /\ state' = "search" => Fires(t) /\ now >= t /\ t > fired ]_vars

(* schedule.go:106: the search gives up only on a spec that never fires.   *)
(* Weekdays and leap cycle together repeat within this many days.          *)
StopsOnlyIfNever ==
    state = "stopped" =>
        \A instant \in (after + 1)..(after + CycleDays * WeekDays * DayMinutes) :
            ~Fires(instant)

=============================================================================
