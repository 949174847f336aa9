----------------------------- MODULE MCSchedule -----------------------------
(***************************************************************************)
(* Instances of Schedule for TLC: hours of 2 minutes, days of 4 hours,     *)
(* weeks of 3 days, years of 2 months; the second month has 2 days, 3 in a *)
(* leap year, the first has 4.                                             *)
(***************************************************************************)
EXTENDS Schedule

Months == <<4, 2, 4, 3>>

One(n)       == {[kind |-> "value", from |-> n, to |-> n, step |-> NoStep]}
Span(n, m)   == {[kind |-> "range", from |-> n, to |-> m, step |-> NoStep]}
By(s)        == {[kind |-> "star", from |-> 0, to |-> 0, step |-> s]}
SpanBy(n, m, s) == {[kind |-> "range", from |-> n, to |-> m, step |-> s]}

Cron(minute, hour, dom, month, dow) ==
    [minute |-> minute, hour |-> hour, dom |-> dom, month |-> month, dow |-> dow]

(* Every minute, daily, steps and lists, a weekday, both day fields, the   *)
(* leap day, month ends, a day that never comes, and three that Parse      *)
(* refuses.                                                                *)
CronSpecs ==
    { Cron(Every, Every, Every, Every, Every),
      Cron(One(0), One(3), Every, Every, Every),
      Cron(One(1), SpanBy(0, 3, 2), Every, Every, Every),
      Cron(One(1), One(2), Every, Every, One(3)),
      Cron(Every, One(2), One(1) \cup One(4), Every, One(1)),
      Cron(One(0), Every, By(2), One(2), Every),
      Cron(One(1), One(0), Every, One(1), Span(1, 2)),
      Cron(One(0), One(0), One(3), One(2), Every),
      Cron(One(0), One(1), One(4), One(2), Every),
      Cron(One(0), One(1), Span(2, 1), Every, Every),
      Cron(One(2), Every, Every, Every, Every),
      Cron(By(0), Every, Every, Every, Every) }

Utc == [at |-> 0, before |-> 0, after |-> 0]

(* East of UTC the hour 2 of day 5 is left out, or shown twice; one zone   *)
(* changes at midnight.                                                    *)
SpringEast == [at |-> 42, before |-> 2, after |-> 4]
AutumnEast == [at |-> 42, before |-> 4, after |-> 2]
MidnightEast == [at |-> 38, before |-> 2, after |-> 4]

ZonesChecked == {Utc, SpringEast, AutumnEast, MidnightEast}

(* West of UTC the hour 2 of day 5 is left out. *)
ZonesWest == { [at |-> 48, before |-> -4, after |-> -2] }

DailySpec == { Cron(One(0), One(3), Every, Every, Every) }
=============================================================================
