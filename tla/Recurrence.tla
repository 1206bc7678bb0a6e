------------------------------ MODULE Recurrence ------------------------------
(***************************************************************************)
(* Calendar arithmetic: the next due date of a recurring task              *)
(* (services.py calculate_next_due) and the next review of a plan          *)
(* (api/plans.py mark_plan_reviewed).  A date that a month does not have   *)
(* becomes its last day, and the loop that leaves out missed dates goes on *)
(* from there: a task of the 31st that passed February stays on the 29th.  *)
(***************************************************************************)
EXTENDS FiniteSetsExt, Integers

CONSTANTS
  SomeDates,      \* the dates clients send
  Intervals,      \* the intervals clients send
  NoDue,          \* next_due_at or next_review_at is NULL
  Horizon         \* bound: a due date that is later is left alone

Leap(y) == y % 4 = 0 /\ (y % 100 # 0 \/ y % 400 = 0)

\* monthrange(y, m)[1]
MonthLength(y, m) == CASE m = 2 -> IF Leap(y) THEN 29 ELSE 28
                       [] m \in {4, 6, 9, 11} -> 30
                       [] OTHER -> 31

\* Dates, from date.min on.
Calendar == {d \in [year : Nat \ {0}, month : 1..12, day : 1..31] :
               d.day <= MonthLength(d.year, d.month)}

\* date.toordinal
Ordinal(d) ==
  LET y == d.year - 1
  IN  365 * y + y \div 4 - y \div 100 + y \div 400
        + (367 * d.month - 362) \div 12 + d.day
        - (IF d.month <= 2 THEN 0 ELSE IF Leap(d.year) THEN 1 ELSE 2)

ASSUME RecurrenceConstants ==
  /\ SomeDates \subseteq Calendar /\ Horizon \in Calendar /\ NoDue \notin Calendar
  /\ Intervals \subseteq Nat \ {0} /\ Intervals # {}

VARIABLES recurring, reviewed

recurrenceVars == <<recurring, reviewed>>

\* The columns of a task that calculate_next_due reads.
RecurringWith(dates) == [type : {"days", "weeks", "months", "years"}, interval : Intervals,
                         mode : {"completion", "scheduled"}, due : dates]

\* review_interval_months (0 for none) and next_review_at.
Reviewed == [interval : Intervals \cup {0}, next : Calendar \cup {NoDue}]

RecurrenceTypeOK == /\ recurring \in RecurringWith(Calendar \cup {NoDue})
                    /\ reviewed \in Reviewed

\* One recurrence: TaskService.update leads to every other.
RecurrenceInit ==
  /\ recurring = CHOOSE t \in RecurringWith({NoDue}) : TRUE
  /\ reviewed = [interval |-> 0, next |-> NoDue]

-----------------------------------------------------------------------------
AddMonths(d, months) ==
  LET index == d.month - 1 + months
      year == d.year + index \div 12
      month == (index % 12) + 1
  IN  [year |-> year, month |-> month, day |-> Min({d.day, MonthLength(year, month)})]

AddYears(d, years) ==
  LET year == d.year + years
  IN  [year |-> year, month |-> d.month, day |-> Min({d.day, MonthLength(year, d.month)})]

\* So many ordinals on; no year has fewer than 365 of them.
AddDays(d, days) ==
  CHOOSE e \in [year : d.year..(d.year + 1 + days \div 365), month : 1..12, day : 1..31] :
    e \in Calendar /\ Ordinal(e) = Ordinal(d) + days

Advance(type, interval, d) ==
  CASE type = "days" -> AddDays(d, interval)
    [] type = "weeks" -> AddDays(d, 7 * interval)
    [] type = "months" -> AddMonths(d, interval)
    [] type = "years" -> AddYears(d, interval)

\* The loop leaves out the dates up to the completion.
Missed_StrictlyBefore(d, on) == Ordinal(d) < Ordinal(on)
Missed(d, on) == Ordinal(d) <= Ordinal(on)

NextDue(task, on) ==
  LET advance(d) == Advance(task.type, task.interval, d)
      later[d \in Calendar] == IF Missed(d, on) THEN later[advance(d)] ELSE d
  IN  IF task.mode = "completion" THEN advance(on)
      ELSE later[advance(IF task.due = NoDue THEN on ELSE task.due)]

\* TaskService.complete; completed_on may be any date, before or after the due one.
Complete(on) == /\ recurring.due # NoDue => Ordinal(recurring.due) <= Ordinal(Horizon)
                /\ recurring' = [recurring EXCEPT !.due = NextDue(recurring, on)]
                /\ UNCHANGED reviewed

\* TaskService.update: any of the fields.
Reschedule == /\ \/ \E d \in SomeDates \cup {NoDue} : recurring' = [recurring EXCEPT !.due = d]
                 \/ \E t \in {"days", "weeks", "months", "years"} :
                      recurring' = [recurring EXCEPT !.type = t]
                 \/ \E i \in Intervals : recurring' = [recurring EXCEPT !.interval = i]
                 \/ \E m \in {"completion", "scheduled"} :
                      recurring' = [recurring EXCEPT !.mode = m]
              /\ UNCHANGED reviewed

\* mark_plan_reviewed: without an interval there is no next review.
Review(on) == /\ reviewed' = [reviewed EXCEPT
                   !.next = IF reviewed.interval = 0 THEN NoDue
                            ELSE AddMonths(on, reviewed.interval)]
              /\ UNCHANGED recurring

SetReviewInterval == /\ \E i \in Intervals \cup {0} : reviewed' = [reviewed EXCEPT !.interval = i]
                     /\ UNCHANGED recurring

\* A task and a plan know nothing of each other: each is changed from where the
\* other has not been touched.
RecurrenceNext ==
  \/ reviewed.interval = 0 /\ reviewed.next = NoDue
       /\ (Reschedule \/ \E d \in SomeDates : Complete(d))
  \/ recurring.due = NoDue /\ (SetReviewInterval \/ \E d \in SomeDates : Review(d))

-----------------------------------------------------------------------------
\* The k-th date of the schedule that starts at base: so many days later, or in
\* the k-th of its months, on the day that all of them up to there have.
Scheduled(task, base, k) ==
  LET months == task.interval * IF task.type = "years" THEN 12 ELSE 1
      month(j) == 12 * base.year + base.month - 1 + j * months
      length(j) == MonthLength(month(j) \div 12, (month(j) % 12) + 1)
  IN  IF task.type \in {"days", "weeks"}
        THEN AddDays(base, k * task.interval * IF task.type = "weeks" THEN 7 ELSE 1)
        ELSE [year |-> month(k) \div 12, month |-> (month(k) % 12) + 1,
              day |-> Min({base.day} \cup {length(j) : j \in 1..k})]

\* services.py calculate_next_due: a completion moves a scheduled task to the first
\* date of its schedule after the completion, however many it has missed and
\* however early it is done, and any other task one interval on from the
\* completion; a review is followed by one as many months later.
DueIsFirstOnGrid ==
  [][/\ recurring'.due # recurring.due =>
          \A on \in SomeDates : Complete(on) =>
            LET base == IF recurring.mode = "completion" \/ recurring.due = NoDue
                          THEN on ELSE recurring.due
                due == recurring'.due
            IN  \E k \in 1..(Max({0, Ordinal(on) - Ordinal(base)}) + 1) :
                  /\ due = Scheduled(recurring, base, k)
                  /\ Ordinal(due) > Ordinal(on) \/ recurring.mode = "completion"
                  /\ k = 1 \/ Ordinal(Scheduled(recurring, base, k - 1)) <= Ordinal(on)
     /\ reviewed'.next # reviewed.next =>
          reviewed'.next = NoDue \/ \E on \in SomeDates :
            reviewed'.next = Scheduled([type |-> "months", interval |-> reviewed.interval], on, 1)
    ]_recurrenceVars
=============================================================================
