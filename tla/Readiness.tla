------------------------------ MODULE Readiness ------------------------------
(***************************************************************************)
(* The readiness summary (readiness.py): which things need attention, the  *)
(* score of each area, the overall score and the three statuses, as        *)
(* functions of what the household has recorded.                           *)
(*                                                                         *)
(* The records change by the handlers of other modules, here by any edit   *)
(* of one of them; the question is how the summary follows.  There are two *)
(* targets: one with requirements, and one with an amount (converted to    *)
(* its unit), a minimum and a desired value.  So there always is an        *)
(* overall score.                                                          *)
(***************************************************************************)
EXTENDS FiniteSets, Integers

CONSTANTS
  Supplies,     \* inventory items
  Boxes,        \* containers
  Contents,     \* the items stored in each container; none is moved
  Gear,         \* assets
  Duties,       \* tasks
  Guides,       \* enabled plans
  Needs,        \* the required requirements of the one target with any
  Minimum, Desired,     \* of the target with an amount
  Never,        \* no date
  Reminder,     \* reminder_before_days of the tasks
  LastDay       \* bound: the calendar stops there

ASSUME ReadinessConstants ==
  /\ \A S \in {Supplies, Boxes, Gear, Duties, Guides, Needs} : IsFiniteSet(S)
  /\ {Minimum, Desired, Reminder, LastDay} \subseteq Nat
  /\ Contents \in [Boxes -> SUBSET Supplies]
  /\ Never \notin Nat

VARIABLES
  calendar,     \* the date
  shelf,        \* expiry and next check of each item
  boxCheck, gearCheck,  \* next_check_at of containers and assets
  duties,       \* is each task enabled, and its next_due_at
  guides,       \* is each checklist complete, and next_review_at
  ticked,       \* the requirements confirmed or matched by an item
  amount        \* what the matching items add up to

readinessVars == <<calendar, shelf, boxCheck, gearCheck, duties, guides, ticked, amount>>

Deadlines == 0..LastDay \cup {Never}
DueDates == 0..(LastDay + Reminder) \cup {Never}

\* Bound of the amount.  Nothing makes the minimum the smaller of the two.
Plenty == IF Minimum <= Desired THEN Desired ELSE Minimum

ReadinessTypeOK ==
  /\ calendar \in 0..LastDay
  /\ shelf \in [Supplies -> [expires : Deadlines, check : Deadlines]]
  /\ boxCheck \in [Boxes -> Deadlines] /\ gearCheck \in [Gear -> Deadlines]
  /\ duties \in [Duties -> [enabled : BOOLEAN, due : DueDates]]
  /\ guides \in [Guides -> [complete : BOOLEAN, review : Deadlines]]
  /\ ticked \subseteq Needs
  /\ amount \in 0..Plenty

ReadinessInit ==
  /\ calendar = 0
  /\ shelf = [i \in Supplies |-> [expires |-> Never, check |-> Never]]
  /\ boxCheck = [b \in Boxes |-> Never] /\ gearCheck = [g \in Gear |-> Never]
  /\ duties = [d \in Duties |-> [enabled |-> TRUE, due |-> Never]]
  /\ guides = [p \in Guides |-> [complete |-> FALSE, review |-> Never]]
  /\ ticked = {} /\ amount = 0

-----------------------------------------------------------------------------
Reached(deadline) == deadline # Never /\ deadline <= calendar

\* Expired from the day after, to be checked on the day itself.
SupplyNeedsAttention(i) ==
  \/ shelf[i].expires # Never /\ shelf[i].expires < calendar
  \/ Reached(shelf[i].check)

BoxNeedsAttention(b) == \/ Reached(boxCheck[b])
                        \/ \E i \in Contents[b] : SupplyNeedsAttention(i)

\* task_status.
DutyStatus(d) ==
  LET due == duties[d].due
  IN  IF ~duties[d].enabled THEN "disabled"
      ELSE IF due = Never THEN "unscheduled"
      ELSE IF due < calendar THEN "overdue"
      ELSE IF due = calendar THEN "due"
      ELSE IF Reminder > 0 /\ due - Reminder <= calendar THEN "upcoming"
      ELSE "ok"

DutyNeedsAttention_OnceDue(d) == DutyStatus(d) \in {"due", "upcoming", "unscheduled"}
DutyNeedsAttention(d) == DutyStatus(d) \in {"overdue", "due", "upcoming", "unscheduled"}

GuideNeedsAttention(p) == ~guides[p].complete \/ Reached(guides[p].review)

\* evaluate_target.
Aims == {"needs", "amount"}
TargetStatus(t) ==
  CASE t = "needs"  -> IF ticked = Needs THEN "met"
                       ELSE IF ticked # {} THEN "below_target" ELSE "below_minimum"
    [] t = "amount" -> IF amount < Minimum THEN "below_minimum"
                       ELSE IF amount < Desired THEN "below_target" ELSE "met"

-----------------------------------------------------------------------------
\* Python's round of p / q.
HalfEven(p, q) ==
  LET floor == p \div q
      rest  == 2 * (p % q)
  IN  IF rest > q \/ (rest = q /\ floor % 2 = 1) THEN floor + 1 ELSE floor

ActiveDuties == {d \in Duties : duties[d].enabled}

Areas == {"inventory", "containers", "tasks", "assets", "plans", "targets"}

\* _area: an area that tracks nothing is not configured and has no score.
NoScore == -1
AreaScore(things, needAttention) ==
  LET n == Cardinality(things)
  IN  IF n = 0 THEN NoScore ELSE HalfEven(100 * (n - Cardinality(needAttention)), n)

AreaScores ==
  [inventory  |-> AreaScore(Supplies, {i \in Supplies : SupplyNeedsAttention(i)}),
   containers |-> AreaScore(Boxes, {b \in Boxes : BoxNeedsAttention(b)}),
   tasks      |-> AreaScore(ActiveDuties, {d \in ActiveDuties : DutyNeedsAttention(d)}),
   assets     |-> AreaScore(Gear, {g \in Gear : Reached(gearCheck[g])}),
   plans      |-> AreaScore(Guides, {p \in Guides : GuideNeedsAttention(p)}),
   targets    |-> AreaScore(Aims, {t \in Aims : TargetStatus(t) # "met"})]

Configured(scores) == {area \in Areas : scores[area] # NoScore}

\* The areas that count towards the overall score.
Counted_NonZero(scores) == {area \in Configured(scores) : scores[area] # 0}
Counted(scores) == Configured(scores)
Score(scores) ==
  LET counted == Counted(scores)
      Points(area) == IF area \in counted THEN scores[area] ELSE 0
      total == Points("inventory") + Points("containers") + Points("tasks")
                 + Points("assets") + Points("plans") + Points("targets")
  IN  IF counted = {} THEN 0 ELSE HalfEven(total, Cardinality(counted))

Overall(scores, score) ==
  IF score >= 100 THEN "ok"
  ELSE IF \E area \in Configured(scores) : scores[area] = 0 THEN "critical"
  ELSE "attention"

TargetsOverall ==
  IF \E t \in Aims : TargetStatus(t) = "below_minimum" THEN "critical"
  ELSE IF \E t \in Aims : TargetStatus(t) # "met" THEN "attention"
  ELSE "ok"

TasksOverall ==
  LET Some(status) == \E d \in Duties : DutyStatus(d) = status
  IN  IF Some("overdue") THEN "critical"
      ELSE IF Some("due") \/ Some("upcoming") \/ Some("unscheduled") THEN "attention"
      ELSE "ok"

Summary ==
  LET given[scores \in [Areas -> NoScore..100]] ==
        LET score == Score(scores)
        IN  [score |-> score, overall |-> Overall(scores, score),
             targets |-> TargetsOverall, tasks |-> TasksOverall]
  IN  given[AreaScores]

-----------------------------------------------------------------------------
DayBreaks == /\ calendar < LastDay
             /\ calendar' = calendar + 1
             /\ UNCHANGED <<shelf, boxCheck, gearCheck, duties, guides, ticked, amount>>

SupplyEdited ==
  /\ \E i \in Supplies, d \in Deadlines : \/ shelf' = [shelf EXCEPT ![i].expires = d]
                                          \/ shelf' = [shelf EXCEPT ![i].check = d]
  /\ UNCHANGED <<calendar, boxCheck, gearCheck, duties, guides, ticked, amount>>

CheckEdited ==
  /\ \E d \in Deadlines :
       \/ /\ \E b \in Boxes : boxCheck' = [boxCheck EXCEPT ![b] = d]
          /\ UNCHANGED gearCheck
       \/ /\ \E g \in Gear : gearCheck' = [gearCheck EXCEPT ![g] = d]
          /\ UNCHANGED boxCheck
  /\ UNCHANGED <<calendar, shelf, duties, guides, ticked, amount>>

DutyEdited ==
  /\ \E d \in Duties : \/ \E due \in DueDates : duties' = [duties EXCEPT ![d].due = due]
                       \/ duties' = [duties EXCEPT ![d].enabled = ~@]
  /\ UNCHANGED <<calendar, shelf, boxCheck, gearCheck, guides, ticked, amount>>

GuideEdited ==
  /\ \E p \in Guides : \/ \E d \in Deadlines : guides' = [guides EXCEPT ![p].review = d]
                       \/ guides' = [guides EXCEPT ![p].complete = ~@]
  /\ UNCHANGED <<calendar, shelf, boxCheck, gearCheck, duties, ticked, amount>>

TargetEdited ==
  /\ \/ \E n \in Needs : ticked' \in {ticked \cup {n}, ticked \ {n}} /\ UNCHANGED amount
     \/ amount' \in 0..Plenty /\ UNCHANGED ticked
  /\ UNCHANGED <<calendar, shelf, boxCheck, gearCheck, duties, guides>>

\* An edit that writes what is there already changes no record.
RecordEdited ==
  /\ SupplyEdited \/ CheckEdited \/ DutyEdited \/ GuideEdited \/ TargetEdited
  /\ readinessVars' # readinessVars

ReadinessNext == DayBreaks \/ RecordEdited

ReadinessSpec == ReadinessInit /\ [][ReadinessNext]_readinessVars

-----------------------------------------------------------------------------
Rank == [critical |-> 0, attention |-> 1, ok |-> 2]

NoBetter(new, old) == /\ new.score <= old.score
                      /\ \A s \in {"overall", "targets", "tasks"} : Rank[new[s]] <= Rank[old[s]]

\* Doing nothing never helps: as the days pass neither the score rises nor does
\* a status get better.
WaitingNeverHelps ==
  [][calendar' > calendar => \E old \in {Summary}, new \in {Summary'} : NoBetter(new, old)]_readinessVars

Later(new, old) == new = Never \/ (old # Never /\ old <= new)

\* A task put off from a date, or given a date that is not past.
PutOff(new, old) ==
  /\ new.enabled = old.enabled
  /\ new = old \/ (new.due # Never /\ calendar <= new.due /\ (old.due = Never \/ old.due <= new.due))

CaredFor ==
  /\ readinessVars' # readinessVars
  /\ calendar' = calendar
  /\ \A i \in Supplies : /\ Later(shelf'[i].expires, shelf[i].expires)
                         /\ Later(shelf'[i].check, shelf[i].check)
  /\ \A b \in Boxes : Later(boxCheck'[b], boxCheck[b])
  /\ \A g \in Gear : Later(gearCheck'[g], gearCheck[g])
  /\ \A d \in Duties : PutOff(duties'[d], duties[d])
  /\ \A p \in Guides : /\ guides[p].complete => guides'[p].complete
                       /\ Later(guides'[p].review, guides[p].review)
  /\ ticked \subseteq ticked' /\ amount <= amount'

\* Care never hurts: renewing, checking, reviewing or completing something
\* lowers neither the score nor a status, through all rounding and averaging.
CareNeverHurts ==
  [][CaredFor => \E old \in {Summary}, new \in {Summary'} : NoBetter(old, new)]_readinessVars
=============================================================================
