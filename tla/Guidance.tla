------------------------------- MODULE Guidance -------------------------------
(***************************************************************************)
(* What a recommendation asks of a household (guidance.py                  *)
(* calculate_recommendation): its rule, applied to the columns of the      *)
(* household profile.  Amounts are whole numbers here; 0 stands for the    *)
(* NULL of a rule without amounts.                                         *)
(***************************************************************************)
EXTENDS Naturals

CONSTANTS
  Recommended,      \* the recommendations of the guidance profile
  RuleOf            \* the rule of each

\* adults, children and preparedness_days of a household profile.
Basis == [adults : Nat, children : Nat, days : Nat]

RuleKinds == {"quantity_per_person_per_day", "quantity_per_adult_per_day",
              "quantity_per_person_total", "coverage_days", "requirements"}

\* The target rate, or the days a rule of coverage asks for (0: those of the
\* household).
Rule == [kind : RuleKinds, rate : Nat]

ASSUME GuidanceConstants == RuleOf \in [Recommended -> Rule]

Calculated(rule, b) ==
  CASE rule.kind = "quantity_per_person_per_day" -> rule.rate * (b.adults + b.children) * b.days
    [] rule.kind = "quantity_per_adult_per_day"  -> rule.rate * b.adults * b.days
    [] rule.kind = "quantity_per_person_total"   -> rule.rate * (b.adults + b.children)
    [] rule.kind = "coverage_days"               -> IF rule.rate = 0 THEN b.days ELSE rule.rate
    [] rule.kind = "requirements"                -> 0
=============================================================================
