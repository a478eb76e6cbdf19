------------------------------- MODULE RiskLayer -------------------------------
(***************************************************************************)
(* The empirical risk layer: buyorwait_engine/risk, and the V3 batch        *)
(* program src/code/main_v3.py with v3/risk_engine that it was taken from.  *)
(*                                                                          *)
(* A second, stressed state lets the recurring debits of the variable       *)
(* categories cost more (the 90th percentile, P90).  The tier compares the  *)
(* safe amounts of both states; a policy may then replace the decision by   *)
(* that of the stressed state.  Stress factors are in thousandths, so all   *)
(* amounts of both states are, too.                                         *)
(***************************************************************************)
EXTENDS BatchPlanning

CONSTANTS
  Whole,     \* the factor 1.000
  Factor,    \* DEFAULT_P90_STRESS_FACTORS, or those of a RiskCalibrationConfig
  Recurring  \* streams that are projected (recurring_debits), not scheduled

ASSUME RiskAssumption ==
  Whole \in Nat \ {0} /\ Factor \in [Categories -> Nat] /\ Recurring \subseteq Streams

Policies == {"shadow_audit_only", "risk_adaptive", "conservative_solvency"}

\* A factor that is not above one leaves the item as it is.
StressFactor(x, s) ==
  LET f == Factor[x.streams[s].category] IN IF f > Whole THEN f ELSE Whole

\* The state in thousandths, with the streams in hit at their stressed amounts;
\* what an item may be reduced to is not stressed.
StateWith(x, hit) ==
  [x EXCEPT
     !.starting = @ * Whole, !.minimum = @ * Whole, !.amount = @ * Whole,
     !.flow = [d \in Day |-> @[d] * Whole],
     !.streams = [s \in Streams |->
       [x.streams[s] EXCEPT
          !.amount = @ * (IF s \in hit THEN StressFactor(x, s) ELSE Whole),
          !.floor = @ * Whole]],
     !.options = {[o EXCEPT !.amount = @ * Whole, !.total = @ * Whole] : o \in @}]

BaseState(x) == StateWith(x, {})

\* Mutant: the scheduled debits are stressed, not the recurring ones.
StressedState_Scheduled(x) == StateWith(x, Streams \ Recurring)

\* build_stressed_state
StressedState(x) == StateWith(x, Recurring)

\* The tier, from the safe amounts
Tier(p50, p90, amount) ==
  IF p90 >= amount THEN "LOW_RISK" ELSE IF p50 >= amount THEN "MODERATE_RISK" ELSE "HIGH_RISK"

\* classify_risk and RiskProfile.to_result
ClassifyRisk(x) ==
  LET base == BaseState(x)
      stressed == StressedState(x)
      p50 == SafeToPay(base, {})
      p90 == SafeToPay(stressed, {})
      headroom == MinimumClosing(stressed, {}, Nothing) - base.minimum
  IN  [p50 |-> p50, p90 |-> p90, tier |-> Tier(p50, p90, base.amount),
       breach |-> headroom < 0 \/ headroom < base.amount]

\* Mutant: only the strict policy takes the stressed decision.
TakesStressed_Strict(policy, v2, v3) == policy = "conservative_solvency"

\* Does the policy take the stressed decision of a purchase at moderate risk?
TakesStressed(policy, v2, v3) ==
  \/ policy = "conservative_solvency"
  \/ /\ policy = "risk_adaptive"
     /\ v3.method = "installments" \/ v2.method \in {"full_payment", "partial_payment"}

\* apply_risk_policy
ApplyRiskPolicy(policy, v2, v3, tier) ==
  IF tier = "MODERATE_RISK" /\ TakesStressed(policy, v2, v3) THEN v3 ELSE v2

\* The rules of V2, in thousandths.
Rules == [V2 EXCEPT !.tolerance = @ * Whole]

Aborted == [method |-> "aborted"]

\* The decision for the stressed state, made like the other from its combinations,
\* amounts and dates.
StressedDecisions(x) == Answers(Rules, StressedState(x))

\* run_shadow_from_state: the two decisions of a request; whether they differ is
\* only counted.  The stressed one is made without process_request, which would
\* catch its error.
ShadowResults(x) ==
  {[v2 |-> v2, v3 |-> v3, tier |-> ClassifyRisk(x).tier] :
     v2 \in Answers(Rules, BaseState(x)), v3 \in StressedDecisions(x)}

UnderPolicies(shadows) ==
  [policy \in Policies |->
     {ApplyRiskPolicy(policy, s.v2, s.v3, s.tier) : s \in shadows}]

\* run_v3, under each policy: an error in one request ends the run before anything
\* is written.
V3Answers(x) ==
  IF Raises(x) THEN [policy \in Policies |-> {Aborted}]
  ELSE UnderPolicies(ShadowResults(x))

-----------------------------------------------------------------------------
(* Properties *)

\* The tier tells the truth about the decision it is reported with: stress never
\* raises the safe amount (DOMAIN_MODEL.md:268); at LOW_RISK the amount can be paid
\* today whichever of the recurring expenses turn out at their P90; above it the
\* breach is reported; BUY is never HIGH_RISK and means now, in full; and what is not
\* HIGH_RISK is never put off or tied to spending changes if it may be paid in full.
RiskTierHolds ==
  Evaluated =>
    LET risk == ClassifyRisk(in)
    IN  /\ risk.p90 <= risk.p50
        /\ risk.breach <=> risk.tier # "LOW_RISK"
        /\ risk.tier = "LOW_RISK" =>
             \A hit \in SUBSET Recurring :
               LET x == StateWith(in, hit)
               IN  MinimumClosing(x, {}, Pay(0, x.amount)) >= x.minimum
        /\ decision.verdict = "BUY" => risk.tier # "HIGH_RISK"
        /\ BuyMeansNow
        /\ risk.tier # "HIGH_RISK" /\ "full_payment" \in in.methods =>
             decision.planned = {} /\ decision.method \notin {"wait", "not_recommended"}

\* The policies keep their promise: one that is not the shadow policy pays at once,
\* in full and without conditions, only at LOW_RISK; and the plan it puts in the
\* place of V2's keeps the minimum balance, within the tolerance, up to its last
\* payment even if all recurring expenses turn out at their P90.
PoliciesWithstandStress ==
  Evaluated =>
    LET answers == V3Answers(in)
    IN  \A policy \in Policies \ {"shadow_audit_only"} : \A a \in answers[policy] :
          /\ a.affordability = "affordable_now" => ClassifyRisk(in).tier = "LOW_RISK"
          /\ a \notin answers["shadow_audit_only"] /\ a.method # "not_recommended" =>
               PlanIsSafe(Rules, StressedState(in), a.planned, a.payments)
=============================================================================
