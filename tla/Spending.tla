------------------------------ MODULE Spending ------------------------------
(***************************************************************************)
(* SpendCap beside other components: its requests and its caps are renamed *)
(* so that nothing here has the name of a constant or a definition of      *)
(* Services, and one module can extend both. Its runs check this one.      *)
(***************************************************************************)
EXTENDS Integers

CONSTANTS Spenders, MonthlyCaps, Estimates, Actuals, Thresholds, MaxMonth, MaxDeaths

VARIABLES month, spend, notified, cap, cached, pc, est, limit, key, made, todo, crossed,
          sent, cost, lost, over, misplaced, deaths

Cap == INSTANCE SpendCap WITH Requests <- Spenders, Caps <- MonthlyCaps

ASSUME SpendingAssumption == Cap!SpendAssumption

SpendSpec == Cap!Spec

(* Each property, which SpendCap states. *)
\* See SpendCap: over all months nothing is lost or made up (budget.py).
SpendConserved == Cap!SpendConserved
\* See SpendCap: no month is committed beyond the cap, but for the named credit.
CapHolds == Cap!CapHolds
\* See SpendCap: the cap is monthly and hard.
HardMonthlyCap == Cap!HardMonthlyCap
\* See SpendCap: no interleaving slips past a threshold (_check_thresholds).
CrossingNoticed == Cap!CrossingNoticed
\* See SpendCap: a threshold of a month is alerted once (_check_thresholds).
AlertedOnce == Cap!AlertedOnce
=============================================================================
