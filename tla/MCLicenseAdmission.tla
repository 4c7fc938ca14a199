-------------------------- MODULE MCLicenseAdmission --------------------------
(* LicenseAdmission for TLC: a task that may use the reserve takes all seats, *)
(* any other one seat, so that no two tasks fit at once.                      *)
EXTENDS LicenseAdmission, TLC

MCCost == [t \in Tasks |-> IF t \in Exempt THEN Total ELSE Total - Reserve]

Symmetry == Permutations(Tasks \ Exempt)
===============================================================================
