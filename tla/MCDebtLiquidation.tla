-------------------------- MODULE MCDebtLiquidation --------------------------
(* Instances of DebtLiquidation for TLC. *)
EXTENDS DebtLiquidation
=============================================================================
