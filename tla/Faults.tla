------------------------------- MODULE Faults -------------------------------
(***************************************************************************)
(* A bound on how much goes wrong in one behaviour: a database or Redis    *)
(* call that raises, a process that dies.  Every action that stands for    *)
(* one has Fault as a conjunct.                                            *)
(***************************************************************************)
EXTENDS Naturals

CONSTANT MaxFaults   \* the faults a behaviour may have

ASSUME MaxFaultsAssumption == MaxFaults \in Nat

VARIABLE faults

FaultsTypeOK == faults \in 0..MaxFaults
FaultsInit == faults = 0

Fault == /\ faults < MaxFaults
         /\ faults' = faults + 1
=============================================================================
