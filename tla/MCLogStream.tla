----------------------------- MODULE MCLogStream ------------------------------
EXTENDS LogStreamInv, TLC

Symmetry == Permutations(Worker)

(* A run that combines the faults looks at two of them in a behaviour.     *)
TwoFaults == crashes + revokes + slog_fails <= 2
===============================================================================
