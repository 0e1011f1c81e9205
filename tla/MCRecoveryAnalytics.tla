------------------------ MODULE MCRecoveryAnalytics ------------------------
(* A small instance of RecoveryAnalytics for TLC. *)
EXTENDS RecoveryAnalytics, TLC

(* Floats of which there are few: multiples of 4, and of a hundredth. *)
Rounded(x) == 4 * ((x + 2) \div 4)

RoundedMinus(x, y) == Rounded(x - y)

Hundredths(x, y) == (100 * x) \div y

Symmetry == Permutations(Cases) \cup Permutations(Currencies)
=============================================================================
