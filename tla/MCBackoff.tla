----------------------------- MODULE MCBackoff -----------------------------
\* Instances of Backoff for TLC: factors of three bits, durations of four, so
\* that the power, the product and the attempt counter all overflow.
EXTENDS Backoff
AllPolicies == [base : 0..5, max : {0, 1, 5, 14, 15}, multiplier : 0..3]
=============================================================================
