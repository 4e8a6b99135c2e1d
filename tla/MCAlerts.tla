------------------------------- MODULE MCAlerts -------------------------------
\* The instance of AlertDelivery that TLC checks.
EXTENDS AlertDelivery, TLC

Symmetry == Permutations(Workers)
==============================================================================
