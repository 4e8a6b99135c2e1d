------------------------------ MODULE MCMonitor ------------------------------
\* The instance of HardwareMonitor that TLC checks.  A unit is one minute; the
\* limits are the code's: two minutes of silence, two of confirmation, ninety
\* seconds between evaluations (one whole minute), two minutes in the future.
EXTENDS HardwareMonitor, TLC

MCSkews == {0, 2}

Symmetry == Permutations(Evaluators)

MCBackwards == {-6, 0}
==============================================================================
