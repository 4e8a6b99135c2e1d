\* Two employees, two sessions and two overlapping handlers.
CONSTANTS
  Employees = {e1, e2}
  Sessions = {s1, s2}
  Requests = {r1, r2}
  Veterans = {e1}
  Nil = Nil
SPECIFICATION Spec
SYMMETRY Symmetry
INVARIANT TypeOK
INVARIANT DeletedWasAnUnusedDraft
INVARIANT RestockIsAttributed
INVARIANT RegisteredFaceIsOnThePi
PROPERTY OffboardingIsFinal
