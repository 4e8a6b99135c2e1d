\* One employee, two sessions and two handlers are enough for the race.
CONSTANTS
  Employees = {e1}
  Sessions = {s1, s2}
  Requests = {r1, r2}
  Veterans = {e1}
  Nil = Nil
SPECIFICATION Spec
SYMMETRY Symmetry
PROPERTY EndedSessionAuthorizesNothing
