\* One payment and two handlers are enough for a late report.
CONSTANTS
  Slots = {s1}
  Transactions = {t1}
  Requests = {r1, r2}
  Nil = Nil
SPECIFICATION Spec
PROPERTY TerminalResultIsIdempotent
