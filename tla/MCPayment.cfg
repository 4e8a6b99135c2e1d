\* Two payments, two slots and three overlapping handlers.
CONSTANTS
  Slots = {s1, s2}
  Transactions = {t1, t2}
  Requests = {r1, r2, r3}
  Nil = Nil
SPECIFICATION Spec
SYMMETRY Symmetry
INVARIANT TypeOK
INVARIANT EveryItemIsSoldOnce
INVARIANT OutcomeIsTheProviders
INVARIANT NotifiedAtMostOnce
PROPERTY OutcomeIsFinal
PROPERTY KeepsPromise
