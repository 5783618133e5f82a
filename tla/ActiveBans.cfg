\* Two requests over one member and one address.
SPECIFICATION Spec
CONSTANTS
  None = None
  Members = {m1}
  Addresses = {a1}
  Requests = {q1, q2}
  MaxRows = 3
SYMMETRY BanSymmetry
INVARIANTS OneActiveRow AnswersHold
PROPERTIES ImplementsRegister
