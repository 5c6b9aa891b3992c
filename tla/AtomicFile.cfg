SPECIFICATION Spec
CONSTANTS
  Writer = {w1, w2}
  Data = {d1, d2}
  Absent = Absent
  Torn = Torn
INVARIANTS
  NeverTorn
PROPERTY
  ImplementsRegister
