SPECIFICATION AdmissionSpec
CONSTANTS
  n1 = n1
  n2 = n2
  s1 = s1
  Unset = Unset
  Names = {n1, n2}
  Secrets = {s1}
INVARIANTS DeletesWhatItDeclared DeclaresValidSpecs FinalizerCanGo
CHECK_DEADLOCK FALSE
