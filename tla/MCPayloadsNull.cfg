SPECIFICATION Spec
INVARIANTS
  MissingIsUnprocessable
