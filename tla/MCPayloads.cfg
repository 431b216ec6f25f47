SPECIFICATION Spec
INVARIANTS
  AcceptedIsComplete
  NoNilRead
  AcceptedIfAcceptable
