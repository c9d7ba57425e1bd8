SPECIFICATION Spec
CONSTANT
  Inputs <- CliInputs
  Groups = {}
INVARIANT SomeCliPromiseKept
