SPECIFICATION Spec
CONSTANT
  Inputs <- MCInputs
  Groups <- AllGroups
INVARIANTS
  TypeOK
  Precedence
  AcceptsOnlyChecked
  InputFiles
