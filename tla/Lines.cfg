SPECIFICATION Spec
CONSTANT Inputs <- SmallInputs
INVARIANTS
  TokensAsWritten
  WholeCommands
  EveryCommand
