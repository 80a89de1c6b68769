SPECIFICATION Spec
CONSTANTS
  ValueSize = 2
  NumbersCount = 4
  MaxGuesses = 4
  Opening = 3
  SplitAbove = 3
  MaxDepth = 6
  WeightRange = 256
  Scale = 27720
INVARIANTS
  SecretStaysPossible
  NeverTwice
  GuessesAgree
  ResultsAreTrue
  EverySecretOnce
