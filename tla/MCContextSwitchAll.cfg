SPECIFICATION MCSpec
CONSTANTS
  Processes = {p, q}
  Word = {zero, one}
  Zero = zero
  MaxInstructions = 3
PROPERTY KeepsEveryRegister
