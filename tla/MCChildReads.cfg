\* Every list of up to four keys over four keys, beside every set of children.
CONSTANTS
  Keys = {a, b, c, d}
  MaxLen = 4
SPECIFICATION ReadsSpec
PROPERTIES LosesNothing EventuallyRepaired
