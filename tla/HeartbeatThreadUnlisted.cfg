SPECIFICATION Spec
CONSTANTS
  MaxGeneration = 3
  Networks <- MCLossy
INVARIANT HidingKnowsToDelist
