CONSTANTS
  MaxTime = 6
  Intervals = {0, 1, 3}
  Expressions <- MCExpressions
  MaxAhead = 2
  MaxSetBacks = 2
SPECIFICATION Spec
INVARIANTS OncePerSlot NextSlotNotMissed Spaced PausesUnlessExhausted
