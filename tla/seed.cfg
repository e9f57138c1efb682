SPECIFICATION Spec
CONSTANTS
    generation = generation
    Totals <- MCTotals
    Scale = 4
    Dip = 1
    MaxCount = 8
    MaxDue = 2
PROPERTY
    LateSeedUndoesNothing
