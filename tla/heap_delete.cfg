\* Six entries pushed, popped and deleted anywhere: enough for HeapDelete to lose the order.
CONSTANTS
    Entries = {e1, e2, e3, e4, e5, e6}
    Values = {1, 2, 3}
    Max = 6
    None = None
SPECIFICATION Spec
SYMMETRY EntrySymmetry
INVARIANTS IndexExact TopUntilLost
