SPECIFICATION Spec
CONSTANTS
    Assoc = 3
    HSizes = {0, 2}
    Tags = {1, 2, 3, 4}
    StoreTags = {1, 2}
INVARIANT
    ListsWhole
PROPERTY
    ImplementsLruSet
