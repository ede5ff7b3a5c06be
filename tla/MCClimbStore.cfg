\* Two forms, a page view and two changes on one row, which is reset once.
CONSTANTS
    Form = {f1, f2}
    Page = {p}
    Change = {c1, c2}
    Tries = 2
    MaxLives = 2
    NoRow = NoRow
SPECIFICATION StoreSpec
SYMMETRY Interchangeable
INVARIANT RequestsAreSound
PROPERTY ChangesAreAtomic
