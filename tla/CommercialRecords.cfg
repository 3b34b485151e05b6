CONSTANTS
    Editors = {e1, e2, e3}
    Careful = {e1, e2}
    Terms = {t1, t2}
    Details = {d1, d2}
    LastDay = 4
    MaxVersion = 5
    Blank = Blank
    None = None
SYMMETRY Interchangeable
SPECIFICATION RecordsSpec
INVARIANTS
    QuotedAnswerStands
PROPERTIES
    SavesOverWhatWasRead
CHECK_DEADLOCK FALSE
