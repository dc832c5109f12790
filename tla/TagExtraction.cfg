SPECIFICATION Spec
CONSTANTS
    n1 = n1
    n2 = n2
    Agents = {a1, a2}
    Names = {n1, n2}
    LabelIn <- OneInOther
    NoTag = notag
    MaxTags = 3
    MaxDocs = 2
    Words <- MCWords
    Blank = blank
    Size <- MCSize
    Texts <- MCTexts
    Settings <- MCSettings
    Documents <- MCDocuments
    Skeletons <- FirstLine
    Modes = {TRUE, FALSE}
    Tasks = {t1, t2}
    Faults = {"read", "short", "delete", "add", "record", "crash"}
SYMMETRY TaskSymmetry
INVARIANTS TagsResolve CountsAreSound ChunksAreSound
PROPERTY FrequencyKept
CHECK_DEADLOCK FALSE
