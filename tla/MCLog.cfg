\* Lines of one to six units, files of four: six lines roll the log up several
\* times, and some lines are longer than a file.
CONSTANTS
    MaxSize = 4
    MaxLine = 6
    SizeMax = 31
    MaxCount = 6
SPECIFICATION MCSpec
INVARIANTS
    SizeBounded
    PosIsSize
PROPERTIES
    KeepsLatest
    CurrentFileKept
