CONSTANTS
    Objects = {x, y}
    Handled = {x}
    Bytes = {0, 1}
    Junk = junk
    Lost = lost
    Align = 2
    MaxLen = 3
    Widths <- MCWidths
SPECIFICATION Spec
CHECK_DEADLOCK FALSE
INVARIANT RoundTrip
PROPERTY IsByteFile
