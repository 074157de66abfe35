CONSTANTS
    CR = CR
    LF = LF
    DATA = DATA
    Refusal = Refusal
    Text = Text
    Unset = Unset
    start = start
    delta = delta
    Reports = {start, delta}
    Gives <- TwoReports
    MaxEvent = 2
    MaxJSON = 3
    MaxError = 2
    MaxBody = 7
    MaxChunk = 2
SPECIFICATION Spec
INVARIANTS OutcomeJustified UsageIsOfTheBody
\* The response ends.
CHECK_DEADLOCK FALSE
