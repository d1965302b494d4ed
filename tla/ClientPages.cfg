SPECIFICATION PageSpec
CONSTANTS
    Documents = {1, 2, 3}
    Existing = {1, 3}
    Words = {"7", "who", "plan", "report"}
    FirstForm <- MCFirstForm
    Forms <- MCForms
    Filters <- MCFilters
    Searches = {"report"}
    Sizes = {1, 2}
    DefaultSize = 1
    MaxClock = 2
    MaxClicks = 3
    MaxUpsets = 1
    MaxRequests = 2
    MaxSaves = 1
    first = first
    second = second
    Questions = {first, second}
    MaxVersion = 6
    MaxChanges = 4
INVARIANTS
    NothingIsSkipped
    SettledIsCurrent
    ShowsWhatWasAskedLast
    AnswerIsUnderWay
CHECK_DEADLOCK FALSE
