SPECIFICATION Spec
CONSTANTS
    clerk = clerk
    addressee = addressee
    colleague = colleague
    letter = letter
    letters = letters
    s1 = s1
    c1 = c1
    c2 = c2
    c3 = c3
    Users = {clerk, addressee, colleague}
    Documents = {letter}
    Kinds = {letters}
    KindOf <- MCKindOf
    Actions = {"acknowledge", "read"}
    Sheets = {s1}
    Calls = {c1, c2, c3}
    Teams <- MCTeams
    RightsSets <- MCRightsSets
    ParticipantSets <- MCParticipantSets
    ReplacementSets <- MCReplacementSets
SYMMETRY Symmetry
INVARIANTS
    NobodyIsForgotten
    ShownIsAnswerable
    ConfirmedIsRecorded
    AskedCanRead
CHECK_DEADLOCK FALSE
