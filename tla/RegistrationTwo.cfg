\* Two requests at a time, two keys, two items and two years.
CONSTANTS
    Clients = {c1, c2}
    Keys = {k1, k2}
    Kinds = {kd}
    Appeals = {kd}
    Orders = {kd}
    Noms = {m1, m2}
    Years = {y1, y2}
    Modes = {"index_and_number", "number_only"}
    Prefixes = {p1}
    Suffixes = {}
    NoText = NoText
    Starts = {1}
    Asked = {2}
    MaxDocs = 2
    MaxNumber = 4
    EditBound = 1
SPECIFICATION Spec
SYMMETRY Symmetry
INVARIANTS
    NoGaps
    NeverBlocksItself
    SameRequestSameDocument

