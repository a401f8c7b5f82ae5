SPECIFICATION FamilySpec
CONSTANTS
    None = None
    Half = 4
    a = a
    A = A
    SOA = SOA
    x = x
    Labels = {a}
    Names <- Names2
    Types = {SOA, A}
    Records = {x}
    Editable <- SoaAndData
    Specials = {"cname"}
    MaxVersion = 2
    Bumps = {TRUE, FALSE}
    Diffs = {TRUE, FALSE}
    Initial <- Initial2
    Readers = {r1}
    Writers = {w1, w2}
    r1 = r1
    w1 = w1
    w2 = w2
INVARIANTS
    HistoriesInOrder
    DiffRemovesPublished
PROPERTIES
    IsZone
