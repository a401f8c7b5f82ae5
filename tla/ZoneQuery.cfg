SPECIFICATION FamilySpec
CONSTANTS
    None = None
    Half = 4
    a = a
    b = b
    Star = Star
    DS = DS
    A = A
    SOA = SOA
    x = x
    y = y
    Labels = {a, b, Star}
    Names <- Names4
    Types = {SOA, A, DS}
    Records = {x}
    Editable <- Data4
    Specials = {"cut", "cname", "cut_with_DS"}
    MaxVersion = 1
    Bumps = {FALSE}
    Diffs = {FALSE}
    Initial <- Initial4
    Readers = {r1}
    Writers = {w1}
    r1 = r1
    w1 = w1
INVARIANTS
    NxDomainHidesNoRRset
    ReadersFindContents
PROPERTIES
    AnswersStable
