SPECIFICATION Spec
CONSTANTS
    None = None
    Half = 4
    a = a
    b = b
    Star = Star
    DS = DS
    A = A
    SOA = SOA
    x = x
    y = y
    Labels = {a, b, Star}
    Names <- Names3
    Types = {SOA, A}
    Records = {x}
    Editable <- Data3
    Specials = {}
    MaxVersion = 1
    Bumps = {FALSE}
    Diffs = {FALSE}
    Initial <- Initial3
    Readers = {r1}
    Writers = {w1}
    r1 = r1
    w1 = w1
PROPERTIES
    ReadersUnaffected
