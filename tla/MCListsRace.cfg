CONSTANTS
    h1 = h1
    h2 = h2
    d1 = d1
    d2 = d2
    s1 = s1
    s2 = s2
    Scheduled = Scheduled
    Boot = Boot
    Absent = Absent
    Cut = Cut
    NoOne = NoOne
    Handlers = {h1, h2}
    Domains = {d1}
    Sources = {s1}
    Versions = {1}
SPECIFICATION Spec
INVARIANTS SettledMatchesDisk
