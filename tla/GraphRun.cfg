CONSTANTS
    TaskIds = {a, b}
    Clients = {p, q}
SPECIFICATION GraphSpec
SYMMETRY Symmetry
INVARIANTS DependentsAgree 
