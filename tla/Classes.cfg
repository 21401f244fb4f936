SPECIFICATION Spec
CONSTANTS
    base = base
    derived = derived
    wrong = wrong
    field = field
    accessor = accessor
    None = None
    Class <- MCClass
    Parent <- MCParent
    Name <- MCName
    Elements <- MCElements
    Address = {o1}
    MaxDepth = 3
INVARIANTS
    
    ThisIsReady
