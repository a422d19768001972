SPECIFICATION Spec
CONSTANTS
    Blocks = {p1, p2}
SYMMETRY PcbSymmetry
INVARIANTS
    NeighboursCorrect
    InterfacesCorrect
    ConfigurationCorrect
    ServicesCorrect
    ScansCorrect
    ReassemblyCorrect
    DatagramsCorrect
PROPERTIES
    StepsCorrect
    IpStepsCorrect
