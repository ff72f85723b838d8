SPECIFICATION Spec
CONSTANTS
    Dirs <- MCDirs
    Names <- MCNames
    Files = {"file"}
    Programs = {"program"}
    Node <- MCNode
    Order <- MCOrder
    Hidden = {}
    Closed = {}
    Home = "/h"
    Start = "/p/s"
    Heights = {3}
    Word = 8
INVARIANTS
    ActiveInWorkingDirectory
