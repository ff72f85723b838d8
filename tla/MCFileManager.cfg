SPECIFICATION Spec
CONSTANTS
    Dirs <- MCDirs
    Names <- MCNames
    Files = {"file"}
    Programs = {"program"}
    Node <- MCNode
    Order <- MCOrder
    Hidden = {"/p"}
    Closed = {"/p/s/c", "/h/c"}
    Home = "/h"
    Start = "/p/s"
    Heights = {0, 3}
    Word = 8
INVARIANTS
    TypeOK
    SelectedIsEntry
    CursorOnSelected
    ShowsDirectory
PROPERTIES
    PanelsAreLists
