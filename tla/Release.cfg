SPECIFICATION Spec
CONSTANTS
    Version <- MCVersion
    First <- MCFirst
    MaxMain = 3
    MaxCommit = 2
    Main = Main
    None = None
INVARIANTS
    ReleaseInv
    OneAtATime
    NewReleaseIsAlone
