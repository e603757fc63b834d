SPECIFICATION Spec
CONSTANTS
    Platforms = {"linux", "darwin", "windows"}
    MaxDials = 3
    MaxWatched = 2
INVARIANTS LinksTrue
PROPERTIES DoneCloses ScanEnds
