SPECIFICATION Spec
CONSTANTS
    Absent = Absent
    Target = {"block_deposit", "epoch_slashings"}
    Backend <- MCBackend
    Case <- MCCase
    MaxRuns = 2
INVARIANTS
    TypeOK
    TablesAreOfOneRun
    
PROPERTIES
    RecipesKeepToTheirTables
