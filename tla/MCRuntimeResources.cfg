\* Reconciliations and deletions of one application, each cut short anywhere.
SPECIFICATION RuntimeSpec
CONSTANTS
    d1 = d1
    d2 = d2
    NoDatabase = NoDatabase
    Configs <- MCConfigs
SYMMETRY Symmetry
PROPERTY DatabaseRetained
 
