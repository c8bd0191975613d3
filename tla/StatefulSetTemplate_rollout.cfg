CONSTANTS
    MaxPods = 3
    Targets = {1, 3}
    Templates = {"t1", "t2"}
    Broken = {}
    Datas = {"d1", "d2"}
    MayDeleteExtra = TRUE
    MaxEdits = 3
    MaxRestarts = 1
SPECIFICATION FairSpec
PROPERTY TemplateRolledOut
