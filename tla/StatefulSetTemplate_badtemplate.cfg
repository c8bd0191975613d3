CONSTANTS
    MaxPods = 3
    Targets = {1, 3}
    Templates = {"t1", "t2"}
    Broken = {"t2"}
    Datas = {"d1", "d2"}
    MayDeleteExtra = FALSE
    MaxEdits = 2
    MaxRestarts = 0
SPECIFICATION FairSpec
PROPERTY TemplateRolledOut
