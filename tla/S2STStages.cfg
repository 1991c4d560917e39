SPECIFICATION Spec
CONSTANTS
    Unknown = Unknown
    g1 = g1  g2 = g2  t1 = t1  t2 = t2  v1 = v1  sA = sA  sB = sB
    en = en  zh = zh  ja = ja
    Draw <- SomeDraw
    Content <- SomeContent
    Configs <- TwoConfigs
    Growers = {g1, g2}
    Translators = {t1, t2}
    Synthesizers = {v1}
    Batches = {1, 9}
    MaxRows = 1
    Casts <- ThreeCasts
INVARIANTS FamiliesHold StagesAligned
PROPERTIES StagesArePrefixes
CHECK_DEADLOCK FALSE
