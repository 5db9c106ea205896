CONSTANTS
    t1 = t1
    t2 = t2
    t3 = t3
    Themes = {t1, t2, t3}
    Items <- MCItems
    Givable <- MCGivable
    Switchable = {t1, t2}
    Lists <- MCLists
    MaxRows = 2
    Lossy = FALSE
    None = None
SPECIFICATION Spec
INVARIANTS BundleIsInherited MarkerFollowsBundle WalkIsBounded ListIsOfferedIfSigned
