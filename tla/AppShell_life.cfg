SPECIFICATION Spec
CONSTANTS
    F8 = F8  Mouse4 = Mouse4
    MaxEngines = 2
    Keys = {F8, Mouse4}
    FirstBinding = F8
    MaxInputs = 2
    MaxLosses = 1
CHECK_DEADLOCK FALSE
INVARIANTS TypeOK SettledViewIsTrue NobodyIsOverheard OneSession SettingIsApplied StartScreenIsQuiet
 
