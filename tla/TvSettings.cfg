CONSTANTS
    a1 = a1
    a2 = a2
    NoApp = NoApp
    Apps = {a1, a2}
    Codecs <- MCHevc
    MaxClicks = 2
    MaxQueue = 4
SPECIFICATION Spec
CHECK_DEADLOCK FALSE
PROPERTIES
    SettingsKeepApplication
