SPECIFICATION DesktopSpec
CONSTANTS
 Windows = {v, w}
 Viewer = v
 Damage <- EditedFiles
 Forms <- FilledForms
 MaxEdits = 2
 MaxFaults = 1
 MaxStarts = 2
 MaxDialogs = 1
 MaxJobs = 1
 MaxMeddles = 1
 Required = FALSE
 MaxLaunches = 4
INVARIANTS SettingsKept SavedAsShown FreshStatus OneHome
PROPERTIES FilesKept SavedIsApplied CloseEnds
CHECK_DEADLOCK FALSE
