CONSTANTS
    Suites <- MCSuites
    MaxTests = 3
    MaxFailures = 1
SPECIFICATION Spec
INVARIANTS ThingsGoBack TornDownFirst NothingLeftBehind SettingsStand
