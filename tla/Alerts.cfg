SPECIFICATION Spec
\* Without sweeps a fleet comes to rest.
CHECK_DEADLOCK FALSE
CONSTANTS
    Nodes = {1}
    Jobs = {"j1", "j2"}
    BatchSize = 1
    MaxRequests = 2
    MaxFaults = 2
    Scenes <- AllScenes
    Sources <- AllSources
    Sweepers <- AllSweepers
PROPERTIES NobodyForgotten AlertsFollowTheFleet
