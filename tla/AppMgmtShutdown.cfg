SPECIFICATION Spec
CONSTANTS
    MaxQueue = 2
    MaxFaults = 0
PROPERTIES ShutdownObeyed
