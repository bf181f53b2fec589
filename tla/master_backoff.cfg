SPECIFICATION Spec
CONSTANTS
    GATEWAY_COUNT = 1
    reconnect_initial_sec = 1
    reconnect_max_sec = 3
INVARIANTS
    BackoffRestarts
