SPECIFICATION Spec
CONSTANTS
    SEQ_MOD = 4
    ack_window = 2
    ack_timeout_ms = 2000
    connect_timeout_sec = 2
    general_interrogation_interval_sec = 3
    test_frame_interval_sec = 2
    START = 3
    MAX_CLOCK = 9
    READ_MAX = 1
    STALL_MAX = 1
    GW_SLIP = 0
INVARIANTS
    ConformingGatewayKept
