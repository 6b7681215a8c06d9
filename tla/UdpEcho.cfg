CONSTANTS
    Lines = 2
    Lengths = {92, 100}
    MAX_RESEND_TIMES = 3
    RTT_MIN = 2
    RTT_MAX = 60
    MAXLEN = 100
    HeadLen = 8
SPECIFICATION Spec
INVARIANTS TypeOK EchoesInOrder WaitIsTimed
PROPERTY ClientEnds
