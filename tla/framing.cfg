SPECIFICATION LiveSpec
CONSTANTS
    BUFFER_SIZE = 8
    BYTE = 4
    FIXED_KEY = 2
    PACKET_CODE = 1
    INITIAL_PAYLOAD = 3
    RINGBUFFER_SIZE = 13
    ByteXor <- XorTable
    Messages <- SomeMessages
    Keys = {1}
    MaxSent = 2
    MaxConnects = 2
INVARIANTS
    InOrder
    RingExact
    PostedRight
    CodecInverse
PROPERTY Delivered
CHECK_DEADLOCK FALSE
