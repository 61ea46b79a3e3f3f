\* Sizes are computed modulo 2048: 16 rooms are too many, as 512 are in 16 bits.
SPECIFICATION Spec
CONSTANTS
    Texts = {"ann", "long", "hello", "essay"}
    Names <- MCNames
    Lines <- MCLines
    RoomIDs <- MCRoomIDs
    WordSize = 2048
    Rooms = {0, 1, 15}
    MaxRequests = 2
\* Nothing happens when everything has been answered.
CHECK_DEADLOCK FALSE
INVARIANTS
    TypeOK
    PacketIsWhole
    HeardIsAsked
    ToldIsAnswered
    AnswersInTurn
    EchoIsTyped
    OnlyLongListsPanic
