SPECIFICATION FairSpec
CONSTANTS
    c1 = c1
    u1 = u1
    u2 = u2
    j1 = j1
    Chats = {c1}
    Turns = {u1, u2}
    Loops = {j1}
    WakeSteps = 2
    Candidates = 2
    CHAT_WAITER_MAX = 2
    CHANNEL_INFLIGHT_MAX = 2
    NoOne = NoOne
CHECK_DEADLOCK FALSE
INVARIANTS TypeOK OneProcess AnsweredOnce
PROPERTIES HumanFirst NoReplacement NoneLeftWaiting LineDrains
