\* One peer's timers at half-interval resolution (one unit is half a ping
\* interval). pingAfter 2, unresponsiveAfter 4, forgetAfter 6 ping
\* intervals and a ping timeout of 2 intervals: the order of the code's
\* thresholds (3, 20, 256 and 2 intervals), with each gap at least one tick.
CONSTANTS
    PingInterval = 2
    PingAfter = 4
    UnresponsiveAfter = 8
    ForgetAfter = 12
    Timeout = 4
    MsgAgeCap = 15
    SessionStates = {3, 4}
SPECIFICATION Spec


PROPERTY GoneOncePerTransition
