SPECIFICATION Spec
CONSTANTS
    t1 = t1
    t2 = t2
    t3 = t3
    s1 = s1
    s2 = s2
    dns = dns
    select = select
    connect = connect
    Recv = recv
    NoSocket = NoSocket
    Task = {t1, t2, t3}
    Socket = {s1, s2}
    Action = {dns, select, connect, recv}
    Timed = {connect}
    May <- MCMay
    N = 3
INVARIANTS TypeOK ListsSound RightTaker NoStaleSignal NoStrandedPending
PROPERTY LockSpec
CHECK_DEADLOCK FALSE
