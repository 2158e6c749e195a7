\* Liveness with failing writes; the list holds one device, so that a second
\* address finds it full.
CONSTANTS
    a1 = a1  a2 = a2  i1 = i1  i2 = i2
    Addr = {a1, a2}
    Ieee = {i1, i2}
    Name = {default}
    DefaultName = default
    Blank = blank
    Absent = absent
    MaxDevices = 1
    Editor = {httpd}
    Resetter = {worker}
    EventLoop = loop
    Radio <- MCRadio
    QueueCap = 1
    Fault = {"write"}
SPECIFICATION FairSpec
PROPERTIES
    OperationsEnd
    QueueMoves
