\* A restart inside a save, no factory reset.
CONSTANTS
    a1 = a1  a2 = a2  i1 = i1  i2 = i2
    Addr = {a1, a2}
    Ieee = {i1, i2}
    Name = {default}
    DefaultName = default
    Blank = blank
    Absent = absent
    MaxDevices = 2
    Editor = {httpd}
    Resetter = {}
    EventLoop = loop
    Radio <- MCTwo
    QueueCap = 1
    Fault = {"power"}
SPECIFICATION Spec
PROPERTIES
    ListSurvivesRestart
