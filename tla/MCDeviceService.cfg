\* Working flash and restarts, renames included: the HTTP server edits, the job
\* worker resets, two devices announce themselves.
CONSTANTS
    a1 = a1  a2 = a2  i1 = i1  i2 = i2
    Addr = {a1, a2}
    Ieee = {i1, i2}
    Name = {default, kitchen}
    DefaultName = default
    Blank = blank
    Absent = absent
    MaxDevices = 2
    Editor = {httpd}
    Resetter = {worker}
    EventLoop = loop
    Radio <- MCTwo
    QueueCap = 1
    Fault = {}
SPECIFICATION Spec
INVARIANTS
    ListWellFormed
    ShownIsCurrent
PROPERTIES
    ImplementsRegistry
