\* Every fault: the HTTP server and the job worker act at the same time.
CONSTANTS
    home = home  office = office  longest = longest
    p1 = p1  p2 = p2  longest_p = longest_p
    Web = {httpd}
    Job = {worker}
    Ssid = {home, office, longest}
    Password = {p1, p2, longest_p}
    LongSsid = {longest}
    LongPassword = {longest_p}
    Default = default
    Absent = absent
    Unset = unset
    MissingPart = {3, 4}
    Fault = {"write", "task", "power"}
SYMMETRY Alike
SPECIFICATION Spec
INVARIANTS
    TypeOK
    OneReboot
PROPERTIES
    SavedCredentialsUsed
