\* Reboot tasks can always be created: resets and reboots of both tasks overlap.
CONSTANTS
    home = home  office = office  longest = longest
    p1 = p1  p2 = p2  longest_p = longest_p
    Web = {httpd}
    Job = {worker}
    Ssid = {home}
    Password = {p1}
    LongSsid = {}
    LongPassword = {}
    Default = default
    Absent = absent
    Unset = unset
    MissingPart = {3, 4}
    Fault = {"write"}
SPECIFICATION FairSpec
INVARIANTS
    ResetSchedulesReboot
PROPERTIES
    RebootComes
