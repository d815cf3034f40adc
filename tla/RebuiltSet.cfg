SPECIFICATION Spec
CONSTANTS
    Sockets = {s1}
    Items = {1, 2}
    PidOf <- OwnPid
    PageSize = 2
    Buffer = 2
    Reports = {"downloading"}
    Wire = 2
    MaxChanges = 2
    Calls = {c1}
CHECK_DEADLOCK FALSE
PROPERTIES RebuiltAccurately
