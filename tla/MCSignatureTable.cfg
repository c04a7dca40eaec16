CONSTANTS
    OtherSignatures = {"h", "v", "ah", "a{sv}", "(ii)", "ai"}
    ForceValues = {None, "", "true", "false"}
    None = None
SPECIFICATION Spec
INVARIANTS
    TypeOK
    DescriptorConsistent
CHECK_DEADLOCK FALSE
