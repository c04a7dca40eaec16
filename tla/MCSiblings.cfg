CONSTANTS
    Iface <- SibIface
    MethodSeq <- SibMethodSeq
    SignalSeq <- SibSignalSeq
    PropertySeq <- SibPropertySeq
    InArgs <- SibInArgs
    OutArgs <- SibOutArgs
    SignalArgs <- SibSignalArgs
    ValueArg <- SibValueArg
    IfaceName = "org.example.Frob"
    InterfacePrefix = "org.example."
    CNamespaceOpt = "My"
    MemberName <- SibMemberName
    Trees <- SiblingTrees
SPECIFICATION Spec
PROPERTIES
    Refinement
\* The pass ends once the interface's annotations are resolved.
CHECK_DEADLOCK FALSE
