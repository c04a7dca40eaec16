CONSTANTS
    Iface <- MCIface
    MethodSeq <- MCMethodSeq
    SignalSeq <- MCSignalSeq
    PropertySeq <- MCPropertySeq
    InArgs <- MCInArgs
    OutArgs <- MCOutArgs
    SignalArgs <- MCSignalArgs
    ValueArg <- MCValueArg
    IfaceName = "org.example.Frob"
    InterfacePrefix = "org.example."
    CNamespaceOpt = "My"
    MemberName <- MCMemberName
    Trees <- SinceTrees
SPECIFICATION Spec
INVARIANTS
    TypeOK
    SinceInheritance
    UnsharedAnnotationSince
PROPERTIES
    WriteOnce
\* The pass ends once the interface's annotations are resolved.
CHECK_DEADLOCK FALSE
