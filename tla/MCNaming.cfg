CONSTANTS
    Alphabet = {"a", "B", "1", "_"}
    MaxLen = 3
    ExtraNames = {"type", "Type", "TYPE", "GetFoo42Bar", "Foo_Bar", "_Type", "ty_pe", "type_"}
    InterfaceNameSet = {"org.Foo", "org.fooBar.Baz", "Frob", "org.Foo_Bar"}
    IfaceOverrides = {"<None>", "", "FooBar", "Foo_Bar", "Some.Dotted"}
    InterfacePrefixes = {"", "org.", "org.foo"}
    Namespaces = {"", "Gdbus", "My_Ns", "MyNs"}
SPECIFICATION Spec
INVARIANTS
    TypeOK
    InterfaceFormsAgree
CHECK_DEADLOCK FALSE
