SPECIFICATION PortsSpec
CONSTANTS
    Lines = {0, 1}
INVARIANTS
    PortsTypeOK
PROPERTIES
    BufferImplemented
