CONSTANTS
    None = None
    TablesOnAir <- SomeTables
    LostPayloads = {8}
    Profiles = {"Data", "Caption"}
    DrcsMappings = {"Replacement"}
    Designations <- SomeDesignations
    Controls <- SomeControls
    Macros = {97, 101}
    MaxDesignations = 1
    MaxAccents = 2
    PrivateArea = 2
SPECIFICATION Spec
INVARIANTS CrcComesLast TextComesThrough
CHECK_DEADLOCK FALSE
