\* A reading and an output.
SPECIFICATION Spec
CONSTANTS
    acOutput = acOutput
    battery = battery
    Fields = {acOutput, battery}
    Ignored = {}
    Hinted = {acOutput}
    MaxAdded = 2
INVARIANTS
    FieldsAdded
