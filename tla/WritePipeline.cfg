CONSTANTS
    Requests = {r1, r2, r3}
    Names <- MCNames
    Cases <- MCCases
SYMMETRY MCSymmetry
SPECIFICATION Spec
INVARIANTS
    ProtectedColumns
    WrittenAsAccepted
    AuditTrail
    AcceptedIsWritable
    PublishedSchemaHonoured
    RowsAsPublished
    TypeOK
\* Every request is made once.
CHECK_DEADLOCK FALSE
