SPECIFICATION Spec
CONSTANTS
    JsonBodies <- MCJsonBodies
    JsonFields <- MCJsonFields
    Forms <- MCForms
    FormFields <- MCFormFields
    Fold <- MCFold
INVARIANTS BodiesAreSealed
CHECK_DEADLOCK FALSE
