SPECIFICATION Spec
CONSTANTS
    Asked = "p"
    Programmes <- SomeProgrammes
    Pages <- SomePages
    Listings <- SomeListings
    Rows <- SomeRows
\* A search ends with its answer; a call without a time limit may hang for good.
CHECK_DEADLOCK FALSE
INVARIANTS TypeOK NoOrphan
PROPERTIES Contract Returns
