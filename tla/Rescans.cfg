SPECIFICATION Spec
CONSTANTS
    NumFiles = 2
    MaxPending = 1
    MaxScans = 3
    Faults <- StartedFaults
PROPERTIES
    RefreshIsNotAnsweredByAnOlderListing
    BrowsingResumes
    CurationSettles
CHECK_DEADLOCK FALSE
