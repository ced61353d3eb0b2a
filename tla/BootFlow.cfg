SPECIFICATION Spec
CONSTANTS
    Retries = 2
    Boards <- MCBoards
    UbootImages <- MCUbootImages
    FipImages <- MCFipImages
INVARIANTS TypeOK LaunchChecked DramTested RightCore
PROPERTIES VerifyFailureIsFinal Settles
