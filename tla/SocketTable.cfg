SPECIFICATION Spec
CONSTANTS
 NumSockets = 4
 NtpServers = 2
 MaxTry = 3
 MayBlock = TRUE
INVARIANTS TypeOK Held
PROPERTY EstablishedSurvives
