SPECIFICATION Spec
CONSTANTS
 NumSockets = 4
 NtpServers = 2
 MaxTry = 2
 MayBlock = FALSE
PROPERTY ClosesItsOwn
