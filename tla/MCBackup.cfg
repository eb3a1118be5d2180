CONSTANTS
    r1 = r1
    r2 = r2
    a1 = a1
    Restores <- MCRestores
    Admins <- MCAdmins
    MaxBackups = 2
    MaxRestarts = 1
SPECIFICATION Spec
INVARIANT RecordsAreSound
INVARIANT GoodBackupStays
PROPERTY SyncComesBack
CHECK_DEADLOCK FALSE
