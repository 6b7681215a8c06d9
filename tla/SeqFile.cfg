CONSTANTS
    Procs = {p1, p2, p3}
    Kinds = {"none", "fcntl", "sysv", "posix", "memsem", "shmobj"}
    cycletimes = 2
    objtimes = 1
    MaxKills = 1
    MaxReruns = 1
    None = none
SPECIFICATION SeqSpec
INVARIANTS SeqTypeOK NoLostUpdate
PROPERTY SurvivorsFinish
CHECK_DEADLOCK FALSE
