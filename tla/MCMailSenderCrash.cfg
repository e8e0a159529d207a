CONSTANTS
    Records = {r1, r2, r3}
    ExpireAge = 2
    NoRecord = NoRecord
    MaxCrashes = 1
INIT MailInit
NEXT MailNext
INVARIANT ReplyAtMostOnce
