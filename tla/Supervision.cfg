SPECIFICATION Spec
CONSTANTS
    MaxMail = 2
    MaxSession = 2
    Window = 1
    Retry = 2
    Silence = 3
    None = None
INVARIANTS MarkIsCoherent
PROPERTIES CoverageIsEarned KnocksAreSpaced SilenceIsSaid MailIsKnockedOn
CHECK_DEADLOCK FALSE
