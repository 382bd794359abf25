SPECIFICATION MailboxSpec
CONSTANTS
    MAILBOX_CAP = 3
    Senders = {s1, s2}
    owner1 = owner1
    owner2 = owner2
    Receivers <- MCReceivers
    None = none
INVARIANTS
    SlotsPartitioned
    NeverQuarantined
PROPERTIES
    ImplementsQueue
