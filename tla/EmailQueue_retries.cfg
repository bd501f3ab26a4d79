\* Two e-mails, one account, two workers, one fault of any kind.
SPECIFICATION Spec
CONSTANTS
  a1 = a1
  w1 = w1
  w2 = w2
  None = None
  Accounts = {a1}
  MaxMails = 2
  Workers = {w1, w2}
  Attempts = 3
  MaxStalls = 1
  MaxFaults = 1
\* Nobody has to ask for another e-mail.
CHECK_DEADLOCK FALSE
INVARIANTS
  OneCopyPerFault
  EndedLeavesNoPending
  SentMeansDelivered
PROPERTIES
  JobsEnd
  OutboxSpec
