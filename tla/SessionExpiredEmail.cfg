SPECIFICATION MailFairSpec
CONSTANTS
  Recipient = {r1, r2}
  MaxEvents = 2
INVARIANTS OneMailPerEpoch
PROPERTIES LossIsMailed
