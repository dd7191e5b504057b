CONSTANTS
  MaxId = 8
  Kinds = {"qos0", "qos1", "qos2", "subscribe", "unsubscribe timed"}
  MailQos = {0, 1, 2}
  Durable = TRUE
  Sessions = {TRUE, FALSE}
  MaxJobs = 2
  MaxMails = 1
  MaxDrops = 1
  MaxRestarts = 1
SPECIFICATION FairSpec
INVARIANT AnswersMatch
PROPERTIES OutgoingContract IncomingContract EverythingSettles
CHECK_DEADLOCK FALSE
