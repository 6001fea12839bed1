SPECIFICATION FairSpec
CONSTANTS
  Users = {u1}
  Opener = u1
  Calls <- Methods
  Failures <- Troubles
  Backlog = 1
  None = None
PROPERTIES InStep OwnReply RepliesArrive
CHECK_DEADLOCK FALSE
