SPECIFICATION Spec
CONSTANTS
  ann = ann
  ben = ben
  phone = phone
  laptop = laptop
  tablet = tablet
  Person = {ann, ben}
  AnonId = {phone, laptop, tablet, new}
  Own <- MCOwn
  NoUser = NoUser
  MaxDeletions = 1
INVARIANTS
  IInv
  CurrentSessionsWork
  VerifiedLoggedIn
PROPERTIES
  AccountsKeepIdentity
  ImplementsRegistry
CHECK_DEADLOCK FALSE
