CONSTANTS
  w1 = w1
  w2 = w2
  u1 = u1
  u2 = u2
  None = None
  Workers = {w1, w2}
  Users = {u1, u2}
  Groups = {"g"}
  Names = {"n"}
  Roles = {"IDENTITY", "IMPERSONATION"}
  Ops = {"create_user", "remove_user", "add_admin", "remove_admin", "create_group", "remove_group", "add_user_to_group", "remove_user_from_group", "create_admin_token", "remove_admin_token", "seed_dev_user"}
  MaxFresh = 2
SPECIFICATION Spec
SYMMETRY Symmetric
INVARIANT TypeOK NoDanglingMember AnswersHeld SavesAccepted
PROPERTY LockedUntilSeeded ServicesAtomic
