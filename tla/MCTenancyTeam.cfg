\* The founder and two more users, with two requests in flight.
SPECIFICATION Spec
CONSTANTS
  alice = alice
  bob = bob
  carol = carol
  r1 = r1
  r2 = r2
  Users = {alice, bob, carol}
  Founder = alice
  Admins = {carol}
  Subjects = {bob}
  Requests = {r1, r2}
  Wanted = {"ADMIN", "MANAGER"}
  MaxInvitations = 2
SYMMETRY Alike
CHECK_DEADLOCK FALSE
INVARIANTS
  TeamIsSound
PROPERTIES
  RoleChangesAreRanked
  InvitationsAreUsedOnce
