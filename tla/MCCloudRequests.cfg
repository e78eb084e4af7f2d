SPECIFICATION AuthSpec
CONSTANTS
  r1 = r1
  r2 = r2
  r3 = r3
  s1 = s1
  ann = ann
  bob = bob
  Requests = {r1, r2, r3, s1}
  Users = {ann, bob}
  UserOf <- OwnerOf
  Max = 2
  Window = 3
  MaxTime = 3
  CacheSeconds = 1
SYMMETRY RequestSymmetry
INVARIANTS
  WindowRespectedInOrder
  LimitIsOwn
  KeysAreFresh
