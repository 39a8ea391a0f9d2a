CONSTANTS
  Nonces = {n1, n2, n3, n4}
  TTL = 2
  MaxChallenges = 2
  MaxTime = 6
SPECIFICATION Spec
SYMMETRY Symmetry
INVARIANTS SingleUse FreshWhenRedeemed HeldIsRedeemable
