CONSTANTS
  Ids = {i1, i2}
  Keys = {k1, k2}
  NoKey = NoKey
  Requests = {r1, r2}
  Nobody = Nobody
  MaxVersion = 2
  Says404 = FALSE
SPECIFICATION Spec
SYMMETRY Symmetry
INVARIANTS FirstKeyOwnsId FleetStaysVerifiable
PROPERTY ClaimsAreKept
