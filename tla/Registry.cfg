\* A disciple and a peak; four requests that overlap.
SPECIFICATION Spec
CONSTANTS
  Names = {"li"}
  Peaks = {"verdant"}
  Requests = {r1, r2, r3, r4}
  Profiles = {"scribe", "warden"}
  Realms = {"qi-condensation", "foundation-establishment"}
  BottomRealm = "qi-condensation"
  Bodies <- MCBodies
  NULL = NULL
SYMMETRY RequestSymmetry
INVARIANTS
  RegistryTypeOK
  OneAdmission
  ReplacedTokensAreDead
  AffiliationsExist
PROPERTIES
  OnlyMentionedColumnsMove
\* The requests are used up.
CHECK_DEADLOCK FALSE
