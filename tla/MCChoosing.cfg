CONSTANTS
  none = none
  pi = pi
  PI = PI
  mac = mac
  piDns = piDns
  macDns = macDns
  piIp = piIp
  macIp = macIp
  Ids = {1, 2}
  Self = 1
  Names <- MCNames
  NoName = none
  Addresses = {piIp, macIp}
  NoAddress = NoAddress
  Fold <- MCFold
  Label <- MCLabel
  Literal <- MCLiteral
  Rank <- MCRank
  Forms <- MCForms
  Typed = {pi}
  Boxes <- MCBoxes
  NoList = NoList
  NoUpload = NoUpload
  MaxLoads = 2
  MaxUploads = 1
SPECIFICATION Spec
INVARIANTS TypeOK LitIsSelected PickedIsReached
