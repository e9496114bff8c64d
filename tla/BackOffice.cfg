SPECIFICATION BackOfficeSpec
SYMMETRY Symmetric
CONSTRAINT Explored
VIEW View
CHECK_DEADLOCK FALSE
CONSTANTS
  e1 = e1  e2 = e2  e3 = e3  f1 = f1  f2 = f2  q1 = q1  q2 = q2  root = root
  None = None
  Requests <- MCRequests
  Phones <- MCTwo  Codes <- MCTwo
  Mobiles <- MCOne  Usernames <- MCUsernames  Founder = root  Tenants <- MCOne
  MaxAdmins = 2
  Persons <- MCThree
  Members <- MCTwo  Rows <- MCTwo  Totals = {1, 2}  PerLimits = {0, 1}
  OpenIds <- MCTwo  Numbers <- MCOne  MaxRows = 2  Levels <- MCTwo
  Domains <- MCTwo  Accounts <- MCTwo
  Items <- MCOne  SkuItems <- MCOne  MaxUnits = 2  MaxLines = 2
  PlanIds <- MCPair  Quotas <- MCQuotas  MaxFileRows = 2  MaxGoods = 4
  Places <- MCThree
  MaxSaves = 4
  Carriers <- MCPair  CarrierCodes <- MCTwo  Known <- MCOne  Priorities = {0, 1}
  Reasons <- MCPair  Labels <- MCTwo  Applications <- MCTwo
INVARIANTS
  BackOfficeTypeOK
  
  ApplicantOwnsTenant
  UplineIsOlder
  TypeOK CountsAgree
  OneMemberPerIdentity LevelOfMemberExists
  VerifiedWasVetted
  CartWithinShelf
  ProductsOvershoot
  CircleNeedsARace
  GoodsOfOneSave
  UsedReasonHasRow
PROPERTIES
  ReceivedWithinLimit
