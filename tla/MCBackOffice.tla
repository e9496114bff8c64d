---------------------------- MODULE MCBackOffice -----------------------------
(* The modules of the back office for TLC.  They share no state, and a run *)
(* explores them one at a time: which is chosen at the beginning.          *)
EXTENDS Account, VerifyCode, Distribution, Membership, CouponIssue, Settings, Cart,
        Catalog, Regions, Seckill, Carriers, Reasons, TLC

CONSTANTS e1, e2, e3, f1, f2, q1, q2, root

VARIABLE part

MCOne == {f1}
MCTwo == {f1, f2}
MCThree == {e1, e2, e3}
MCRequests == {q1, q2}
MCUsernames == MCTwo \cup {root}
MCQuotas == 0..2
MCPair == {1, 2}

Parts == {"account", "code", "distribution", "membership", "coupon", "settings",
          "cart", "catalog", "regions", "seckill", "carriers", "reasons"}

BackOfficeInit ==
  /\ part \in Parts
  /\ AccountInit /\ CodeInit /\ DistributionInit /\ MembershipInit
  /\ Init /\ SettingsInit
  /\ CartInit /\ RegionsInit /\ SeckillInit
  /\ CatalogInit /\ CarriersInit /\ ReasonsInit
  \* One initial state for the modules that are not explored.
  /\ part # "coupon" => ~coupon.enabled /\ coupon.unlimited /\ coupon.perLimit = 0
  /\ part # "catalog" => planId = 1 /\ widest = 0

Rest(p) ==
  /\ UNCHANGED part
  /\ p # "account" => UNCHANGED accountVars
  /\ p # "code" => UNCHANGED codeVars
  /\ p # "distribution" => UNCHANGED distributionVars
  /\ p # "membership" => UNCHANGED membershipVars
  /\ p # "coupon" => UNCHANGED vars
  /\ p # "settings" => UNCHANGED settingsVars
  /\ p # "cart" => UNCHANGED cartVars
  /\ p # "catalog" => UNCHANGED catalogVars
  /\ p # "regions" => UNCHANGED regionsVars
  /\ p # "seckill" => UNCHANGED seckillVars
  /\ p # "carriers" => UNCHANGED carrier
  /\ p # "reasons" => UNCHANGED reasonsVars

BackOfficeNext ==
  \/ part = "account" /\ AccountNext /\ Rest("account")
  \/ part = "code" /\ CodeNext /\ Rest("code")
  \/ part = "distribution" /\ DistributionNext /\ Rest("distribution")
  \/ part = "membership" /\ MembershipNext /\ Rest("membership")
  \/ part = "coupon" /\ Next /\ Rest("coupon")
  \/ part = "settings" /\ SettingsNext /\ Rest("settings")
  \/ part = "cart" /\ CartNext /\ Rest("cart")
  \/ part = "catalog" /\ CatalogNext /\ Rest("catalog")
  \/ part = "regions" /\ RegionsNext /\ Rest("regions")
  \/ part = "seckill" /\ SeckillNext /\ Rest("seckill")
  \/ part = "carriers" /\ CarriersNext /\ Rest("carriers")
  \/ part = "reasons" /\ ReasonsNext /\ Rest("reasons")

backOfficeVars == <<part, accountVars, codeVars, distributionVars, membershipVars, vars,
  settingsVars, cartVars, catalogVars, regionsVars, seckillVars, carrier,
  reasonsVars>>

BackOfficeSpec == BackOfficeInit /\ [][BackOfficeNext]_backOfficeVars

\* The variables of the module that is explored keep their types, the others do not
\* change.
BackOfficeTypeOK ==
  /\ part = "account" => AccountTypeOK
  /\ part = "code" => CodeTypeOK
  /\ part = "distribution" => DistributionTypeOK
  /\ part = "membership" => MembershipTypeOK
  /\ part = "settings" => SettingsTypeOK
  /\ part = "cart" => CartTypeOK
  /\ part = "catalog" => CatalogTypeOK
  /\ part = "regions" => RegionsTypeOK
  /\ part = "seckill" => SeckillTypeOK
  /\ part = "carriers" => CarriersTypeOK
  /\ part = "reasons" => ReasonsTypeOK

\* The modules that are not explored stay as they were.
View == <<part,
  CASE part = "account" -> accountVars
    [] part = "code" -> codeVars
    [] part = "distribution" -> distributionVars
    [] part = "membership" -> membershipVars
    [] part = "coupon" -> vars
    [] part = "settings" -> settingsVars
    [] part = "cart" -> cartVars
    [] part = "catalog" -> catalogVars
    [] part = "regions" -> regionsVars
    [] part = "seckill" -> seckillVars
    [] part = "carriers" -> carrier
    [] part = "reasons" -> reasonsVars>>

Symmetric == Permutations(MCRequests)

\* Members, codes, phones and the purposes of codes are alike: it is enough to look
\* at the behaviours in which e1, e2 and e3 become distributors in this order, f1 is
\* the first code that is drawn, and it is drawn for the login of the phone f1.
InOrder ==
  /\ IsDistributor(e2) => IsDistributor(e1)
  /\ drawn[f2] # None => drawn[f1] # None
  /\ drawn[f1] \in {None, <<"login", f1>>}

\* Nothing is left to see when e3 is a distributor, the last: no row is inserted
\* any more, and none changes its parents.  Nor when Updates of regions have
\* raced, which is all that CircleNeedsARace asks for.
Settled == IsDistributor(e3) \/ raced

Explored == InOrder /\ ~Settled
=============================================================================
