--------------------------- MODULE MCFirefoxRules ---------------------------
(* FirefoxRules for three files of the user and four rulesets of the       *)
(* database.  mine replaces Shop; half lacks a host in its second target,  *)
(* so that News of the database is read all the same; again is a second    *)
(* file named Shop; coop and coop2 share a name.                           *)
EXTENDS FirefoxRules

CONSTANTS mine, half, again, shop, news, coop, coop2

MCCustomIds == <<mine, half, again>>
MCDbIds == {shop, news, coop, coop2}
MCName == {"Shop", "News", "Coop"}

A == <<"a", "org">>
B == <<"b", "org">>
Dots == <<"a", "", "org">>
MCHost == {A, B, Dots}

Entry(name, form, off, platform, ts) ==
  [name |-> name, form |-> form, off |-> off, platform |-> platform, targets |-> ts]

MCContent ==
  (mine :> Entry("Shop", "ok", TRUE, "any", {A}))
  @@ (half :> Entry("News", "nohost", FALSE, "any", {A}))
  @@ (again :> Entry("Shop", "ok", FALSE, "any", {B}))
  @@ (shop :> Entry("Shop", "ok", FALSE, "any", {}))
  @@ (news :> Entry("News", "ok", FALSE, "mixedcontent", {}))
  @@ (coop :> Entry("Coop", "ok", FALSE, "any", {}))
  @@ (coop2 :> Entry("Coop", "ok", FALSE, "mixedcontent", {}))

MCDbTargets ==
  (A :> <<shop, coop>>) @@ (<<Star, "org">> :> <<news>>) @@ (B :> <<shop, coop2, coop, news>>)
=============================================================================
