------------------------------ MODULE MCShared ------------------------------
(***************************************************************************)
(* Four components that requests of different clients use at the same time *)
(* and that share nothing with one another: the rendering of offers, the   *)
(* click counter, the subscriptions, and the dictionaries for iOS.  A      *)
(* behaviour is one of a single component; `part` says of which, and the   *)
(* variables of the others keep their initial values.                      *)
(***************************************************************************)
EXTENDS ClickCounter, IosPmt, Subscription, Rendering, TLC

CONSTANTS r1, r2, o1, o2, c1, c2

VARIABLE part

-----------------------------------------------------------------------------
(* Rendering: r1 may be of any kind and ask for two sizes, r2 renders the  *)
(* published offers themselves or copies of them at the same time.         *)
mcNear == [ratio |-> 2, exact |-> FALSE]
mcExact == [ratio |-> 3, exact |-> TRUE]
mcWants == {mcNear, mcExact}
mcAdapters ==
  (mcNear :> {{[cat |-> "i", ratio |-> 2]}, {[cat |-> "i", ratio |-> 2], [cat |-> "v", wide |-> "wide"]}})
  @@ (mcExact :> {{[cat |-> "i", ratio |-> 2]}, {[cat |-> "none"]}})
mcPicture(id, lang, ratio, area) == [id |-> id, lang |-> lang, ratio |-> ratio, area |-> area]
mcVideo(id, wide) == [id |-> id, lang |-> "ALL", wide |-> wide]
mcMaterial ==
  (o1 :> [pictures |-> {mcPicture("a", "en", 2, 4), mcPicture("b", "en", 2, 4), mcPicture("d", "ALL", 9, 1)},
          keys |-> {"en", "ALL"}, renders |-> {}, videos |-> {mcVideo("v", "wide")}, icon |-> "icon"])
  @@ (o2 :> [pictures |-> {mcPicture("c", "ALL", 3, 4)}, keys |-> {"ALL", "US"}, renders |-> {2},
             videos |-> {mcVideo("w", "tall")}, icon |-> "none"])
mcAsk(kinds, num, wants, cids) == [kind : kinds, num : {num}, want : wants, cids : {cids}]
mcAsked ==
  (r1 :> (mcAsk({"realtime", "video", "pagead", "jstagMedia", "interstitial"}, 1, mcWants, {})
          \cup mcAsk({"jstagH5"}, 2, mcWants, {})
          \cup mcAsk({"retrieval", "videov4Native", "wugan", "life", "fuyu", "promotion"}, 1, {mcNear}, {})
          \cup mcAsk({"videoAd"}, 1, mcWants, {"v", "w", "c"})
          \cup mcAsk({"videoAd"}, 1, {mcNear}, {"v"})))
  @@ (r2 :> mcAsk({"jstagH5", "video"}, 1, {mcNear}, {}))
mcMaxReply == (r1 :> 2) @@ (r2 :> 1)
mcWhite == {o1}
mcAffiliated == {o2}

(* Subscriptions: channels whose weights draw the divider apart, without a *)
(* weight, closed, not known, and sold in one country only.                *)
mcEntry(channel, weight, switch, countries) ==
  [channel |-> channel, weight |-> weight, switch |-> switch, countries |-> countries]
mcEntries ==
  {mcEntry("a", 1, 1, {c1, c2}), mcEntry("b", 2, 1, {c1}), mcEntry("a", 0, 1, {c1, c2}),
   mcEntry("b", 3, 2, {c1, c2}), mcEntry("x", 1, 1, {c1, c2})}
mcConfigs ==
  UNION {[1..n -> mcEntries] : n \in 0..2}
  \cup {<<mcEntry("a", 1, 1, {c1}), mcEntry("b", 2, 1, {c1, c2}), mcEntry("a", 3, 1, {c1})>>}
mcChannels == {"a", "b"}
(* iOS: versions on both sides of every boundary the handler compares      *)
(* with, and one that strings and numbers order differently.               *)
mcClient(slot, os, sdk) == [slot |-> slot, os |-> os, sdk |-> sdk]
mcClients ==
  {mcClient("plain", <<12, 0>>, <<3, 2, 3>>), mcClient("plain", <<12, 0>>, <<3, 2, 4>>),
   mcClient("plain", <<12, 0>>, <<3, 10, 0>>), mcClient("plain", <<10, 3>>, <<2, 4, 6>>),
   mcClient("plain", <<11, 4>>, <<2, 3, 7>>),
   mcClient("noWorker", <<11, 4>>, <<2, 3, 6>>), mcClient("tcash", <<11, 4>>, <<2, 3, 6>>)}

-----------------------------------------------------------------------------
mcInit ==
  /\ part \in {"render", "clicks", "subscriptions", "ios"}
  /\ RenderInit /\ Init /\ SubInit /\ IosInit
  /\ part # "subscriptions" => config = <<>>

mcNext ==
  \/ /\ part = "render" /\ RenderNext
     /\ UNCHANGED <<part, vars, subVars, iosVars>>
  \/ /\ part = "clicks" /\ Next
     /\ UNCHANGED <<part, renderVars, subVars, iosVars>>
  \/ /\ part = "subscriptions" /\ SubNext
     /\ UNCHANGED <<part, renderVars, vars, iosVars>>
  \/ /\ part = "ios" /\ IosNext
     /\ UNCHANGED <<part, renderVars, vars, subVars>>

mcVars == <<part, renderVars, vars, subVars, iosVars>>
mcSpec == mcInit /\ [][mcNext]_mcVars /\ RenderFairness

-----------------------------------------------------------------------------
(* The types of all four. *)
TypesOK == TypeOK /\ RenderTypeOK /\ SubTypeOK /\ IosTypeOK
=============================================================================
