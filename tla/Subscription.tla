---------------------------- MODULE Subscription ----------------------------
(***************************************************************************)
(* Subscriptions: which provider a request gets its script from.  A loop   *)
(* fetches every three minutes, for each channel, its weight and the       *)
(* countries it is sold in, builds a traffic divider per country and       *)
(* publishes them all at once; a request takes the divider of its country  *)
(* and draws a provider from it.                                           *)
(***************************************************************************)
EXTENDS Integers, Sequences, FiniteSets

CONSTANTS
  Countries,
  Channels,   \* those addApp knows
  Configs,    \* what the other side may answer: sequences of entries
  Readers,    \* the requests for a script
  Draws,      \* how many equally distant numbers rand.Float64 may return
  MaxRounds   \* bound: how often the configuration is fetched

Entry == [channel : STRING, weight : Nat, switch : Int, countries : SUBSET Countries]

ASSUME SubscriptionAssumption ==
  /\ Countries # {} /\ Channels # {} /\ {"panic", "ErrNotCompiled"} \cap Channels = {}
  /\ Configs \subseteq Seq(Entry) /\ Configs # {}
  /\ Draws \in Nat \ {0} /\ MaxRounds \in Nat \ {0}

VARIABLES
  subCountry,  \* gSubControl.subCountry
  rounds,
  subReq,      \* request -> where it is and the divider it holds
  config       \* history: the configuration published last

subVars == <<subCountry, rounds, subReq, config>>

-----------------------------------------------------------------------------
(* util.Divider.  Weights are not divided by their sum: instead, a draw is *)
(* multiplied by it.                                                       *)

Divider == [sum : Nat, list : Seq([upTo : Nat, channel : Channels]), compiled : BOOLEAN]
NewDivider == [sum |-> 0, list |-> <<>>, compiled |-> FALSE]
Absent == [sum |-> 0, list |-> <<>>, compiled |-> TRUE]  \* the nil of a country nobody serves

(* Mutant: the weights before it are not added. *)
AddObjAlone(div, weight, channel) ==
  [div EXCEPT !.sum = @ + weight, !.list = Append(@, [upTo |-> weight, channel |-> channel])]

AddObj(div, weight, channel) ==
  LET lastWeight == IF div.list = <<>> THEN 0 ELSE div.list[Len(div.list)].upTo
  IN  [div EXCEPT !.sum = @ + weight,
                  !.list = Append(@, [upTo |-> lastWeight + weight, channel |-> channel])]

Compile(div) == IF div.list = <<>> THEN div ELSE [div EXCEPT !.compiled = TRUE]

(* The index of the first weight that is not below the draw r / Draws, or  *)
(* one past the last: so it is for every draw when the sum is zero and the *)
(* weights are divided by it.                                              *)
SearchFloat64s(div, r) ==
  LET Reached == {i \in DOMAIN div.list : div.sum > 0 /\ div.list[i].upTo * Draws >= r * div.sum}
  IN  IF Reached = {} THEN Len(div.list) + 1 ELSE CHOOSE i \in Reached : \A j \in Reached : i <= j

GetObj(div, r) ==
  LET i == SearchFloat64s(div, r)
  IN  IF ~div.compiled THEN "ErrNotCompiled"
      ELSE IF i \in DOMAIN div.list THEN div.list[i].channel
      ELSE "panic"  \* index out of range

-----------------------------------------------------------------------------
(* The loop. *)

(* Mutant: a channel nobody knows is added like the others. *)
addAppOfAny(sub, div) == AddObj(div, sub.weight, sub.channel)

addApp(sub, div) == IF sub.channel \in Channels THEN AddObj(div, sub.weight, sub.channel) ELSE div

Open(sub, c) == sub.switch = 1 /\ c \in sub.countries

(* The divider of c after so many entries of the configuration.            *)
Filled(cfg, c) ==
  LET filled[n \in 0..Len(cfg)] ==
        IF n = 0 THEN Absent
        ELSE IF ~Open(cfg[n], c) THEN filled[n - 1]
        ELSE addApp(cfg[n], IF filled[n - 1] = Absent THEN NewDivider ELSE filled[n - 1])
  IN  filled

Build(cfg) == [c \in Countries |-> Compile(Filled(cfg, c)[Len(cfg)])]

Served == [at : {"idle", "drawing", "nothing", "panic", "served"}, country : Countries, div : Divider,
           config : Configs, channel : Channels]

SubTypeOK ==
  /\ subCountry \in [Countries -> Divider] /\ rounds \in 1..MaxRounds /\ config \in Configs
  /\ subReq \in [Readers -> Served]

(* The first configuration is fetched before the service listens, which it *)
(* does not do without one.                                                *)
SubInit ==
  /\ \E cfg \in Configs : config = cfg /\ subCountry = Build(cfg)
  /\ rounds = 1
  /\ subReq = [r \in Readers |->
       [at |-> "idle", country |-> CHOOSE c \in Countries : TRUE, div |-> Absent, config |-> config,
        channel |-> CHOOSE ch \in Channels : TRUE]]

(* A round that fails, or whose status is not 200, leaves what there is. *)
Update(cfg) ==
  /\ rounds < MaxRounds
  /\ rounds' = rounds + 1
  /\ subCountry' = Build(cfg) /\ config' = cfg
  /\ UNCHANGED subReq

-----------------------------------------------------------------------------
(* GetMoreSubJs. *)

getSubCountry(r, c) ==
  /\ subReq[r].at = "idle"
  /\ subReq' = [subReq EXCEPT ![r].at = IF subCountry[c] = Absent THEN "nothing" ELSE "drawing",
                              ![r].country = c, ![r].div = subCountry[c], ![r].config = config]
  /\ UNCHANGED <<subCountry, rounds, config>>

Draw(r) ==
  /\ subReq[r].at = "drawing"
  /\ \E x \in 0..(Draws - 1) :
       LET obj == GetObj(subReq[r].div, x)
       IN  subReq' = IF obj \in Channels THEN [subReq EXCEPT ![r].at = "served", ![r].channel = obj]
                     ELSE [subReq EXCEPT ![r].at = IF obj = "panic" THEN obj ELSE "nothing"]
  /\ UNCHANGED <<subCountry, rounds, config>>

SubNext ==
  \/ \E cfg \in Configs : Update(cfg)
  \/ \E r \in Readers : Draw(r) \/ \E c \in Countries : getSubCountry(r, c)

SubSpec == SubInit /\ [][SubNext]_subVars

-----------------------------------------------------------------------------
(* Properties. *)

(* What is sold in c, as positions in the configuration, what is sold of   *)
(* one channel, and what such positions weigh together.                    *)
Sold(cfg, c) == {i \in DOMAIN cfg : Open(cfg[i], c) /\ cfg[i].channel \in Channels}
SoldOf(cfg, c, ch) == {i \in Sold(cfg, c) : cfg[i].channel = ch}
WeightUpTo(cfg, S) ==
  LET sum[n \in 0..Len(cfg)] ==
        IF n = 0 THEN 0 ELSE sum[n - 1] + (IF n \in S THEN cfg[n].weight ELSE 0)
  IN  sum
Weight(cfg, S) == WeightUpTo(cfg, S)[Len(cfg)]

(* Of all draws a channel gets its part by weight, give or take one draw   *)
(* for each of its entries.                                                *)
Share(div, ch) == Cardinality({x \in 0..(Draws - 1) : GetObj(div, x) = ch})
SharesByWeight ==
  \A c \in Countries, ch \in Channels :
    LET sum == Weight(config, Sold(config, c))
        exact == Draws * Weight(config, SoldOf(config, c, ch))
        entries == Cardinality(SoldOf(config, c, ch))
    IN  sum > 0 =>
          /\ Share(subCountry[c], ch) * sum <= exact + entries * sum
          /\ Share(subCountry[c], ch) * sum >= exact - entries * sum

(* A request is served by a channel that one published configuration sells *)
(* in its country, is served nothing only if that one sells nothing there, *)
(* and panics only if what it sells has no weight.                         *)
ServedAsConfigured ==
  \A r \in Readers :
    LET sold == Sold(subReq[r].config, subReq[r].country)
    IN  CASE subReq[r].at = "served" -> \E i \in sold : subReq[r].config[i].channel = subReq[r].channel
          [] subReq[r].at = "nothing" -> sold = {}
          [] subReq[r].at = "panic" -> sold # {} /\ Weight(subReq[r].config, sold) = 0
          [] OTHER -> TRUE

(* Both: what the dividers promise, and what becomes of the promise while  *)
(* the dividers are replaced under the requests (Divider, GetMoreSubJs).   *)
ProvidersByWeight == SharesByWeight /\ ServedAsConfigured
=============================================================================
