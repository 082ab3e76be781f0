---------------------------- MODULE SeriesListing ----------------------------
(***************************************************************************)
(* How a series comes to be traded: OptionSeriesRegistry lists it,         *)
(* VenueRegistry routes it to an order book (external: anybody makes       *)
(* books), and two pages of the web app lead there: the market builder     *)
(* (pages/NewMarket.tsx), which takes oracle and risk settings over from   *)
(* the nearest series, and the admin page (pages/Admin.tsx, roles.ts).     *)
(* One product; a series is the record of its terms.                       *)
(***************************************************************************)
EXTENDS Integers, FiniteSets

CONSTANTS
  Strikes, Expiries,     \* that may be typed or asked for
  MinStrike, MaxStrike, MinTime, MaxTime,  \* bounds of the product
  ListingConfigs, RiskIds, \* settlement configurations and risk sets
  ContractSizes,         \* what an option may cover
  MaxPerGroup,
  MaxListed, MaxSteps    \* bounds: series, steps of the chain

ASSUME ListingAssumption ==
  /\ MinStrike \in Nat /\ MaxStrike \in Nat /\ MinTime \in Nat \ {0} /\ MaxTime \in Nat
  /\ MaxPerGroup \in Nat \ {0} /\ Expiries \subseteq Nat

VARIABLES
  hat,      \* the role of the wallet that uses the pages
  rules,    \* asset, product, pause, close-only, configurations, risk set, adapter
  listed,   \* series, with all terms
  groups,   \* [group -> series in it], for groups that exist
  markets,  \* [series -> [base, quote, status]], for those that have one
  clock,
  seen,     \* what the pages read of it
  verdict,  \* the last button: why it was refused and whether the page was current
  steps

listingVars == <<hat, rules, listed, groups, markets, clock, seen, verdict, steps>>

Hats == {"governance", "guardian", "seriesCreator", "venueAdmin", "nobody"}
Kinds == {"call", "put"}
NoVerdict == [button |-> "none"]

Terms == [kind : Kinds, strike : Strikes, expiry : Expiries, config : ListingConfigs, risk : RiskIds]

\* computeSeriesId: every term but the risk set; one size and surface here.
SeriesId(s) == [kind |-> s.kind, strike |-> s.strike, expiry |-> s.expiry, config |-> s.config]

GroupId(s) == [expiry |-> s.expiry, config |-> s.config]

Visible(r) == [product |-> r.product, closeOnly |-> r.closeOnly, adapter |-> r.adapter]

ListingInit ==
  /\ hat \in Hats
  /\ rules = [asset |-> TRUE, product |-> "ENABLED", paused |-> FALSE, closeOnly |-> FALSE,
              usable |-> ListingConfigs, riskSet |-> CHOOSE r \in RiskIds : TRUE, adapter |-> "disabled"]
  /\ \E s \in Terms : /\ s.risk = rules.riskSet /\ s.kind = "call" /\ s.strike = MinStrike
                      /\ s.expiry \in MinTime..MaxTime /\ s.config = CHOOSE c \in ListingConfigs : TRUE
                      /\ listed = {s} /\ groups = [g \in {GroupId(s)} |-> {s}]
  /\ markets = <<>> /\ clock = 0
  /\ seen = [listed |-> {}, rules |-> [Visible(rules) EXCEPT !.product = "DISABLED"], markets |-> <<>>, clock |-> 0]
  /\ verdict = NoVerdict /\ steps = 0

-----------------------------------------------------------------------------
(* The contracts: why a call of `who' would revert                         *)

Since(c, reason) == IF c THEN {reason} ELSE {}

\* createSeries.
CreateRefused(who, s) ==
  Since(who # "seriesCreator", "NotAuthorized") \cup Since(rules.paused, "ActionPaused")
    \cup Since(rules.product # "ENABLED", "ProductNotEnabled") \cup Since(~rules.asset, "AssetNotApproved")
    \cup Since(s.strike \notin MinStrike..MaxStrike, "Strike")
    \cup Since(s.expiry \notin clock + MinTime..clock + MaxTime, "Expiry")
    \cup Since(s.config \notin rules.usable, "SettlementConfig") \cup Since(s.risk # rules.riskSet, "RiskSet")
    \cup Since(\E t \in listed : SeriesId(t) = SeriesId(s), "SeriesExists")
    \cup Since(GroupId(s) \in DOMAIN groups /\ Cardinality(groups[GroupId(s)]) >= MaxPerGroup, "GroupFull")

Store(s) ==
  LET g == GroupId(s) IN
  /\ listed' = listed \cup {s}
  /\ groups' = [h \in DOMAIN groups \cup {g} |->
                  (IF h \in DOMAIN groups THEN groups[h] ELSE {}) \cup (IF h = g THEN {s} ELSE {})]

\* Mutant: the base of the book is not compared with the wrapper.
BookFits_AnyBase(book, s) == book.quote = "asset"

\* marketTokens of the adapter, against the series.
BookFits(book, s) == book.base = s /\ book.quote = "asset"

RegisterRefused(who, s, book) ==
  Since(who # "venueAdmin", "NotAuthorized") \cup Since(rules.adapter = "none", "InvalidAdapter")
    \cup Since(s \in DOMAIN markets, "MarketExists") \cup Since(s \notin listed, "UnknownSeries")
    \cup Since(clock >= s.expiry, "MarketExpired") \cup Since(~BookFits(book, s), "MarketTokens")

StatusRefused(who, s) ==
  Since(who # "venueAdmin", "NotAuthorized") \cup Since(s \notin DOMAIN markets, "UnknownMarket")

\* Turning on is governance's, turning off others' as well.
SwitchRefused(who, on, others) == Since(who # "governance" /\ (on \/ who \notin others), "NotAuthorized")

AdapterRefused(who, on) ==
  SwitchRefused(who, on, {"guardian", "venueAdmin"}) \cup Since(rules.adapter = "none", "InvalidAdapter")
EnabledRefused(who, on) == SwitchRefused(who, on, {"guardian"}) \cup Since(rules.product = "NONE", "ProductNotEnabled")
CloseOnlyRefused(who, on) == SwitchRefused(who, ~on, {"guardian"})

\* getMarket and tradableMarket.
StatusOf(s) == IF clock >= s.expiry THEN "EXPIRED" ELSE markets[s].status
Tradable(s) == rules.adapter = "enabled" /\ s \in DOMAIN markets /\ StatusOf(s) = "ACTIVE"

-----------------------------------------------------------------------------
(* The pages                                                               *)

ReadPages ==
  LET now == [listed |-> listed, rules |-> Visible(rules), markets |-> [s \in DOMAIN markets |-> StatusOf(s)], clock |-> clock]
  IN /\ seen # now /\ seen' = now /\ verdict' = NoVerdict
     /\ UNCHANGED <<hat, rules, listed, groups, markets, clock, steps>>

SeenNow == seen = [listed |-> listed, rules |-> Visible(rules),
                   markets |-> [s \in DOMAIN markets |-> StatusOf(s)], clock |-> clock]

\* The settings come from a sibling of the same kind whose strike is nearest.
Distance(x, y) == IF x > y THEN x - y ELSE y - x
Siblings(kind) == {s \in seen.listed : s.kind = kind}
Nearest(kind, strike) ==
  {s \in Siblings(kind) : \A t \in Siblings(kind) : Distance(s.strike, strike) <= Distance(t.strike, strike)}

InBounds(s) == /\ s.strike \in MinStrike..MaxStrike
               /\ s.expiry > seen.clock + MinTime /\ s.expiry <= seen.clock + MaxTime

\* ready, and the button only for a wallet that may list.
ListOffered(s) ==
  /\ hat = "seriesCreator" /\ seen.rules.product = "ENABLED" /\ InBounds(s)
  /\ ~\E t \in seen.listed : SeriesId(t) = SeriesId(s)

\* The page asks for options on one unit, whatever the product's cover.
PageSize == 1

Stepping == steps < MaxSteps /\ steps' = steps + 1

Judged(button, refused) == verdict' = [button |-> button, refused |-> refused, current |-> SeenNow]

ListSeries(s) ==
  LET refused == CreateRefused(hat, s) \cup Since(PageSize \notin ContractSizes, "ContractSize")
  IN /\ Stepping /\ ListOffered(s) /\ Cardinality(listed) < MaxListed
     /\ IF refused = {} THEN Store(s) ELSE UNCHANGED <<listed, groups>>
     /\ Judged("list", refused)
     /\ UNCHANGED <<hat, rules, markets, clock, seen>>

PressList == \E kind \in Kinds, strike \in Strikes, expiry \in Expiries : \E near \in Nearest(kind, strike) :
  ListSeries([kind |-> kind, strike |-> strike, expiry |-> expiry, config |-> near.config, risk |-> near.risk])

\* roles.ts, Admin.tsx: governance passes for a venue admin.
IsVenueAdmin == hat \in {"venueAdmin", "governance"}
CanDisable == hat \in {"venueAdmin", "governance", "guardian"}

MayEnable == hat = "governance"

Admin(button, offered, refused, then, market) ==
  /\ Stepping /\ offered /\ Judged(button, refused)
  /\ rules' = IF refused = {} THEN then ELSE rules
  /\ markets' = IF refused = {} THEN market ELSE markets
  /\ UNCHANGED <<hat, listed, groups, clock, seen>>

PressAdapter == \E on \in BOOLEAN :
  Admin("adapter", IF on THEN MayEnable /\ seen.rules.adapter # "enabled"
                   ELSE CanDisable /\ seen.rules.adapter # "disabled",
        AdapterRefused(hat, on), [rules EXCEPT !.adapter = IF on THEN "enabled" ELSE "disabled"], markets)

PressEnabled ==
  LET on == seen.rules.product # "ENABLED" IN
  Admin("product", hat = "governance", EnabledRefused(hat, on),
        [rules EXCEPT !.product = IF on THEN "ENABLED" ELSE "DISABLED"], markets)

PressCloseOnly ==
  LET on == ~seen.rules.closeOnly IN
  Admin("closeOnly", CanDisable, CloseOnlyRefused(hat, on), [rules EXCEPT !.closeOnly = on], markets)

PressStatus == \E s \in seen.listed, to \in {"ACTIVE", "INACTIVE"} :
  Admin("status", IsVenueAdmin /\ s \in DOMAIN seen.markets /\ (to = "INACTIVE" <=> seen.markets[s] = "ACTIVE"),
        StatusRefused(hat, s), rules, [t \in DOMAIN markets |-> IF t = s THEN [markets[t] EXCEPT !.status = to] ELSE markets[t]])

\* Any book: of this series or another, in the asset or in something else.
BooksMade == [base : listed, quote : {"asset", "other"}]

PressRegister == \E s \in seen.listed, book \in BooksMade :
  Admin("register", IsVenueAdmin /\ s \notin DOMAIN seen.markets, RegisterRefused(hat, s, book), rules,
        [t \in DOMAIN markets \cup {s} |-> IF t = s THEN [base |-> book.base, quote |-> book.quote, status |-> "ACTIVE"]
                                           ELSE markets[t]])

-----------------------------------------------------------------------------
(* Everybody else                                                          *)

Elsewhere == Stepping /\ verdict' = NoVerdict /\ UNCHANGED <<hat, seen>>

OthersList == \E s \in Terms :
  /\ Elsewhere /\ Cardinality(listed) < MaxListed /\ CreateRefused("seriesCreator", s) = {}
  /\ Store(s) /\ UNCHANGED <<rules, markets, clock>>

\* approveProduct also turns a disabled product on.
Govern == /\ Elsewhere
          /\ rules' \in {[rules EXCEPT !.asset = ~@], [rules EXCEPT !.product = "ENABLED"],
                         [rules EXCEPT !.paused = ~@], [rules EXCEPT !.adapter = "enabled"],
                         [rules EXCEPT !.closeOnly = FALSE]}
                        \cup {[rules EXCEPT !.riskSet = r] : r \in RiskIds}
                        \cup {[rules EXCEPT !.usable = @ \ {c}] : c \in ListingConfigs}
          /\ rules' # rules
          /\ UNCHANGED <<listed, groups, markets, clock>>

OthersRegister == \E s \in listed, book \in BooksMade :
  /\ Elsewhere /\ RegisterRefused("venueAdmin", s, book) = {}
  /\ markets' = [t \in DOMAIN markets \cup {s} |-> IF t = s THEN [base |-> book.base, quote |-> book.quote, status |-> "ACTIVE"]
                                                   ELSE markets[t]]
  /\ UNCHANGED <<rules, listed, groups, clock>>

TimePasses == /\ Elsewhere /\ clock' = clock + 1 /\ UNCHANGED <<rules, listed, groups, markets>>

ListingNext == \/ ReadPages \/ PressList \/ PressAdapter \/ PressEnabled \/ PressCloseOnly \/ PressStatus \/ PressRegister
               \/ OthersList \/ Govern \/ OthersRegister \/ TimePasses

ListingSpec == ListingInit /\ [][ListingNext]_listingVars

-----------------------------------------------------------------------------
\* INVARIANT.  Options are fungible and groups settle as one: no two series have
\* the same economic terms, whatever risk sets they were listed with, and every
\* series is in the one group of its expiry and settlement configuration, which
\* never holds more than the maximum.
RegistryExact ==
  /\ \A s, t \in listed : s # t => <<s.kind, s.strike, s.expiry, s.config>> # <<t.kind, t.strike, t.expiry, t.config>>
  /\ UNION {groups[g] : g \in DOMAIN groups} = listed
  /\ \A g \in DOMAIN groups : /\ Cardinality(groups[g]) \in 1..MaxPerGroup
                              /\ \A s \in groups[g] : <<s.expiry, s.config>> = <<g.expiry, g.config>>

\* INVARIANT.  What the router trades is the listed option against its settlement
\* asset, before its expiry, whoever made the book and in whatever order series,
\* books and adapters came.
RoutesMatch ==
  \A s \in DOMAIN markets : Tradable(s) =>
    s \in listed /\ markets[s].base = s /\ markets[s].quote = "asset" /\ clock < s.expiry

\* INVARIANT.  A market the builder offers to list on a page that is up to date is
\* listed, at the bounds of strike and time too, if options of the product may
\* cover one unit: but for pauses and revocations, settings of the sibling that no
\* longer serve, and a full group, which the page does not read.
BuilderIsAccepted ==
  PageSize \in ContractSizes /\ verdict # NoVerdict /\ verdict.current /\ verdict.button = "list" =>
    verdict.refused \subseteq {"ActionPaused", "AssetNotApproved", "SettlementConfig", "RiskSet", "GroupFull"}

\* Where the admin page and the contracts differ: the page takes governance for a
\* venue admin, and lets guardians and venue admins switch close-only either way.
RolesDiffer(button) == \/ hat = "governance" /\ button \in {"status", "register"}
                       \/ hat \in {"guardian", "venueAdmin"} /\ button = "closeOnly"

\* INVARIANT.  Every other button of the admin page is accepted if the page is up
\* to date; of a book it cannot tell the tokens, nor that its series has ended.
AdminIsAccepted ==
  verdict # NoVerdict /\ verdict.current /\ ~RolesDiffer(verdict.button) /\ verdict.button # "list" =>
    verdict.refused \subseteq {"MarketTokens", "MarketExpired"}

\* The registries hold what may be traded, and the pages that fill them know it.
ListingSound == RegistryExact /\ RoutesMatch /\ BuilderIsAccepted /\ AdminIsAccepted

=============================================================================
