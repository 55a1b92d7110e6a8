---------------------------- MODULE MCStorefront ----------------------------
(* Five systems that share no state, each checked by itself: in a behaviour  *)
(* one of them moves and the others stay as they were.  asked, topic and     *)
(* overlap are fixed too: what is read, which requests there are and whether *)
(* they overlap.                                                             *)
EXTENDS Browse, SignIn, Visitors, Tickets, Content

CONSTANTS f, g, p, q, m, a

VARIABLES system, asked, topic, overlap

setting == <<system, asked, topic, overlap>>

MCRank == [x \in Rows |-> IF x > 2 THEN 1 ELSE 2]
MCFacet == [x \in Rows |-> IF x > 2 THEN f ELSE g]
MCTiers == <<{2}, {2, 3}, {1, 3}, Rows>>

Topics ==
  [codes |-> {"register", "verify", "login", "update"},
   races |-> {"register", "verify", "resend"},
   passwords |-> {"register", "login", "verify"},
   details |-> {"register", "google", "profile", "staff", "verify"},
   sessions |-> {"google", "refresh", "logout", "active"}]

Filters == [filters |-> TRUE]
Asks(w) ==
  CASE w.at = "filters" -> Filters
    [] w.at \in {"ask", "cursor"} -> w.list
    [] w.at \in {"choose", "chosen"} -> w.advice

\* Who looks a shelf up first; for the others there is one shelf, which is active.
Shelved(what) == what = Filters \/ (what \in Listings /\ what.shelved)

\* Listings are read over three rows, cursors and choices over all of them.
FewListed == asked \in Listings => \A x \in Rows : x > 3 => row[x] = "future"

\* What is cached or chosen has no hidden rows: one that is not there yet, or no
\* more, is as one that is hidden; the first that is listed is there all
\* the time, and so is, of what is chosen and cached, the third.
Caching == {LoadAllProducts, YouMayAlsoLike, SubCategoryBased}
Steady ==
  asked \in Caching \cup Advices \cup {LoadOnSaleProducts} =>
    \A x \in Rows : \/ row[x] = "shown"
                    \/ /\ row[x] = "hidden" /\ (asked \in Listings => x > 1)
                       /\ asked \in Caching \cap Advices => x # 3
                    \/ asked \in Listings /\ x > 3

\* Whether a write is announced makes a difference for what is cached only; of
\* the listing of sales, which is cached too, nothing is claimed.  One row of a
\* sorted listing changes its place, and one product or the other is left out of
\* a choice that is cached.
Announces == asked \notin Caching => dirty' = 0
Moves == \A x \in Rows : rank'[x] # rank[x] => x = 3 /\ asked \in Sorted
Without(w) == asked \in Caching => w.without \in {{1}, {4}}

BrowseMoves ==
  /\ BrowseNext /\ FewListed' /\ Steady' /\ Announces /\ Moves
  /\ shelf' # shelf => Shelved(asked)
  /\ \A r \in Readers : reading[r].at = "rest" /\ reading'[r].at # "rest" =>
       Asks(reading'[r]) = asked /\ (asked \in Advices => Without(reading'[r]))

\* The requests of each topic; the details its hazards do not need are fixed.
Has(r, field) == field \in DOMAIN r
Fits(r) ==
  /\ r.op \in Topics[topic]
  /\ topic = "codes" => ~(r.op = "login" /\ r.password # "none")
  /\ Has(r, "guess") => r.guess \in {0, Len(code), Nobody}
  /\ topic \in {"passwords", "details"} /\ Has(r, "guess") => r.guess # 0
  /\ topic # "details" => /\ Has(r, "email") => r.email = IF r.op = "google" THEN m ELSE Nobody
                          /\ Has(r, "phone") => r.phone = p
                          /\ Has(r, "to") => r.to = IF r.op = "update" THEN q ELSE p

SignInMoves ==
  /\ \/ SignInStep
     \/ \E w \in Clerks : serving[w] = Free /\ \E r \in Asked : Fits(r) /\ Receives(w, r)
  /\ overlap \/ \A v, w \in Clerks : serving'[v] # Free /\ serving'[w] # Free => v = w
  /\ topic # "sessions" => Len(token') <= (IF topic = "codes" THEN 1 ELSE 2)
  /\ topic \in {"details", "races"} => Len(code') <= 2
  /\ topic # "passwords" => \A to \in Contacts : missed'[to] = 0
  /\ topic \in {"passwords", "details"} => \A i \in DOMAIN code : code'[i].age = 0

VisitorsMoves ==
  /\ VisitorsNext
  /\ \A v, w \in Servers : does'[v] # Rests /\ does'[w] # Rests => v = w
  /\ \A w \in Servers : does[w] = Rests \/ does' # does
  /\ topic = "orders" => view' = view
  /\ topic = "views" => owns' = owns /\ bought' = bought
  /\ \A u \in Customers \ {a} : owns'[u] = {}

TicketsMoves ==
  TicketsNext /\ \A v, w \in Agents : acts'[v] # Still /\ acts'[w] # Still => v = w

Edited == {w \in Editors : editing[w] # Unset}
ContentMoves ==
  /\ ContentNext
  /\ overlap \/ ((\A v, w \in Edited' : v = w) /\ (refers' = refers \/ line' # line \/ Edited = {}))
  /\ \A x \in Lines : line'[x] # Unset => line'[x].place <= (IF table = "seasonals" THEN 1 ELSE 2)
  /\ table = "seasonals" => \A w \in Edited' \ Edited : editing'[w].r.place = Unset

MCInit ==
  /\ system \in {"browse", "signIn", "visitors", "tickets", "content"}
  /\ asked \in IF system = "browse" THEN Listings \cup Advices \cup {PartnerList, PartnerLowStock, Filters}
               ELSE {Filters}
  /\ topic \in CASE system = "signIn" -> DOMAIN Topics
                 [] system = "visitors" -> {"orders", "views"}
                 [] OTHER -> {"all"}
  /\ rank = MCRank /\ BrowseInit /\ FewListed /\ (shelf \/ (system = "browse" /\ Shelved(asked)))
  /\ IF system = "browse" THEN Steady ELSE row = [x \in Rows |-> "future"]
  /\ SignInInit /\ VisitorsInit
  /\ TicketsInit /\ (system # "tickets" => desk = {})
  /\ ContentInit /\ (system # "content" => table = "tags")
  /\ overlap \in CASE system = "signIn" -> {topic \in {"races", "sessions"}}
                   [] system = "content" /\ table \in {"terms", "blogs", "flashSales", "urgencyBanners"} -> BOOLEAN
                   [] OTHER -> {FALSE}

MCNext ==
  /\ UNCHANGED setting
  /\ \/ /\ system = "browse" /\ BrowseMoves
        /\ UNCHANGED <<signInVars, visitorsVars, ticketsVars, contentVars>>
     \/ /\ system = "signIn" /\ SignInMoves
        /\ UNCHANGED <<browseVars, visitorsVars, ticketsVars, contentVars>>
     \/ /\ system = "visitors" /\ VisitorsMoves
        /\ UNCHANGED <<browseVars, signInVars, ticketsVars, contentVars>>
     \/ /\ system = "tickets" /\ TicketsMoves
        /\ UNCHANGED <<browseVars, signInVars, visitorsVars, contentVars>>
     \/ /\ system = "content" /\ ContentMoves
        /\ UNCHANGED <<browseVars, signInVars, visitorsVars, ticketsVars>>

MCSpec == MCInit /\ [][MCNext]_<<browseVars, signInVars, visitorsVars, ticketsVars, contentVars, setting>>

\* Every listing in every order: a walk through its pages meets each row once,
\* and a cursor leaves out no row that was there all the time.
WalksAreExact == QuietWalkIsExact /\ CursorMissesNothing

\* However requests race, a code is compared and sent, and a password tried, no
\* more often than the limits say; of the last two, one request at a time.
LimitsHoldAlone == ChecksWithinCap /\ (overlap \/ (CodesWithinCap /\ FailuresWithinCap))

\* What a visitor bought and looked at, one request at a time: the orders of a
\* device go to one account, and giving its views to it never collides.
GuestDataAlone == GuestOrdersGoToOne /\ MergeNeverCollides

\* One request at a time, a verified customer loses a phone or an email to
\* nobody else's request, and an order keeps the customer it has.
CustomersKeepTheirs ==
  /\ [][overlap \/ VerifiedKeepsDetails]_signInVars
  /\ [][OrdersKeepCustomer]_visitorsVars

\* One request at a time, a customer's reply is in no ticket that counts as done.
RepliesReopenAlone == RepliesReopen

\* Campaigns run forward, and with one request at a time rows are sound.
ContentIsSoundAlone == CampaignsRunForward /\ (overlap \/ RowsAreSound)
=============================================================================
