------------------------------- MODULE Browse -------------------------------
(***************************************************************************)
(* Reading the catalogue and the books: the listings that are read page by *)
(* page (src/product, src/category, src/order, src/blog, src/refund and    *)
(* others), the partner's stock list, which is read by cursor              *)
(* (src/partner-inventory), and the products chosen for a visitor, which   *)
(* are filled from nearer and then from farther ones.  Every query is a    *)
(* step of its own: a transaction at READ COMMITTED does not stop a row    *)
(* from changing between two of them.  Of a row it is said where it sorts, *)
(* which facet finds it and whether the listing's filter lets it through   *)
(* ("shown") or not ("hidden": inactive, out of stock, of another status). *)
(* Some answers are cached.  A write that is announced clears the cache    *)
(* soon afterwards (the products' own writes, and emitStockUpdated); one   *)
(* that is not leaves in it what was read before, until it expires.        *)
(***************************************************************************)
EXTENDS Naturals, FiniteSets, SequencesExt

CONSTANTS
  Rows,             \* ids, in the order they will be given
  Ranks,            \* values of the column a listing is sorted by
  Facet,            \* the material or colour a filter finds a row by
  Tiers,            \* the rows in the same subcategory as a source, in the
                    \* same category, ..., and last all of them
  PageSize,         \* rows of a page
  Enough, Full,     \* choosing stops with Enough rows and never exceeds Full
  Spare,            \* rows read in excess, to shuffle
  MaxDirty,         \* bound: writers at once between their commit and the clear
  Readers,          \* readers in the middle of something
  None              \* no facet, no cursor, not read

ASSUME BrowseAssumption ==
  /\ Rows \subseteq Nat /\ Rows # {} /\ IsFiniteSet(Rows)
  /\ Ranks \subseteq Nat
  /\ Tiers \in Seq(SUBSET Rows) /\ Len(Tiers) > 1 /\ Last(Tiers) = Rows
  /\ {PageSize, Enough, Full, Spare, MaxDirty} \subseteq Nat
  /\ PageSize > 0 /\ Enough <= Full
  /\ None \notin Rows \cup {Facet[x] : x \in Rows} \cup Nat \cup Seq(Rows)
  /\ None \notin [rows : Seq(Rows), total : Nat]

VARIABLES
  row,              \* what has become of each row
  rank,             \* where it sorts; rows may tie
  shelf,            \* whether the series or subcategory of a page is active
  kept,             \* the answers the cache keeps, by page
  advised,          \* and the choices it keeps
  dirty,            \* writers that have committed and not cleared the cache yet
  drift,            \* something in the cache, or being loaded for it, may be
                    \* older than a change that was not announced
  reading           \* what each reader is in the middle of

browseVars == <<row, rank, shelf, kept, advised, dirty, drift, reading>>
cache == <<kept, advised>>

States == {"future", "shown", "hidden", "gone"}
Existing == {x \in Rows : row[x] \in {"shown", "hidden"}}
Shown == {x \in Rows : row[x] = "shown"}
Pages == 1 .. (Cardinality(Rows) + PageSize - 1) \div PageSize
NotReading == [at |-> "rest"]

-----------------------------------------------------------------------------
(* The listings: whether their order ends with the id, whether the filter   *)
(* lets hidden rows through, whether the answer is cached, whether a shelf  *)
(* is looked up first, and in which order rows and count are read.          *)

Listing(tied, all, cached, shelved, reads) ==
  [tied |-> tied, all |-> all, cached |-> cached, shelved |-> shelved, reads |-> reads]

InTurn == {"rows first"}
CountFirst == {"count first"}
AtOnce == {"rows first", "count first"}

LoadAllProducts == Listing(FALSE, FALSE, TRUE, FALSE, InTurn)

GetAdminProducts == Listing(FALSE, TRUE, FALSE, FALSE, InTurn)
GetSeriesWiseProducts == Listing(TRUE, FALSE, FALSE, TRUE, InTurn)
GetSubCategoryWiseProducts == Listing(TRUE, FALSE, FALSE, TRUE, InTurn)
LoadOnSaleProducts == Listing(TRUE, FALSE, TRUE, FALSE, AtOnce)
GetAllOrders == Listing(FALSE, FALSE, FALSE, FALSE, InTurn)
GetGuestOrders == Listing(TRUE, FALSE, FALSE, FALSE, InTurn)
GetInventory == Listing(FALSE, TRUE, FALSE, FALSE, AtOnce)
GetWishlist == Listing(TRUE, FALSE, FALSE, FALSE, InTurn)
GetAllBlogs == Listing(TRUE, FALSE, FALSE, FALSE, AtOnce)
GetAllBlogsAdmin == Listing(TRUE, TRUE, FALSE, FALSE, AtOnce)
ListTickets == Listing(TRUE, FALSE, FALSE, FALSE, InTurn)
ListContactMessages == Listing(TRUE, FALSE, FALSE, FALSE, InTurn)
ListReturnRequests == Listing(TRUE, FALSE, FALSE, FALSE, InTurn)
ListRefunds == Listing(TRUE, FALSE, FALSE, FALSE, InTurn)
GetShipments == Listing(TRUE, FALSE, FALSE, FALSE, InTurn)
GetUsers == Listing(TRUE, FALSE, FALSE, FALSE, AtOnce)
GetLogs == Listing(TRUE, FALSE, FALSE, FALSE, CountFirst)

Listings ==
  {LoadAllProducts, GetAdminProducts, GetSeriesWiseProducts, GetSubCategoryWiseProducts,
   LoadOnSaleProducts, GetAllOrders, GetGuestOrders, GetInventory, GetWishlist,
   GetAllBlogs, GetAllBlogsAdmin, ListTickets, ListContactMessages, ListReturnRequests,
   ListRefunds, GetShipments, GetUsers, GetLogs}

Matching(list, facet) ==
  {x \in IF list.all THEN Existing ELSE Shown :
     /\ list.shelved => shelf
     /\ facet = None \/ Facet[x] = facet}

AllOrders(M, tied) ==
  {s \in SetToSeqs(M) : \A i, j \in DOMAIN s : i < j =>
     \/ rank[s[i]] < rank[s[j]]
     \/ rank[s[i]] = rank[s[j]] /\ (tied \/ s[i] < s[j])}

Lesser(a, b) == IF a < b THEN a ELSE b
Upto(s, n) == SubSeq(s, 1, Lesser(n, Len(s)))

\* skip: (page - 1) * limit, take: limit
Page(s, n) == SubSeq(s, (n - 1) * PageSize + 1, Lesser(n * PageSize, Len(s)))
TotalPages(total) == (total + PageSize - 1) \div PageSize

(* Stock lists for a partner: all sizes by id, or those low on stock.       *)
PartnerList == [all |-> TRUE]
PartnerLowStock == [all |-> FALSE]
Stock(list, new) == {x \in Rows : new[x] = "shown" \/ (list.all /\ new[x] = "hidden")}

InOrder(S) == CHOOSE s \in SetToSeqs(S) : \A i, j \in DOMAIN s : i < j => s[i] < s[j]

\* take: limit + 1, from the row of the cursor on, which is skipped.
Window(list, cursor) ==
  LET ahead == InOrder({x \in Stock(list, row) : cursor = None \/ x >= cursor})
  IN CASE cursor = None        -> Upto(ahead, PageSize + 1)
       [] cursor \in Existing  -> Upto(SubSeq(ahead, 2, Len(ahead)), PageSize + 1)
       [] OTHER                -> <<>>

\* Fault variant: the cursor is the row that told there is more.
NextCursor_OneAhead(window) == IF Len(window) > PageSize THEN Last(window) ELSE None

NextCursor(window) == IF Len(window) > PageSize THEN window[PageSize] ELSE None

(* Choices of products: the tiers that are asked in turn while there are    *)
(* fewer than enough, how many are read in excess, and whether it is cached.*)
Advice(tiers, enough, spare, cached) ==
  [tiers |-> tiers, enough |-> enough, spare |-> spare, cached |-> cached]
Farthest == Len(Tiers)

YouMayAlsoLike == Advice([k \in 1 .. Farthest |-> k], Enough, 0, TRUE)
Recommended == Advice(<<1, 2, Farthest>>, Full, Spare, FALSE)
RecommendedToStranger == Advice(<<Farthest>>, Full, Spare, FALSE)
SubCategoryBased == Advice(<<1>>, Full, 0, TRUE)
Advices == {YouMayAlsoLike, Recommended, RecommendedToStranger, SubCategoryBased}

Best(C, n) ==
  {B \in SUBSET C : /\ Cardinality(B) = Lesser(n, Cardinality(C))
                    /\ \A x \in B, y \in C \ B : rank[x] <= rank[y]}
Picks(C, n, spare) ==
  {S \in SUBSET C : /\ Cardinality(S) = Lesser(n, Cardinality(C))
                    /\ \E B \in Best(C, n + spare) : S \subseteq B}

BrowseTypeOK ==
  /\ row \in [Rows -> States] /\ rank \in [Rows -> Ranks]
  /\ shelf \in BOOLEAN /\ dirty \in 0 .. MaxDirty /\ drift \in BOOLEAN
  /\ \A key \in DOMAIN kept : kept[key] = None \/ kept[key].total <= Cardinality(Rows)
  /\ \A e \in advised : e.advice \in Advices /\ e.without \cup e.chosen \subseteq Rows
  /\ \A r \in Readers : reading[r].at \in
       {"rest", "filters", "ask", "load", "done", "cursor", "end", "choose", "found", "chosen"}

BrowseInit ==
  /\ row \in [Rows -> States \ {"gone"}] /\ rank \in [Rows -> Ranks]
  /\ \A x, y \in Rows : x < y /\ row[x] = "future" => row[y] = "future"
  /\ shelf \in BOOLEAN
  /\ kept = [key \in {l \in Listings : l.cached} \X Pages |-> None]
  /\ advised = {} /\ dirty = 0 /\ drift = FALSE
  /\ reading = [r \in Readers |-> NotReading]

-----------------------------------------------------------------------------
(* Writers.  What a reader is in the middle of is not quiet any more, and   *)
(* rows that leave a partner's list have not stayed in it.                  *)

Noticed(w, new) ==
  CASE w.at = "rest" -> w
    [] "stay" \in DOMAIN w -> [w EXCEPT !.stay = @ \cap Stock(w.list, new),
                                        !.lost = @ \/ \E x \in Rows : new[x] = "gone" /\ row[x] # "gone"]
    [] OTHER -> [w EXCEPT !.quiet = FALSE]

Write(new, ranks) ==
  /\ row' = new /\ rank' = ranks
  /\ reading' = [r \in Readers |-> Noticed(reading[r], new)]
  /\ UNCHANGED cache

\* The writes of products, orders, refunds, receipts and adjustments; others,
\* the courier's cancellations and returns and ratings among them, clear nothing.
Announced == dirty < MaxDirty /\ dirty' = dirty + 1 /\ UNCHANGED drift
Unannounced == drift' = TRUE /\ UNCHANGED dirty

\* A row is inserted: ids are given in order.
Insert(x, state) ==
  /\ row[x] = "future" /\ \A y \in Rows : y < x => row[y] # "future"
  /\ state \in {"shown", "hidden"}
  /\ Write([row EXCEPT ![x] = state], rank) /\ (Announced \/ Unannounced)
  /\ UNCHANGED shelf

\* It is switched on or off, sells out or is restocked, changes status, price or
\* number sold, or a discount begins or ends because its time has come.
Switch(x, state, n) ==
  /\ x \in Existing /\ state \in {"shown", "hidden"} /\ n \in Ranks
  /\ <<state, n>> # <<row[x], rank[x]>>
  /\ Write([row EXCEPT ![x] = state], [rank EXCEPT ![x] = n]) /\ (Announced \/ Unannounced)
  /\ UNCHANGED shelf

DeleteRow(x) ==
  /\ x \in Existing
  /\ Write([row EXCEPT ![x] = "gone"], rank) /\ (Announced \/ Unannounced)
  /\ UNCHANGED shelf

SwitchShelf == shelf' = ~shelf /\ Write(row, rank) /\ Unannounced

\* PublicReadCache.clear, once a writer has committed; an answer that is
\* being loaded is not kept.
Filling(w) == w.at \in {"load", "choose", "found"} /\ w.fill
Clear ==
  /\ dirty > 0 /\ dirty' = dirty - 1 /\ drift' = FALSE
  /\ kept' = [key \in DOMAIN kept |-> None]
  /\ advised' = {}
  /\ reading' = [r \in Readers |->
       IF Filling(reading[r]) THEN [reading[r] EXCEPT !.fill = FALSE] ELSE reading[r]]
  /\ UNCHANGED <<row, rank, shelf>>

\* An answer is a minute old, or makes room for another.
Expire ==
  /\ \/ /\ \E key \in DOMAIN kept : kept[key] # None /\ kept' = [kept EXCEPT ![key] = None]
        /\ UNCHANGED advised
     \/ (\E e \in advised : advised' = advised \ {e}) /\ UNCHANGED kept
  /\ LET held == \/ \E key \in DOMAIN kept : kept'[key] # None
                 \/ advised' # {}
                 \/ \E r \in Readers : Filling(reading[r])
     IN drift' = (drift /\ held)
  /\ UNCHANGED <<row, rank, shelf, dirty, reading>>

\* Nothing in the cache is older than a change.
UpToDate == dirty = 0 /\ ~drift

Step(r, w) == reading' = [reading EXCEPT ![r] = w] /\ UNCHANGED <<row, rank, shelf, dirty, drift>>

-----------------------------------------------------------------------------
(* Reading a listing page by page.  A walk is quiet while nothing has       *)
(* changed since it began, and fresh if whatever it took from the cache was *)
(* as new as the rows when it took it.  A load that is joined before it has *)
(* ended is left to PublicReadCache.                                        *)

Walk(list, facet, quiet) ==
  [at |-> "ask", list |-> list, facet |-> facet, n |-> 1, got |-> <<>>,
   rows |-> None, total |-> None, fill |-> FALSE, quiet |-> quiet, fresh |-> TRUE]

OpenListing(r, list) ==
  /\ reading[r].at = "rest"
  /\ Step(r, Walk(list, None, TRUE)) /\ UNCHANGED cache

\* The facets offered beside a shelf: those of a product that is shown on it.
Offered == {Facet[x] : x \in {y \in Shown : shelf}}

OpenFilters(r) ==
  /\ reading[r].at = "rest"
  /\ Step(r, [at |-> "filters", offered |-> Offered, quiet |-> TRUE])
  /\ UNCHANGED cache

PickFacet(r, facet) ==
  /\ reading[r].at = "filters" /\ facet \in reading[r].offered
  /\ Step(r, Walk(GetSeriesWiseProducts, facet, reading[r].quiet))
  /\ UNCHANGED cache

Receive(r, answer, fresh) ==
  LET w == reading[r] IN
  Step(r, [w EXCEPT !.got = @ \o answer.rows, !.rows = None, !.total = None,
                    !.fill = FALSE, !.fresh = @ /\ fresh,
                    !.n = IF @ < TotalPages(answer.total) THEN @ + 1 ELSE @,
                    !.at = IF w.n < TotalPages(answer.total) THEN "ask" ELSE "done"])

\* getOrLoad finds the page in the cache.
AskKept(r) ==
  LET w == reading[r] IN
  /\ w.at = "ask" /\ w.list.cached /\ kept[w.list, w.n] # None
  /\ Receive(r, kept[w.list, w.n], UpToDate) /\ UNCHANGED cache

\* It does not, or the listing is not cached.  A shelf that is not found is
\* answered with an empty page at once.
AskLoad(r) ==
  LET w == reading[r] IN
  /\ w.at = "ask" /\ (w.list.cached => kept[w.list, w.n] = None)
  /\ IF w.list.shelved /\ ~shelf
     THEN Receive(r, [rows |-> <<>>, total |-> 0], TRUE)
     ELSE Step(r, [w EXCEPT !.at = "load", !.fill = TRUE])
  /\ UNCHANGED cache

ReadRows(r) ==
  LET w == reading[r] IN
  /\ w.at = "load" /\ w.rows = None /\ (w.total # None \/ "rows first" \in w.list.reads)
  /\ \E s \in AllOrders(Matching(w.list, w.facet), w.list.tied) :
       Step(r, [w EXCEPT !.rows = Page(s, w.n)])
  /\ UNCHANGED cache

ReadCount(r) ==
  LET w == reading[r] IN
  /\ w.at = "load" /\ w.total = None /\ (w.rows # None \/ "count first" \in w.list.reads)
  /\ Step(r, [w EXCEPT !.total = Cardinality(Matching(w.list, w.facet))])
  /\ UNCHANGED cache

Answer(r) ==
  LET w == reading[r]
      answer == [rows |-> w.rows, total |-> w.total]
  IN /\ w.at = "load" /\ None \notin {w.rows, w.total}
     /\ Receive(r, answer, TRUE) /\ UNCHANGED advised
     /\ kept' = IF w.list.cached /\ w.fill THEN [kept EXCEPT ![<<w.list, w.n>>] = answer] ELSE kept

-----------------------------------------------------------------------------
(* Reading the stock by cursor, and choosing products.                      *)

OpenStock(r, list) ==
  /\ reading[r].at = "rest"
  /\ Step(r, [at |-> "cursor", list |-> list, cursor |-> None, got |-> <<>>,
              stay |-> Stock(list, row), lost |-> FALSE])
  /\ UNCHANGED cache

ReadStock(r) ==
  LET w == reading[r]
      window == Window(w.list, w.cursor)
      next == NextCursor(window)
  IN /\ w.at = "cursor"
     /\ Step(r, [w EXCEPT !.got = @ \o Upto(window, PageSize), !.cursor = next,
                          !.at = IF next = None THEN "end" ELSE "cursor"])
     /\ UNCHANGED cache

\* The products left out: the source and those given (youMayAlsoLike), those
\* already seen, wanted, put in the cart or bought (recommendedProducts).
Leaves(advice, without) ==
  /\ advice = YouMayAlsoLike => without # {}
  /\ advice = RecommendedToStranger => without = {}

\* getOrLoad finds the choice in the cache.
TakeAdvice(r, advice, without) ==
  /\ reading[r].at = "rest" /\ Leaves(advice, without) /\ advice.cached
  /\ \E e \in advised :
       /\ e.advice = advice /\ e.without = without
       /\ Step(r, [at |-> "chosen", advice |-> advice, tiers |-> <<>>, without |-> without,
                   chosen |-> e.chosen, many |-> Cardinality(e.chosen),
                   fill |-> FALSE, quiet |-> TRUE, fresh |-> UpToDate])
  /\ UNCHANGED cache

OpenAdvice(r, advice, without) ==
  /\ reading[r].at = "rest" /\ Leaves(advice, without)
  /\ ~\E e \in advised : e.advice = advice /\ e.without = without
  /\ Step(r, [at |-> "choose", advice |-> advice, tiers |-> advice.tiers, without |-> without,
              chosen |-> {}, many |-> 0, fill |-> TRUE, quiet |-> TRUE, fresh |-> TRUE])
  /\ UNCHANGED cache

\* Fault variant: what is already chosen is not left out of the next query.
Candidates_Again(w) == (Tiers[Head(w.tiers)] \cap Shown) \ w.without

Candidates(w) == (Tiers[Head(w.tiers)] \cap Shown) \ (w.without \cup w.chosen)

AskTier(r) ==
  LET w == reading[r]
      spare == IF Len(w.tiers) = 1 THEN w.advice.spare ELSE 0
  IN /\ w.at = "choose"
     /\ \E S \in Picks(Candidates(w), Full - w.many, spare) :
          LET many == w.many + Cardinality(S) IN
          Step(r, [w EXCEPT !.chosen = @ \cup S, !.many = many, !.tiers = Tail(@),
                            !.at = IF Len(w.tiers) = 1 \/ many >= w.advice.enough
                                   THEN "found" ELSE "choose"])
     /\ UNCHANGED cache

Advise(r) ==
  LET w == reading[r] IN
  /\ w.at = "found"
  /\ Step(r, [w EXCEPT !.at = "chosen", !.tiers = <<>>, !.fill = FALSE]) /\ UNCHANGED kept
  /\ advised' = IF w.advice.cached /\ w.fill
                THEN {e \in advised : e.advice # w.advice \/ e.without # w.without}
                     \cup {[advice |-> w.advice, without |-> w.without, chosen |-> w.chosen]}
                ELSE advised

\* The reader has what was asked for, or leaves.
Leave(r) ==
  /\ reading[r].at # "rest"
  /\ Step(r, NotReading) /\ UNCHANGED cache

BrowseNext ==
  \/ \E x \in Rows, state \in States : Insert(x, state) \/ \E n \in Ranks : Switch(x, state, n)
  \/ (\E x \in Rows : DeleteRow(x)) \/ SwitchShelf \/ Clear \/ Expire
  \/ \E r \in {r \in Readers : reading[r].at = "rest"} :
       \/ OpenFilters(r) \/ \E list \in Listings : OpenListing(r, list)
       \/ \E list \in {PartnerList, PartnerLowStock} : OpenStock(r, list)
       \/ \E advice \in Advices, without \in SUBSET Existing :
            TakeAdvice(r, advice, without) \/ OpenAdvice(r, advice, without)
  \/ \E r \in Readers :
       \/ \E facet \in {Facet[x] : x \in Rows} : PickFacet(r, facet)
       \/ AskKept(r) \/ AskLoad(r) \/ ReadRows(r) \/ ReadCount(r) \/ Answer(r)
       \/ ReadStock(r) \/ AskTier(r) \/ Advise(r) \/ Leave(r)

-----------------------------------------------------------------------------
(* Properties.                                                              *)

Occurs(s, x) == Cardinality({i \in DOMAIN s : s[i] = x})
Exactly(s, M) == ToSet(s) = M /\ Len(s) = Cardinality(M)

\* Reading a listing that is sorted for it to its last page, while nothing
\* changes, gives every row it is about once (product-sort.ts: "otherwise ...
\* the paginated list skips or repeats products").  Pages may come from the
\* cache, however long ago the next one was loaded, but for the time the cache
\* is behind: from a write to its clear, and from a change that is not announced
\* until what was read before it has gone (stock-events.gateway.ts: "Changes that
\* don't emit (e.g. order-status cancellations) are still bounded by the TTL").
\* And a facet that was offered beside a shelf finds something.
WalkIsExact(w) == w.at = "done" /\ w.quiet /\ w.fresh => Exactly(w.got, Matching(w.list, w.facet))
Sorted == {LoadAllProducts, GetAdminProducts, GetAllOrders, GetInventory}
QuietWalkIsExact ==
  \A r \in Readers : LET w == reading[r] IN
    w.at = "done" =>
      /\ w.list \in Sorted => WalkIsExact(w)
      /\ w.facet # None /\ w.quiet => w.got # <<>>

\* Reading the stock by cursor never gives a row twice, and while nothing is
\* deleted every row that stayed in the list of all sizes is in it, although
\* others came and changed meanwhile (list-partner-inventory-query.dto.ts:
\* "Offset pagination silently skips or repeats rows").
MissesNothing(w) == w.at = "end" /\ ~w.lost => w.stay \subseteq ToSet(w.got)
CursorMissesNothing ==
  \A r \in Readers : LET w == reading[r] IN
    w.at \in {"cursor", "end"} =>
      /\ \A x \in Rows : Occurs(w.got, x) <= 1
      /\ w.list.all => MissesNothing(w)

\* What is chosen for a visitor is never more than fits, never what was to be
\* left out, never twice the same; and if nothing changed meanwhile, and the
\* cache was not behind if it came from there, all of it can be bought, it is as
\* much as there is or enough, and nothing farther was taken while something
\* nearer was left.
ChosenAreSound ==
  \A r \in Readers : LET w == reading[r] IN w.at = "chosen" =>
    LET asked == ToSet(w.advice.tiers)
        within(k) == UNION {(Tiers[j] \cap Shown) \ w.without : j \in {i \in asked : i <= k}}
    IN /\ w.many <= Full /\ w.many = Cardinality(w.chosen)
       /\ w.chosen \cap w.without = {}
       /\ w.quiet /\ w.fresh =>
            /\ w.chosen \subseteq Shown
            /\ w.many >= Lesser(w.advice.enough, Cardinality(within(Farthest)))
            /\ \A k \in asked : w.chosen \subseteq within(k) \/ within(k) \subseteq w.chosen

-----------------------------------------------------------------------------
(* Statements that TLC refutes.                                             *)

\* The same of the listings whose order is one column: rows that tie on it
\* are skipped and repeated.
TiedWalkIsExact ==
  \A r \in Readers : LET w == reading[r] IN
    w.at = "done" => WalkIsExact(w)

\* The same of the cached listing whatever the cache holds: after a change that
\* is not announced the first page is old and the second is not.
CachedWalkIsExact ==
  \A r \in Readers : LET w == reading[r] IN
    w.at = "done" /\ w.quiet /\ w.list = LoadAllProducts
      => Exactly(w.got, Matching(w.list, w.facet))

\* The same of a choice that comes from the cache: it may have sold out.
AdviceIsShown ==
  \A r \in Readers : LET w == reading[r] IN
    w.at = "chosen" /\ w.quiet => w.chosen \subseteq Shown

\* The same of the sizes low on stock: when the row of the cursor is no longer
\* low, the row that is skipped is another one.
LowStockMissesNothing ==
  \A r \in Readers : LET w == reading[r] IN
    w.at = "end" => MissesNothing(w)
=============================================================================
