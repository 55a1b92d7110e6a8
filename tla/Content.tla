------------------------------- MODULE Content -------------------------------
(***************************************************************************)
(* What the staff edit beside the products: the palette (colours, sizes,   *)
(* materials, districts), the tiles and banners of the shop's pages, their *)
(* order, campaigns with dates, pages, reviews (src/cms, src/category,     *)
(* src/featured-category and others).  Every handler is the list of the    *)
(* statements it sends to the database and of the checks between them; one *)
(* that finds something wrong ends it.  What is between "begin" and        *)
(* "commit" is one transaction at READ COMMITTED: nobody sees what it      *)
(* wrote before it commits, and others wait for the rows it wrote.  Of a   *)
(* row there is the key that should be its own, its place in the order,    *)
(* whether it is shown or hidden and where, and from when to when.         *)
(***************************************************************************)
EXTENDS Naturals, FiniteSets, Sequences, Overlay

CONSTANTS
  Lines,            \* ids of rows
  Keys,             \* names, slugs or hex codes
  Dates,            \* days a campaign begins or ends
  MaxShown,         \* MAX_FEATURED
  Goods,            \* products, orders or subcategories that refer to a row
  Editors,          \* requests served at once
  Unset             \* not given, no row

ASSUME ContentAssumption ==
  /\ Lines \subseteq Nat /\ IsFiniteSet(Lines) /\ Dates \subseteq Nat /\ MaxShown \in Nat
  /\ Unset \notin Lines /\ Unset \notin Dates /\ Unset \notin BOOLEAN

VARIABLES
  table,            \* the table at hand
  line,             \* its rows, as they are committed
  refers,           \* the row a product, an order or a subcategory refers to
  lost,             \* history: those whose row was deleted from under them
  arranged,         \* history: the place each row was last given by a reorder
  editing           \* what is left to do of each request

contentVars == <<table, line, refers, lost, arranged, editing>>

-----------------------------------------------------------------------------
(* The handlers.                                                            *)

CreateNewTag == <<"twin", "insert">>
CreateColor == <<"twin", "insert">>
CreateSize == <<"twin", "insert">>
CreateVariant == <<"twin", "insert">>
AddMaterial == <<"twin", "insert">>
CreateDistrict == <<"twin", "insert">>
UpdateColor == <<"find", "update">>
UpdateSize == <<"find", "update">>
UpdateVariant == <<"find", "update">>
UpdateMaterial == <<"find", "update">>
UpdateDistrict == <<"find", "update">>
DeleteColor == <<"find", "uses", "delete">>
DeleteSize == <<"find", "uses", "delete">>
DeleteVariant == <<"find", "uses", "delete">>
DeleteMaterial == <<"find", "uses", "delete">>
DeleteDistrict == <<"find", "delete">>

CreatePromoBanner == <<"insert">>
UpdatePromoBanner == <<"find", "begin", "update", "commit">>
RemovePromoBanner == <<"find", "delete">>
CreateHomepageBanner == <<"begin", "hide", "insert", "commit">>
UpdateHomepageBanner == <<"find", "begin", "hide", "update", "commit">>
RemoveHomepageBanner == <<"find", "delete">>
CreateBroadBanner == <<"begin", "hide", "insert", "commit">>
UpdateBroadBanner == <<"find", "begin", "hide", "update", "commit">>
RemoveBroadBanner == <<"find", "begin", "delete", "commit">>
CreateLabelSize == <<"hide", "insert">>
UpdateLabelSize == <<"find", "hide", "update">>
RemoveLabelSize == <<"find", "delete">>

\* Fault variant: a tile that is switched on again is not counted.
UpdateTile_Uncounted == <<"find", "update">>

CreateTile == <<"room", "next", "insert">>
UpdateTile == <<"find", "room", "update">>
RemoveTile == <<"find", "delete">>
ReorderTiles == <<"begin", "place", "commit">>

CreateGalleryItem == <<"twin", "next", "insert">>
UpdateGalleryItem == <<"find", "twin", "update">>
RemoveGalleryItem == <<"find", "delete">>
ReorderGallery == <<"begin", "place", "commit">>

\* Fault variant: the rows are placed one after the other.
ReorderTerms_OneByOne == <<"count", "place">>

CreateTerms == <<"insert">>
UpdateTerms == <<"find", "update">>
DeleteTerms == <<"find", "delete">>
ReorderTerms == <<"count", "begin", "place", "commit">>

CreateSeries == <<"twin", "insert">>
UpdateSeries == <<"find", "twin", "update">>
DeleteSeries == <<"find", "uses", "delete">>
ReorderSeries == <<"keep", "begin", "place", "commit">>
CreateCategory == <<"twin", "insert">>
UpdateCategory == <<"find", "twin", "update">>
DeleteCategory == <<"find", "uses", "delete">>
ReorderCategories == <<"begin", "place", "commit">>
CreateSubcategory == <<"twin", "insert">>
DeleteSubcategory == <<"find", "uses", "delete">>
ReorderSubcategories == <<"begin", "place", "commit">>

CreateSeasonal == <<"dates", "next", "insert">>
UpdateSeasonal == <<"find", "find", "dates", "update">>
RemoveSeasonal == <<"find", "delete">>
ReorderSeasonal == <<"begin", "place", "commit">>
CreateUrgencyBanner == <<"dates", "insert">>
UpdateUrgencyBanner == <<"find", "settle", "update">>
RemoveUrgencyBanner == <<"find", "delete">>
CreateFlashSale == <<"dates", "insert">>
UpdateFlashSale == <<"find", "settle", "begin", "update", "commit">>
RemoveFlashSale == <<"find", "delete">>

CreateBlog == <<"twin", "insert">>
UpdateBlog == <<"find", "twin", "update">>
DeleteBlog == <<"find", "delete">>
CreateBlogCategory == <<"twin", "insert">>
UpsertStaticPage == <<"upsert">>
DeleteStaticPage == <<"find", "delete">>
UpsertSeo == <<"upsert">>
RemoveSeo == <<"find", "delete">>
CreatePaymentMethod == <<"twin", "insert">>
UpdatePaymentMethod == <<"find", "update">>
RemovePaymentMethod == <<"find", "delete">>
UpdateReview == <<"find", "flags", "update">>

Handlers ==
  [tags |-> {CreateNewTag},
   colors |-> {CreateColor, UpdateColor, DeleteColor},
   sizes |-> {CreateSize, UpdateSize, DeleteSize},
   variants |-> {CreateVariant, UpdateVariant, DeleteVariant},
   materials |-> {AddMaterial, UpdateMaterial, DeleteMaterial},
   districts |-> {CreateDistrict, UpdateDistrict, DeleteDistrict},
   promoBanners |-> {CreatePromoBanner, UpdatePromoBanner, RemovePromoBanner},
   homepageBanners |-> {CreateHomepageBanner, UpdateHomepageBanner, RemoveHomepageBanner},
   broadBanners |-> {CreateBroadBanner, UpdateBroadBanner, RemoveBroadBanner},
   labelSizes |-> {CreateLabelSize, UpdateLabelSize, RemoveLabelSize},
   tiles |-> {CreateTile, UpdateTile, RemoveTile, ReorderTiles},
   gallery |-> {CreateGalleryItem, UpdateGalleryItem, RemoveGalleryItem, ReorderGallery},
   terms |-> {CreateTerms, UpdateTerms, DeleteTerms, ReorderTerms},
   series |-> {CreateSeries, UpdateSeries, DeleteSeries, ReorderSeries},
   categories |-> {CreateCategory, UpdateCategory, DeleteCategory, ReorderCategories},
   subcategories |-> {CreateSubcategory, DeleteSubcategory, ReorderSubcategories},
   seasonals |-> {CreateSeasonal, UpdateSeasonal, RemoveSeasonal, ReorderSeasonal},
   urgencyBanners |-> {CreateUrgencyBanner, UpdateUrgencyBanner, RemoveUrgencyBanner},
   flashSales |-> {CreateFlashSale, UpdateFlashSale, RemoveFlashSale},
   blogs |-> {CreateBlog, UpdateBlog, DeleteBlog},
   blogCategories |-> {CreateBlogCategory},
   staticPages |-> {UpsertStaticPage, DeleteStaticPage},
   seo |-> {UpsertSeo, RemoveSeo},
   paymentMethods |-> {CreatePaymentMethod, UpdatePaymentMethod, RemovePaymentMethod},
   reviews |-> {UpdateReview}]

\* What their rows have, and which keys the database keeps unique.
Indexed == {"tags", "materials", "districts", "gallery", "series", "categories", "subcategories",
            "blogs", "blogCategories", "staticPages", "seo", "paymentMethods"}
Keyed == Indexed \cup {"colors", "sizes", "variants"}
Ordered == {"promoBanners", "tiles", "gallery", "terms", "series", "categories", "subcategories", "seasonals"}
Switched == {"homepageBanners", "broadBanners", "labelSizes", "tiles", "reviews"}
Dated == {"seasonals", "urgencyBanners", "flashSales"}

\* What other rows refer to: their deletion is refused by the database, or
\* takes the reference or the row that refers with it.
Restricting == {"colors", "sizes", "variants"}
Losing == {"materials", "districts", "series", "categories", "subcategories"}

-----------------------------------------------------------------------------
(* Rows and requests.                                                       *)

\* The rows of which one is written.
Just(x, row) == [y \in {x} |-> row]
Blank == [key |-> Unset, place |-> 0, shown |-> FALSE, hidden |-> FALSE,
          screen |-> Unset, from |-> Unset, to |-> Unset]
Present(rows) == {x \in Lines : rows[x] # Unset}
Serving(w) == editing[w] # Unset

\* What a request sees: what is committed, and what it wrote.
Sees(w) == Over(editing[w].wrote, line)
Locked(w, x) == \E v \in Editors \ {w} : Serving(v) /\ x \in DOMAIN editing[v].wrote

Does(program, statement) == \E k \in DOMAIN program : program[k] = statement
Inserts(program) == Does(program, "insert") \/ Does(program, "upsert")
Writes(program) == Inserts(program) \/ Does(program, "update")

\* Rows in a new order, each with its place.
Orderings ==
  {[i \in DOMAIN s |-> [id |-> s[i], place |-> i - 1]] :
     s \in {s \in UNION {[1 .. n -> Lines] : n \in 1 .. 2} : \A i, j \in DOMAIN s : i # j => s[i] # s[j]}}

Field(program, tables, values) ==
  IF Writes(program) /\ table \in tables THEN values \cup {Unset} ELSE {Unset}

Requests(program) ==
  {r \in
    [id : IF Does(program, "find") THEN Lines ELSE {Unset},
     key : Field(program, Keyed, Keys), place : Field(program, Ordered, {1}),
     shown : Field(program, Switched, BOOLEAN), hidden : Field(program, {"reviews"}, BOOLEAN),
     screen : Field(program, {"homepageBanners"}, {"DESKTOP", "MOBILE"}),
     from : Field(program, Dated, Dates), to : Field(program, Dated, Dates),
     ids : IF Does(program, "place") THEN Orderings ELSE {<<>>}] :
   Inserts(program) => /\ table \in Keyed => r.key # Unset
                       /\ table \in Dated \ {"seasonals"} => Unset \notin {r.from, r.to}}

\* Reviews, which createReview writes for delivered items, are there.
ContentInit ==
  /\ table \in DOMAIN Handlers
  /\ line = [x \in Lines |-> IF table = "reviews" THEN Blank ELSE Unset]
  /\ refers = [g \in Goods |-> Unset] /\ lost = {} /\ arranged = <<>>
  /\ editing = [w \in Editors |-> Unset]

Submit(w, program, r) ==
  /\ ~Serving(w)
  /\ editing' = [editing EXCEPT ![w] =
       [todo |-> program, r |-> r, seen |-> Unset, opened |-> FALSE, wrote |-> <<>>, placed |-> 0]]
  /\ UNCHANGED <<table, line, refers, lost, arranged>>

\* A row is taken by a product, or exchanged there for another.
Refer(g, x) ==
  /\ table \in Restricting \cup Losing /\ x \in Present(line) \cup {Unset} /\ x # refers[g]
  /\ refers' = [refers EXCEPT ![g] = x]
  /\ UNCHANGED <<table, line, lost, arranged, editing>>

-----------------------------------------------------------------------------
(* Statements.                                                              *)

Due(w, statement) == Serving(w) /\ Head(editing[w].todo) = statement
Stops(w) == editing' = [editing EXCEPT ![w] = Unset]

\* On with the next statement, or the request is answered.
Onward(w, local) ==
  editing' = [editing EXCEPT ![w] = IF Len(local.todo) = 1 THEN Unset ELSE [local EXCEPT !.todo = Tail(@)]]
Reads(w, local) == Onward(w, local) /\ UNCHANGED <<table, line, refers, lost, arranged>>
Checks(w, fine) ==
  (IF fine THEN Onward(w, editing[w]) ELSE Stops(w)) /\ UNCHANGED <<table, line, refers, lost, arranged>>

FindRow(w) ==
  LET row == Sees(w)[editing[w].r.id] IN
  /\ Due(w, "find")
  /\ IF row = Unset THEN Checks(w, FALSE) ELSE Reads(w, [editing[w] EXCEPT !.seen = row])

KeyTaken(rows, key, id) == \E x \in Present(rows) \ {id} : key # Unset /\ rows[x].key = key
CheckTwin(w) == Due(w, "twin") /\ Checks(w, ~KeyTaken(Sees(w), editing[w].r.key, editing[w].r.id))

CheckUses(w) == Due(w, "uses") /\ Checks(w, \A g \in Goods : refers[g] # editing[w].r.id)

\* Only a tile that is to be shown, and was not, needs room.
CheckRoom(w) ==
  LET e == editing[w]
      adds == IF e.seen = Unset THEN e.r.shown # FALSE ELSE e.r.shown = TRUE /\ ~e.seen.shown
  IN Due(w, "room") /\ Checks(w, adds => Cardinality({x \in Present(line) : line[x].shown}) < MaxShown)

\* Tiles count the rows, the others take the place after the last.
NextPlace(w) ==
  LET last == {line[x].place : x \in Present(line)}
      free == CASE table = "tiles" -> Cardinality(Present(line))
                [] last = {} -> 0
                [] OTHER -> 1 + CHOOSE n \in last : \A k \in last : k <= n
  IN Due(w, "next") /\ Reads(w, [editing[w] EXCEPT !.r.place = IF @ = Unset THEN free ELSE @])

\* What is not given is taken from the row as it was found.
Meant(e) ==
  [e EXCEPT !.r.from = IF @ = Unset /\ e.seen # Unset THEN e.seen.from ELSE @,
            !.r.to = IF @ = Unset /\ e.seen # Unset THEN e.seen.to ELSE @]
Forward(row) == Unset \in {row.from, row.to} \/ row.from < row.to
CheckDates(w) == Due(w, "dates") /\ Checks(w, Forward(Meant(editing[w]).r))
SettleDates(w) ==
  /\ Due(w, "settle")
  /\ IF Forward(Meant(editing[w]).r) THEN Reads(w, Meant(editing[w])) ELSE Checks(w, FALSE)

\* A review that is hidden is not featured, and the other way round.
SettleFlags(w) ==
  LET e == editing[w] IN
  /\ Due(w, "flags")
  /\ IF e.r.hidden = TRUE /\ e.r.shown = TRUE THEN Checks(w, FALSE)
     ELSE Reads(w, [e EXCEPT !.r.shown = IF e.r.hidden = TRUE /\ e.seen.shown THEN FALSE ELSE @,
                             !.r.hidden = IF e.r.shown = TRUE /\ e.seen.hidden THEN FALSE ELSE @])

CountRows(w) ==
  LET ids == editing[w].r.ids IN
  Due(w, "count") /\ Checks(w, \A k \in DOMAIN ids : ids[k].id \in Present(line))

KeepFound(w) ==
  LET ids == editing[w].r.ids
      there == {k \in DOMAIN ids : ids[k].id \in Present(line)}
  IN /\ Due(w, "keep")
     /\ \E s \in [1 .. Cardinality(there) -> there] :
          /\ \A i, j \in DOMAIN s : i < j => s[i] < s[j]
          /\ Reads(w, [editing[w] EXCEPT !.r.ids = [k \in DOMAIN s |-> ids[s[k]]]])

-----------------------------------------------------------------------------
(* Statements that write.                                                   *)

Device(w) ==
  LET e == editing[w] IN
  IF e.r.screen # Unset THEN e.r.screen ELSE IF e.seen # Unset THEN e.seen.screen ELSE "DESKTOP"

\* The rows hidden for one that is to be shown: on its device, or all.
Others(w) ==
  LET e == editing[w]
      shows == e.r.shown = TRUE \/ (table = "homepageBanners" /\ e.seen = Unset /\ e.r.shown = Unset)
  IN {x \in Present(Sees(w)) \ {e.r.id} :
        shows /\ Sees(w)[x].shown /\ (table = "homepageBanners" => Sees(w)[x].screen = Device(w))}

\* The rows the next statement writes; it waits while another transaction has one.
Needs(w) ==
  LET e == editing[w] IN
  CASE Head(e.todo) \in {"update", "delete"} -> {e.r.id}
    [] Head(e.todo) = "hide" -> Others(w)
    [] Head(e.todo) = "place" /\ e.placed < Len(e.r.ids) -> {e.r.ids[e.placed + 1].id}
    [] OTHER -> {}
May(w) == \A x \in Needs(w) : ~Locked(w, x)

\* Rows are written, for all to see or within the transaction.
Alters(w, rows, local) ==
  IF local.opened
  THEN Onward(w, [local EXCEPT !.wrote = Over(rows, @)]) /\ UNCHANGED <<line, arranged>>
  ELSE /\ line' = Over(rows, line) /\ Onward(w, local)
       /\ arranged' = [x \in DOMAIN arranged \ DOMAIN rows |-> arranged[x]]

HideOthers(w) ==
  /\ Due(w, "hide") /\ May(w)
  /\ Alters(w, [x \in Others(w) |-> [Sees(w)[x] EXCEPT !.shown = FALSE]], editing[w])
  /\ UNCHANGED <<table, refers, lost>>

\* Not given: the default of the handler or of the table.
RowGiven(w) ==
  LET r == editing[w].r IN
  [Blank EXCEPT !.key = r.key, !.place = IF r.place = Unset THEN 0 ELSE r.place,
                !.shown = IF r.shown = Unset THEN table # "labelSizes" ELSE r.shown,
                !.screen = IF table = "homepageBanners" THEN Device(w) ELSE Unset,
                !.from = r.from, !.to = r.to]
Changed(row, r) ==
  [f \in DOMAIN row |-> IF r[f] = Unset THEN row[f] ELSE r[f]]

\* An id is given again only when no one knows it.
Fresh(w) ==
  Lines \ (Present(Sees(w)) \cup UNION {DOMAIN editing[v].wrote : v \in {v \in Editors : Serving(v)}}
           \cup {editing[v].r.id : v \in {v \in Editors : Serving(v)}})

Breaks(w, key, id) == table \in Indexed /\ KeyTaken(Sees(w), key, id)

InsertRow(w) ==
  /\ Due(w, "insert")
  /\ IF Breaks(w, editing[w].r.key, Unset) THEN Stops(w) /\ UNCHANGED <<line, arranged>>
     ELSE \E x \in Fresh(w) : (\A y \in Fresh(w) : x <= y) /\ Alters(w, Just(x, RowGiven(w)), editing[w])
  /\ UNCHANGED <<table, refers, lost>>

UpdateRow(w) ==
  LET r == editing[w].r IN
  /\ Due(w, "update") /\ May(w)
  /\ IF r.id \notin Present(Sees(w)) \/ Breaks(w, r.key, r.id)
     THEN Stops(w) /\ UNCHANGED <<line, arranged>>
     ELSE Alters(w, Just(r.id, Changed(Sees(w)[r.id], r)), editing[w])
  /\ UNCHANGED <<table, refers, lost>>

UpsertRow(w) ==
  LET r == editing[w].r
      same == {x \in Present(line) : line[x].key = r.key}
  IN /\ Due(w, "upsert")
     /\ \E x \in IF same = {} THEN Fresh(w) ELSE same :
          Alters(w, Just(x, IF same = {} THEN RowGiven(w) ELSE Changed(line[x], r)), editing[w])
     /\ UNCHANGED <<table, refers, lost>>

RemoveRow(w) ==
  LET x == editing[w].r.id
      users == {g \in Goods : refers[g] = x}
  IN /\ Due(w, "delete") /\ May(w) /\ UNCHANGED table
     /\ IF x \notin Present(Sees(w)) \/ (users # {} /\ table \in Restricting)
        THEN Stops(w) /\ UNCHANGED <<line, arranged, refers, lost>>
        ELSE /\ Alters(w, Just(x, Unset), editing[w])
             /\ refers' = [g \in Goods |-> IF g \in users THEN Unset ELSE refers[g]]
             /\ lost' = lost \cup users

\* The places of a submission that was answered.
Arranges(w) ==
  LET e == editing[w] IN
  arranged' = IF Len(e.todo) > 1 THEN arranged
              ELSE Over([x \in {e.r.ids[k].id : k \in DOMAIN e.r.ids} |->
                           (CHOOSE item \in {e.r.ids[k] : k \in DOMAIN e.r.ids} : item.id = x).place],
                        arranged)

PlaceRow(w) ==
  LET e == editing[w]
      item == e.r.ids[e.placed + 1]
      row == Just(item.id, [Sees(w)[item.id] EXCEPT !.place = item.place])
  IN /\ Due(w, "place") /\ e.placed < Len(e.r.ids) /\ May(w)
     /\ IF item.id \notin Present(Sees(w)) THEN Stops(w) /\ UNCHANGED line
        ELSE /\ editing' = [editing EXCEPT ![w].placed = @ + 1, ![w].wrote = IF e.opened THEN Over(row, @) ELSE @]
             /\ line' = IF e.opened THEN line ELSE Over(row, line)
     /\ UNCHANGED <<table, refers, lost, arranged>>

AllPlaced(w) ==
  /\ Due(w, "place") /\ editing[w].placed = Len(editing[w].r.ids)
  /\ Onward(w, editing[w]) /\ Arranges(w) /\ UNCHANGED <<table, line, refers, lost>>

BeginTransaction(w) == Due(w, "begin") /\ Reads(w, [editing[w] EXCEPT !.opened = TRUE])

Commit(w) ==
  /\ Due(w, "commit")
  /\ line' = Sees(w) /\ Arranges(w) /\ Onward(w, editing[w])
  /\ UNCHANGED <<table, refers, lost>>

\* A server goes down, or is the victim of a deadlock; what it has not
\* committed is rolled back.
GoesDown(w) == Serving(w) /\ Stops(w) /\ UNCHANGED <<table, line, refers, lost, arranged>>

ContentStep(w) ==
  \/ FindRow(w) \/ CheckTwin(w) \/ CheckUses(w) \/ CheckRoom(w) \/ NextPlace(w) \/ CheckDates(w)
  \/ SettleDates(w) \/ SettleFlags(w) \/ CountRows(w) \/ KeepFound(w) \/ HideOthers(w) \/ InsertRow(w)
  \/ UpdateRow(w) \/ UpsertRow(w) \/ RemoveRow(w) \/ PlaceRow(w) \/ AllPlaced(w)
  \/ BeginTransaction(w) \/ Commit(w) \/ GoesDown(w)

ContentNext ==
  \/ \E w \in {w \in Editors : ~Serving(w)}, program \in Handlers[table] :
       \E r \in Requests(program) : Submit(w, program, r)
  \/ \E w \in Editors : ContentStep(w)
  \/ \E g \in Goods, x \in Lines \cup {Unset} : Refer(g, x)

-----------------------------------------------------------------------------
(* Properties.                                                              *)

ContentTypeOK ==
  /\ table \in DOMAIN Handlers /\ refers \in [Goods -> Present(line) \cup {Unset}] /\ lost \subseteq Goods
  /\ \A x \in Present(line) : line[x].key \in Keys \cup {Unset} /\ line[x].place \in Nat
  /\ table \in Indexed => \A x, y \in Present(line) : line[x].key = line[y].key => x = y

\* Rows stand in the order of the last submission that placed them, whole,
\* whoever else reorders or deletes at the same time (cms.service.ts:
\* "All-or-nothing: a partial failure would leave the public page in a mixed
\* order").
ReordersAreWhole == \A x \in DOMAIN arranged : line[x].place = arranged[x]

\* Campaigns end after they begin, even when two edits of one overlap; a
\* seasonal category writes only the dates that were given.
CampaignsRunForward == table \in Dated \ {"seasonals"} => \A x \in Present(line) : Forward(line[x])

\* With one request at a time: no more tiles than the page has room for, one
\* default label size, no review both hidden and featured, seasons end after
\* they begin, and nothing in use is deleted where uses are counted.
RowsAreSound ==
  /\ table = "tiles" => Cardinality({x \in Present(line) : line[x].shown}) <= MaxShown
  /\ table = "labelSizes" => Cardinality({x \in Present(line) : line[x].shown}) <= 1
  /\ table = "reviews" => \A x \in Present(line) : ~(line[x].hidden /\ line[x].shown)
  /\ \A x \in Present(line) : Forward(line[x])
  /\ table # "districts" => lost = {}

\* Statements that TLC refutes: RowsAreSound when requests overlap; and, one at
\* a time, that the only banner a device has is shown alone (a banner that is
\* moved to a device stays on, a broad banner that is created with nothing said
\* is shown beside the others), that the deletion of a district leaves the
\* orders theirs, and that a hex code is one colour's.
OneBannerEach ==
  \A x, y \in Present(line) :
    table \in {"homepageBanners", "broadBanners"} /\ line[x].shown /\ line[y].shown
      /\ line[x].screen = line[y].screen => x = y
NothingLost == lost = {}
KeysAreOwn == \A x, y \in Present(line) : table \in Keyed /\ line[x].key = line[y].key => x = y
=============================================================================
