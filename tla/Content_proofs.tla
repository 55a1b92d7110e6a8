--------------------------- MODULE Content_proofs ---------------------------
(***************************************************************************)
(* What the edits of the staff guarantee for any rows, editors and limits, *)
(* one at a time and however they overlap.                                 *)
(***************************************************************************)
EXTENDS MCStorefront, FiniteSetTheorems, SequenceTheorems, TLAPS

-----------------------------------------------------------------------------
(* Edits that overlap.                                                      *)

\* The edits of the staff, however many at the same time.
ContentSpec == ContentInit /\ [][ContentNext]_contentVars

Reordered == {"tiles", "gallery", "terms", "series", "categories", "subcategories", "seasonals"}
Campaigns == Dated \ {"seasonals"}

PlainSteps == {"find", "room", "twin", "next", "insert", "update", "delete", "uses", "dates"}
OtherSteps == (PlainSteps \ {"room"}) \cup {"settle", "flags", "hide", "upsert", "begin", "commit"}
Reorderings ==
  {<<"begin", "place", "commit">>, <<"count", "begin", "place", "commit">>,
   <<"keep", "begin", "place", "commit">>}

LEMMA HandlersOf ==
  /\ Handlers["tags"] = {CreateNewTag}
  /\ Handlers["colors"] = {CreateColor, UpdateColor, DeleteColor}
  /\ Handlers["sizes"] = {CreateSize, UpdateSize, DeleteSize}
  /\ Handlers["variants"] = {CreateVariant, UpdateVariant, DeleteVariant}
  /\ Handlers["materials"] = {AddMaterial, UpdateMaterial, DeleteMaterial}
  /\ Handlers["districts"] = {CreateDistrict, UpdateDistrict, DeleteDistrict}
  /\ Handlers["promoBanners"] = {CreatePromoBanner, UpdatePromoBanner, RemovePromoBanner}
  /\ Handlers["homepageBanners"] = {CreateHomepageBanner, UpdateHomepageBanner, RemoveHomepageBanner}
  /\ Handlers["broadBanners"] = {CreateBroadBanner, UpdateBroadBanner, RemoveBroadBanner}
  /\ Handlers["labelSizes"] = {CreateLabelSize, UpdateLabelSize, RemoveLabelSize}
  /\ Handlers["tiles"] = {CreateTile, UpdateTile, RemoveTile, ReorderTiles}
  /\ Handlers["gallery"] = {CreateGalleryItem, UpdateGalleryItem, RemoveGalleryItem, ReorderGallery}
  /\ Handlers["terms"] = {CreateTerms, UpdateTerms, DeleteTerms, ReorderTerms}
  /\ Handlers["series"] = {CreateSeries, UpdateSeries, DeleteSeries, ReorderSeries}
  /\ Handlers["categories"] = {CreateCategory, UpdateCategory, DeleteCategory, ReorderCategories}
  /\ Handlers["subcategories"] = {CreateSubcategory, DeleteSubcategory, ReorderSubcategories}
  /\ Handlers["seasonals"] = {CreateSeasonal, UpdateSeasonal, RemoveSeasonal, ReorderSeasonal}
  /\ Handlers["urgencyBanners"] = {CreateUrgencyBanner, UpdateUrgencyBanner, RemoveUrgencyBanner}
  /\ Handlers["flashSales"] = {CreateFlashSale, UpdateFlashSale, RemoveFlashSale}
  /\ Handlers["blogs"] = {CreateBlog, UpdateBlog, DeleteBlog}
  /\ Handlers["blogCategories"] = {CreateBlogCategory}
  /\ Handlers["staticPages"] = {UpsertStaticPage, DeleteStaticPage}
  /\ Handlers["seo"] = {UpsertSeo, RemoveSeo}
  /\ Handlers["paymentMethods"] = {CreatePaymentMethod, UpdatePaymentMethod, RemovePaymentMethod}
  /\ Handlers["reviews"] = {UpdateReview}
  BY DEF Handlers

LEMMA PlainPrograms ==
  /\ CreateTile \in Seq(PlainSteps) /\ CreateTile # <<>>
  /\ UpdateTile \in Seq(PlainSteps) /\ UpdateTile # <<>>
  /\ RemoveTile \in Seq(PlainSteps) /\ RemoveTile # <<>>
  /\ CreateGalleryItem \in Seq(PlainSteps) /\ CreateGalleryItem # <<>>
  /\ UpdateGalleryItem \in Seq(PlainSteps) /\ UpdateGalleryItem # <<>>
  /\ RemoveGalleryItem \in Seq(PlainSteps) /\ RemoveGalleryItem # <<>>
  /\ CreateTerms \in Seq(PlainSteps) /\ CreateTerms # <<>>
  /\ UpdateTerms \in Seq(PlainSteps) /\ UpdateTerms # <<>>
  /\ DeleteTerms \in Seq(PlainSteps) /\ DeleteTerms # <<>>
  /\ CreateSeries \in Seq(PlainSteps) /\ CreateSeries # <<>>
  /\ UpdateSeries \in Seq(PlainSteps) /\ UpdateSeries # <<>>
  /\ DeleteSeries \in Seq(PlainSteps) /\ DeleteSeries # <<>>
  /\ CreateCategory \in Seq(PlainSteps) /\ CreateCategory # <<>>
  /\ UpdateCategory \in Seq(PlainSteps) /\ UpdateCategory # <<>>
  /\ DeleteCategory \in Seq(PlainSteps) /\ DeleteCategory # <<>>
  /\ CreateSubcategory \in Seq(PlainSteps) /\ CreateSubcategory # <<>>
  /\ DeleteSubcategory \in Seq(PlainSteps) /\ DeleteSubcategory # <<>>
  /\ CreateSeasonal \in Seq(PlainSteps) /\ CreateSeasonal # <<>>
  /\ UpdateSeasonal \in Seq(PlainSteps) /\ UpdateSeasonal # <<>>
  /\ RemoveSeasonal \in Seq(PlainSteps) /\ RemoveSeasonal # <<>>
  BY SMT DEF PlainSteps,
     CreateTile, UpdateTile, RemoveTile, CreateGalleryItem, UpdateGalleryItem, RemoveGalleryItem,
     CreateTerms, UpdateTerms, DeleteTerms, CreateSeries, UpdateSeries, DeleteSeries,
     CreateCategory, UpdateCategory, DeleteCategory, CreateSubcategory, DeleteSubcategory,
     CreateSeasonal, UpdateSeasonal, RemoveSeasonal

LEMMA OtherPrograms ==
  /\ CreateNewTag \in Seq(OtherSteps) /\ CreateNewTag # <<>>
  /\ CreateColor \in Seq(OtherSteps) /\ CreateColor # <<>>
  /\ UpdateColor \in Seq(OtherSteps) /\ UpdateColor # <<>>
  /\ DeleteColor \in Seq(OtherSteps) /\ DeleteColor # <<>>
  /\ CreateSize \in Seq(OtherSteps) /\ CreateSize # <<>>
  /\ UpdateSize \in Seq(OtherSteps) /\ UpdateSize # <<>>
  /\ DeleteSize \in Seq(OtherSteps) /\ DeleteSize # <<>>
  /\ CreateVariant \in Seq(OtherSteps) /\ CreateVariant # <<>>
  /\ UpdateVariant \in Seq(OtherSteps) /\ UpdateVariant # <<>>
  /\ DeleteVariant \in Seq(OtherSteps) /\ DeleteVariant # <<>>
  /\ AddMaterial \in Seq(OtherSteps) /\ AddMaterial # <<>>
  /\ UpdateMaterial \in Seq(OtherSteps) /\ UpdateMaterial # <<>>
  /\ DeleteMaterial \in Seq(OtherSteps) /\ DeleteMaterial # <<>>
  /\ CreateDistrict \in Seq(OtherSteps) /\ CreateDistrict # <<>>
  /\ UpdateDistrict \in Seq(OtherSteps) /\ UpdateDistrict # <<>>
  /\ DeleteDistrict \in Seq(OtherSteps) /\ DeleteDistrict # <<>>
  /\ CreatePromoBanner \in Seq(OtherSteps) /\ CreatePromoBanner # <<>>
  /\ UpdatePromoBanner \in Seq(OtherSteps) /\ UpdatePromoBanner # <<>>
  /\ RemovePromoBanner \in Seq(OtherSteps) /\ RemovePromoBanner # <<>>
  /\ CreateHomepageBanner \in Seq(OtherSteps) /\ CreateHomepageBanner # <<>>
  /\ UpdateHomepageBanner \in Seq(OtherSteps) /\ UpdateHomepageBanner # <<>>
  /\ RemoveHomepageBanner \in Seq(OtherSteps) /\ RemoveHomepageBanner # <<>>
  /\ CreateBroadBanner \in Seq(OtherSteps) /\ CreateBroadBanner # <<>>
  /\ UpdateBroadBanner \in Seq(OtherSteps) /\ UpdateBroadBanner # <<>>
  /\ RemoveBroadBanner \in Seq(OtherSteps) /\ RemoveBroadBanner # <<>>
  /\ CreateLabelSize \in Seq(OtherSteps) /\ CreateLabelSize # <<>>
  /\ UpdateLabelSize \in Seq(OtherSteps) /\ UpdateLabelSize # <<>>
  /\ RemoveLabelSize \in Seq(OtherSteps) /\ RemoveLabelSize # <<>>
  /\ CreateUrgencyBanner \in Seq(OtherSteps) /\ CreateUrgencyBanner # <<>>
  /\ UpdateUrgencyBanner \in Seq(OtherSteps) /\ UpdateUrgencyBanner # <<>>
  /\ RemoveUrgencyBanner \in Seq(OtherSteps) /\ RemoveUrgencyBanner # <<>>
  /\ CreateFlashSale \in Seq(OtherSteps) /\ CreateFlashSale # <<>>
  /\ UpdateFlashSale \in Seq(OtherSteps) /\ UpdateFlashSale # <<>>
  /\ RemoveFlashSale \in Seq(OtherSteps) /\ RemoveFlashSale # <<>>
  /\ CreateBlog \in Seq(OtherSteps) /\ CreateBlog # <<>>
  /\ UpdateBlog \in Seq(OtherSteps) /\ UpdateBlog # <<>>
  /\ DeleteBlog \in Seq(OtherSteps) /\ DeleteBlog # <<>>
  /\ CreateBlogCategory \in Seq(OtherSteps) /\ CreateBlogCategory # <<>>
  /\ UpsertStaticPage \in Seq(OtherSteps) /\ UpsertStaticPage # <<>>
  /\ DeleteStaticPage \in Seq(OtherSteps) /\ DeleteStaticPage # <<>>
  /\ UpsertSeo \in Seq(OtherSteps) /\ UpsertSeo # <<>>
  /\ RemoveSeo \in Seq(OtherSteps) /\ RemoveSeo # <<>>
  /\ CreatePaymentMethod \in Seq(OtherSteps) /\ CreatePaymentMethod # <<>>
  /\ UpdatePaymentMethod \in Seq(OtherSteps) /\ UpdatePaymentMethod # <<>>
  /\ RemovePaymentMethod \in Seq(OtherSteps) /\ RemovePaymentMethod # <<>>
  /\ UpdateReview \in Seq(OtherSteps) /\ UpdateReview # <<>>
  BY SMT DEF PlainSteps, OtherSteps,
     CreateNewTag, CreateColor, UpdateColor, DeleteColor, CreateSize, UpdateSize, DeleteSize,
     CreateVariant, UpdateVariant, DeleteVariant, AddMaterial, UpdateMaterial, DeleteMaterial,
     CreateDistrict, UpdateDistrict, DeleteDistrict, CreatePromoBanner, UpdatePromoBanner,
     RemovePromoBanner, CreateHomepageBanner, UpdateHomepageBanner, RemoveHomepageBanner,
     CreateBroadBanner, UpdateBroadBanner, RemoveBroadBanner, CreateLabelSize, UpdateLabelSize,
     RemoveLabelSize, CreateUrgencyBanner, UpdateUrgencyBanner, RemoveUrgencyBanner,
     CreateFlashSale, UpdateFlashSale, RemoveFlashSale, CreateBlog, UpdateBlog, DeleteBlog,
     CreateBlogCategory, UpsertStaticPage, DeleteStaticPage, UpsertSeo, RemoveSeo,
     CreatePaymentMethod, UpdatePaymentMethod, RemovePaymentMethod, UpdateReview

LEMMA ReorderPrograms ==
  /\ ReorderTiles \in Reorderings
  /\ ReorderGallery \in Reorderings
  /\ ReorderTerms \in Reorderings
  /\ ReorderSeries \in Reorderings
  /\ ReorderCategories \in Reorderings
  /\ ReorderSubcategories \in Reorderings
  /\ ReorderSeasonal \in Reorderings
  BY Zenon DEF Reorderings,
     ReorderTiles, ReorderGallery, ReorderTerms, ReorderSeries, ReorderCategories,
     ReorderSubcategories, ReorderSeasonal

LEMMA HandlersTables ==
  DOMAIN Handlers =
    {"tags", "colors", "sizes", "variants", "materials", "districts", "promoBanners", "homepageBanners",
     "broadBanners", "labelSizes", "tiles", "gallery", "terms", "series", "categories", "subcategories",
     "seasonals", "urgencyBanners", "flashSales", "blogs", "blogCategories", "staticPages", "seo",
     "paymentMethods", "reviews"}
  BY DEF Handlers

LEMMA ReorderedHandlers ==
  ASSUME table \in Reordered, NEW program \in Handlers[table]
  PROVE  program \in Seq(PlainSteps) \ {<<>>} \/ program \in Reorderings
  BY HandlersOf, PlainPrograms, ReorderPrograms, Zenon DEF Reordered

LEMMA OtherHandlers ==
  ASSUME table \in DOMAIN Handlers \ Reordered, NEW program \in Handlers[table]
  PROVE  program \in Seq(OtherSteps) \ {<<>>}
<1> DEFINE Fine(t) == Handlers[t] \subseteq Seq(OtherSteps) \ {<<>>}
<1>1. Fine("tags") /\ Fine("colors") /\ Fine("sizes") /\ Fine("variants") /\ Fine("materials") /\ Fine("districts")
  BY HandlersOf, OtherPrograms, Zenon
<1>2. Fine("promoBanners") /\ Fine("homepageBanners") /\ Fine("broadBanners") /\ Fine("labelSizes") /\ Fine("urgencyBanners") /\ Fine("flashSales")
  BY HandlersOf, OtherPrograms, Zenon
<1>3. Fine("blogs") /\ Fine("blogCategories") /\ Fine("staticPages") /\ Fine("seo") /\ Fine("paymentMethods") /\ Fine("reviews")
  BY HandlersOf, OtherPrograms, Zenon
<1> HIDE DEF Fine
<1>4. Fine(table)
  BY <1>1, <1>2, <1>3, HandlersTables, Zenon DEF Reordered
<1> QED BY <1>4 DEF Fine

\* A request either looks its row up first, or names none.
Anonymous == {"twin", "room", "next", "insert", "dates", "hide", "upsert", "begin", "commit", "place", "count", "keep"}

LEMMA FindingPrograms ==
  /\ Does(UpdateColor, "find") /\ Does(DeleteColor, "find")
  /\ Does(UpdateSize, "find") /\ Does(DeleteSize, "find")
  /\ Does(UpdateVariant, "find") /\ Does(DeleteVariant, "find")
  /\ Does(UpdateMaterial, "find") /\ Does(DeleteMaterial, "find")
  /\ Does(UpdateDistrict, "find") /\ Does(DeleteDistrict, "find")
  /\ Does(UpdatePromoBanner, "find") /\ Does(RemovePromoBanner, "find")
  /\ Does(UpdateHomepageBanner, "find") /\ Does(RemoveHomepageBanner, "find")
  /\ Does(UpdateBroadBanner, "find") /\ Does(RemoveBroadBanner, "find")
  /\ Does(UpdateLabelSize, "find") /\ Does(RemoveLabelSize, "find")
  /\ Does(UpdateTile, "find") /\ Does(RemoveTile, "find")
  /\ Does(UpdateGalleryItem, "find") /\ Does(RemoveGalleryItem, "find")
  /\ Does(UpdateTerms, "find") /\ Does(DeleteTerms, "find")
  /\ Does(UpdateSeries, "find") /\ Does(DeleteSeries, "find")
  /\ Does(UpdateCategory, "find") /\ Does(DeleteCategory, "find")
  /\ Does(DeleteSubcategory, "find") /\ Does(UpdateSeasonal, "find")
  /\ Does(RemoveSeasonal, "find") /\ Does(UpdateUrgencyBanner, "find")
  /\ Does(RemoveUrgencyBanner, "find") /\ Does(UpdateFlashSale, "find")
  /\ Does(RemoveFlashSale, "find") /\ Does(UpdateBlog, "find")
  /\ Does(DeleteBlog, "find") /\ Does(DeleteStaticPage, "find")
  /\ Does(RemoveSeo, "find") /\ Does(UpdatePaymentMethod, "find")
  /\ Does(RemovePaymentMethod, "find") /\ Does(UpdateReview, "find")
  BY SMT DEF Does,
     UpdateColor, DeleteColor, UpdateSize, DeleteSize, UpdateVariant, DeleteVariant,
     UpdateMaterial, DeleteMaterial, UpdateDistrict, DeleteDistrict, UpdatePromoBanner,
     RemovePromoBanner, UpdateHomepageBanner, RemoveHomepageBanner, UpdateBroadBanner,
     RemoveBroadBanner, UpdateLabelSize, RemoveLabelSize, UpdateTile, RemoveTile,
     UpdateGalleryItem, RemoveGalleryItem, UpdateTerms, DeleteTerms, UpdateSeries, DeleteSeries,
     UpdateCategory, DeleteCategory, DeleteSubcategory, UpdateSeasonal, RemoveSeasonal,
     UpdateUrgencyBanner, RemoveUrgencyBanner, UpdateFlashSale, RemoveFlashSale, UpdateBlog,
     DeleteBlog, DeleteStaticPage, RemoveSeo, UpdatePaymentMethod, RemovePaymentMethod, UpdateReview

LEMMA AnonymousPrograms ==
  /\ CreateNewTag \in Seq(Anonymous) /\ CreateColor \in Seq(Anonymous)
  /\ CreateSize \in Seq(Anonymous) /\ CreateVariant \in Seq(Anonymous)
  /\ AddMaterial \in Seq(Anonymous) /\ CreateDistrict \in Seq(Anonymous)
  /\ CreatePromoBanner \in Seq(Anonymous) /\ CreateHomepageBanner \in Seq(Anonymous)
  /\ CreateBroadBanner \in Seq(Anonymous) /\ CreateLabelSize \in Seq(Anonymous)
  /\ CreateTile \in Seq(Anonymous) /\ ReorderTiles \in Seq(Anonymous)
  /\ CreateGalleryItem \in Seq(Anonymous) /\ ReorderGallery \in Seq(Anonymous)
  /\ CreateTerms \in Seq(Anonymous) /\ ReorderTerms \in Seq(Anonymous)
  /\ CreateSeries \in Seq(Anonymous) /\ ReorderSeries \in Seq(Anonymous)
  /\ CreateCategory \in Seq(Anonymous) /\ ReorderCategories \in Seq(Anonymous)
  /\ CreateSubcategory \in Seq(Anonymous) /\ ReorderSubcategories \in Seq(Anonymous)
  /\ CreateSeasonal \in Seq(Anonymous) /\ ReorderSeasonal \in Seq(Anonymous)
  /\ CreateUrgencyBanner \in Seq(Anonymous) /\ CreateFlashSale \in Seq(Anonymous)
  /\ CreateBlog \in Seq(Anonymous) /\ CreateBlogCategory \in Seq(Anonymous)
  /\ UpsertStaticPage \in Seq(Anonymous) /\ UpsertSeo \in Seq(Anonymous)
  /\ CreatePaymentMethod \in Seq(Anonymous)
  BY SMT DEF Anonymous,
     CreateNewTag, CreateColor, CreateSize, CreateVariant, AddMaterial, CreateDistrict,
     CreatePromoBanner, CreateHomepageBanner, CreateBroadBanner, CreateLabelSize, CreateTile,
     ReorderTiles, CreateGalleryItem, ReorderGallery, CreateTerms, ReorderTerms, CreateSeries,
     ReorderSeries, CreateCategory, ReorderCategories, CreateSubcategory, ReorderSubcategories,
     CreateSeasonal, ReorderSeasonal, CreateUrgencyBanner, CreateFlashSale, CreateBlog,
     CreateBlogCategory, UpsertStaticPage, UpsertSeo, CreatePaymentMethod

LEMMA NamesOrNot ==
  ASSUME table \in DOMAIN Handlers, NEW program \in Handlers[table]
  PROVE  Does(program, "find") \/ program \in Seq(Anonymous)
<1> DEFINE Fine(t) == \A x \in Handlers[t] : Does(x, "find") \/ x \in Seq(Anonymous)
<1>1. Fine("tags") /\ Fine("colors") /\ Fine("sizes") /\ Fine("variants") /\ Fine("materials")
  BY HandlersOf, FindingPrograms, AnonymousPrograms, Zenon
<1>2. Fine("districts") /\ Fine("promoBanners") /\ Fine("homepageBanners") /\ Fine("broadBanners") /\ Fine("labelSizes")
  BY HandlersOf, FindingPrograms, AnonymousPrograms, Zenon
<1>3. Fine("tiles") /\ Fine("gallery") /\ Fine("terms") /\ Fine("series") /\ Fine("categories")
  BY HandlersOf, FindingPrograms, AnonymousPrograms, Zenon
<1>4. Fine("subcategories") /\ Fine("seasonals") /\ Fine("urgencyBanners") /\ Fine("flashSales") /\ Fine("blogs")
  BY HandlersOf, FindingPrograms, AnonymousPrograms, Zenon
<1>5. Fine("blogCategories") /\ Fine("staticPages") /\ Fine("seo") /\ Fine("paymentMethods") /\ Fine("reviews")
  BY HandlersOf, FindingPrograms, AnonymousPrograms, Zenon
<1> HIDE DEF Fine
<1>6. Fine(table)
  BY <1>1, <1>2, <1>3, <1>4, <1>5, HandlersTables, Zenon
<1> QED BY <1>6 DEF Fine

-----------------------------------------------------------------------------
(* The invariant.                                                           *)

RowFields == {"key", "place", "shown", "hidden", "screen", "from", "to"}
EditFields == {"todo", "r", "seen", "opened", "wrote", "placed"}

\* Both dates are given, the first before the last.
BothGiven(x) == x.from \in Dates /\ x.to \in Dates /\ x.from < x.to

RowTells(x) ==
  /\ DOMAIN x = RowFields
  /\ x.shown \in BOOLEAN /\ x.hidden \in BOOLEAN
  /\ x.from \in Dates \cup {Unset} /\ x.to \in Dates \cup {Unset}
  /\ table \notin Dated => x.from = Unset /\ x.to = Unset
  /\ table \in Campaigns => BothGiven(x)

Sent(r) ==
  /\ DOMAIN r = RowFields \cup {"id", "ids"}
  /\ r.id \in Lines \cup {Unset}
  /\ r.shown \in BOOLEAN \cup {Unset} /\ r.hidden \in BOOLEAN \cup {Unset}
  /\ r.from \in Dates \cup {Unset} /\ r.to \in Dates \cup {Unset}
  /\ table \notin Dated => r.from = Unset /\ r.to = Unset

\* A request that is no reorder, in a table that has one, has no transaction.
Plain(e) ==
  /\ e.todo \in Seq(PlainSteps) \ {<<>>}
  /\ e.opened = FALSE /\ DOMAIN e.wrote = {} /\ e.r.ids = <<>>

\* A reorder has written the rows it has placed, and no other.
Listed(ids) ==
  /\ ids \in Seq([id : Lines, place : Nat])
  /\ \A i, j \in 1 .. Len(ids) : ids[i].id = ids[j].id => i = j
Reordering(e) ==
  /\ Listed(e.r.ids) /\ e.placed \in 0 .. Len(e.r.ids)
  /\ \/ e.todo \in Reorderings /\ e.opened = FALSE /\ e.placed = 0
     \/ e.todo = <<"place", "commit">> /\ e.opened = TRUE
     \/ e.todo = <<"commit">> /\ e.opened = TRUE /\ e.placed = Len(e.r.ids)
  /\ DOMAIN e.wrote = {e.r.ids[k].id : k \in 1 .. e.placed}
  /\ \A k \in 1 .. e.placed :
       e.wrote[e.r.ids[k].id].place = e.r.ids[k].place

\* What is to be written of a campaign has both dates, in order.
CampaignTells(e) ==
  \/ e.todo = <<"dates", "insert">> /\ e.seen = Unset /\ e.r.from # Unset /\ e.r.to # Unset
  \/ /\ e.todo \in {<<"insert">>, <<"begin", "update", "commit">>, <<"update", "commit">>, <<"update">>}
     /\ BothGiven(e.r)
  \/ e.todo \in {<<"find", "settle", "update">>, <<"find", "settle", "begin", "update", "commit">>}
  \/ /\ e.todo \in {<<"settle", "update">>, <<"settle", "begin", "update", "commit">>}
     /\ e.seen # Unset
  \/ e.todo \in {<<"find", "delete">>, <<"delete">>, <<"commit">>}

Stored(rows) == \A x \in DOMAIN rows : x \in Lines /\ (rows[x] = Unset \/ RowTells(rows[x]))
EditTells(e) ==
  /\ DOMAIN e = EditFields /\ e.opened \in BOOLEAN
  /\ e.r.id \in Lines \/ e.todo \in Seq(Anonymous)
  /\ Sent(e.r) /\ (e.seen = Unset \/ RowTells(e.seen)) /\ Stored(e.wrote)
  /\ table \in Reordered => Plain(e) \/ Reordering(e)
  /\ table \notin Reordered => e.todo \in Seq(OtherSteps) \ {<<>>} /\ e.r.ids = <<>>
  /\ table \in Campaigns => CampaignTells(e)

TableTells ==
  /\ table \in DOMAIN Handlers /\ DOMAIN line = Lines /\ Stored(line)
  /\ DOMAIN arranged \subseteq Lines /\ (table \notin Reordered => DOMAIN arranged = {})
  /\ ReordersAreWhole
ContentTells ==
  /\ TableTells
  /\ editing = [w \in Editors |-> editing[w]]
  /\ \A w \in Editors : \A e \in {editing[w]} : e = Unset \/ EditTells(e)


LEMMA CampaignHandlers ==
  ASSUME table \in Campaigns, NEW program \in Handlers[table]
  PROVE  \/ program = <<"dates", "insert">>
         \/ program \in {<<"find", "settle", "update">>, <<"find", "settle", "begin", "update", "commit">>,
                         <<"find", "delete">>}
<1>1. table = "urgencyBanners" \/ table = "flashSales"
  BY Zenon DEF Campaigns, Dated
<1> QED
  BY <1>1, HandlersOf, Zenon DEF CreateUrgencyBanner, UpdateUrgencyBanner, RemoveUrgencyBanner,
     CreateFlashSale, UpdateFlashSale, RemoveFlashSale

\* A function on 1 .. n is a sequence of n elements.
LEMMA IsSequence ==
  ASSUME NEW S, NEW n \in Nat, NEW s \in [1 .. n -> S]
  PROVE  s \in Seq(S) /\ Len(s) = n
<1>1. s \in Seq(S)
  OBVIOUS
<1> QED BY <1>1, LenProperties

LEMMA RequestGiven ==
  ASSUME NEW program, NEW r \in Requests(program), ContentAssumption
  PROVE  /\ Sent(r)
         /\ Does(program, "place") => Listed(r.ids)
         /\ ~Does(program, "place") => r.ids = <<>>
         /\ Inserts(program) /\ table \in Campaigns => r.from # Unset /\ r.to # Unset
         /\ r.id = Unset <=> ~Does(program, "find")
<1> DEFINE Ids == IF Does(program, "place") THEN Orderings ELSE {<<>>}
<1>1. /\ DOMAIN r = RowFields \cup {"id", "ids"}
      /\ r.id \in IF Does(program, "find") THEN Lines ELSE {Unset}
      /\ r.shown \in Field(program, Switched, BOOLEAN) /\ r.hidden \in Field(program, {"reviews"}, BOOLEAN)
      /\ r.from \in Field(program, Dated, Dates) /\ r.to \in Field(program, Dated, Dates)
      /\ r.ids \in Ids
      /\ Inserts(program) /\ table \in Dated \ {"seasonals"} => Unset \notin {r.from, r.to}
  <2>1. /\ r.shown \in Field(program, Switched, BOOLEAN) /\ r.hidden \in Field(program, {"reviews"}, BOOLEAN)
        /\ r.from \in Field(program, Dated, Dates) /\ r.to \in Field(program, Dated, Dates)
        /\ r.id \in IF Does(program, "find") THEN Lines ELSE {Unset}
        /\ r.ids \in Ids
    BY DEF Requests
  <2>2. DOMAIN r = RowFields \cup {"id", "ids"}
    BY DEF Requests, RowFields
  <2>3. Inserts(program) /\ table \in Dated \ {"seasonals"} => Unset \notin {r.from, r.to}
    BY DEF Requests
  <2> QED BY <2>1, <2>2, <2>3
<1>2. /\ r.shown \in BOOLEAN \cup {Unset} /\ r.hidden \in BOOLEAN \cup {Unset}
      /\ r.from \in Dates \cup {Unset} /\ r.to \in Dates \cup {Unset}
      /\ table \notin Dated => r.from = Unset /\ r.to = Unset
  BY <1>1, Zenon DEF Field
<1>3. ASSUME Does(program, "place") PROVE Listed(r.ids)
  <2>1. PICK s \in UNION {[1 .. n -> Lines] : n \in 1 .. 2} :
          /\ \A i, j \in DOMAIN s : i # j => s[i] # s[j]
          /\ r.ids = [i \in DOMAIN s |-> [id |-> s[i], place |-> i - 1]]
    BY <1>1, <1>3 DEF Orderings
  <2>2. PICK n \in 1 .. 2 : s \in [1 .. n -> Lines]
    BY <2>1
  <2>3. r.ids \in [1 .. n -> [id : Lines, place : Nat]] /\ n \in Nat
    BY <2>1, <2>2
  <2>4. r.ids \in Seq([id : Lines, place : Nat]) /\ Len(r.ids) = n
    BY <2>3, IsSequence, Zenon
  <2>5. \A i \in 1 .. n : r.ids[i].id = s[i]
    BY <2>1, <2>2
  <2> QED BY <2>1, <2>2, <2>4, <2>5 DEF Listed
<1>4. ~Does(program, "place") => r.ids = <<>>
  BY <1>1
<1>5. r.id \in Lines \cup {Unset} /\ (r.id = Unset <=> ~Does(program, "find"))
  BY <1>1 DEF ContentAssumption
<1> QED BY <1>1, <1>2, <1>3, <1>4, <1>5 DEF Sent, Campaigns

\* What a request that comes in knows.
LEMMA BeginTells ==
  ASSUME ContentTells, ContentAssumption, NEW program \in Handlers[table], NEW r \in Requests(program)
  PROVE  EditTells([todo |-> program, r |-> r, seen |-> Unset, opened |-> FALSE, wrote |-> <<>>, placed |-> 0])
<1> DEFINE e == [todo |-> program, r |-> r, seen |-> Unset, opened |-> FALSE, wrote |-> <<>>, placed |-> 0]
<1>1. /\ DOMAIN e = EditFields /\ e.opened = FALSE /\ e.seen = Unset /\ e.wrote = <<>> /\ e.placed = 0
      /\ e.todo = program /\ e.r = r
  BY DEF EditFields
<1> HIDE DEF e
<1>2. DOMAIN e.wrote = {}
  BY <1>1
<1>3. Sent(e.r)
  BY <1>1, RequestGiven
<1>4. ASSUME table \in Reordered PROVE Plain(e) \/ Reordering(e)
  <2>1. CASE program \in Seq(PlainSteps) \ {<<>>}
    <3>1. ~Does(program, "place")
      BY <2>1 DEF Does, PlainSteps
    <3> QED BY <1>1, <1>2, <2>1, <3>1, RequestGiven DEF Plain
  <2>2. CASE program \in Reorderings
    <3>1. Does(program, "place")
      <4>1. \/ 2 \in DOMAIN program /\ program[2] = "place"
            \/ 3 \in DOMAIN program /\ program[3] = "place"
        <5>1. CASE program = <<"begin", "place", "commit">>
          BY <5>1
        <5>2. CASE program = <<"count", "begin", "place", "commit">>
          BY <5>2
        <5>3. CASE program = <<"keep", "begin", "place", "commit">>
          BY <5>3
        <5>4. \/ program = <<"begin", "place", "commit">>
              \/ program = <<"count", "begin", "place", "commit">>
              \/ program = <<"keep", "begin", "place", "commit">>
          BY <2>2, Zenon DEF Reorderings
        <5> QED BY <5>1, <5>2, <5>3, <5>4, Zenon
      <4> QED BY <4>1 DEF Does
    <3>2. Listed(e.r.ids)
      BY <1>1, <3>1, RequestGiven
    <3>3. Len(e.r.ids) \in Nat
      BY <3>2 DEF Listed
    <3>4. {e.r.ids[k].id : k \in 1 .. 0} = {} /\ 0 \in 0 .. Len(e.r.ids) /\ \A k \in 1 .. 0 : FALSE
      BY <3>3
    <3> QED BY <1>1, <1>2, <2>2, <3>2, <3>4, Zenon DEF Reordering
  <2> QED BY <1>4, <2>1, <2>2, ReorderedHandlers
<1>5. ASSUME table \notin Reordered PROVE e.todo \in Seq(OtherSteps) \ {<<>>} /\ e.r.ids = <<>>
  <2>1. program \in Seq(OtherSteps) \ {<<>>}
    BY <1>5, OtherHandlers DEF ContentTells, TableTells
  <2>2. "place" \notin OtherSteps
    BY DEF OtherSteps, PlainSteps
  <2>3. ~Does(program, "place")
    BY <2>1, <2>2 DEF Does
  <2> QED BY <1>1, <2>1, <2>3, RequestGiven
<1>6. ASSUME table \in Campaigns PROVE CampaignTells(e)
  <2>1. program = <<"dates", "insert">> => Inserts(program)
    BY DEF Inserts, Does
  <2>2. program = <<"dates", "insert">> => r.from # Unset /\ r.to # Unset
    BY <1>6, <2>1, RequestGiven
  <2> QED BY <1>1, <1>6, <2>2, CampaignHandlers, Zenon DEF CampaignTells
<1>7. e.r.id \in Lines \/ e.todo \in Seq(Anonymous)
  <2>1. r.id \in Lines \cup {Unset} /\ (r.id = Unset <=> ~Does(program, "find"))
    BY RequestGiven, Zenon DEF Sent
  <2>2. Does(program, "find") \/ program \in Seq(Anonymous)
    BY NamesOrNot DEF ContentTells, TableTells
  <2> QED BY <1>1, <2>1, <2>2
<1> QED BY <1>1, <1>2, <1>3, <1>4, <1>5, <1>6, <1>7 DEF EditTells, Stored, e

-----------------------------------------------------------------------------
(* Steps.                                                                   *)

LEMMA TellAgain ==
  ASSUME table' = table
  PROVE  /\ \A u : RowTells(u) => RowTells(u)'
         /\ \A u : EditTells(u) => EditTells(u)'
         /\ \A u : Stored(u) => Stored(u)'
<1>1. \A u : RowTells(u) => RowTells(u)'
  BY DEF RowTells
<1>2. ASSUME NEW u, EditTells(u) PROVE EditTells(u)'
  <2>1. Sent(u.r)'
    BY <1>2 DEF EditTells, Sent
  <2>2. (u.seen = Unset \/ RowTells(u.seen))' /\ Stored(u.wrote)'
    BY <1>1, <1>2 DEF EditTells, Stored
  <2> QED BY <1>2, <2>1, <2>2 DEF EditTells
<1>3. \A u : Stored(u) => Stored(u)'
  BY <1>1 DEF Stored
<1> QED BY <1>1, <1>2, <1>3

LEMMA TableStays == TableTells /\ UNCHANGED <<table, line, arranged>> => TableTells'
<1> SUFFICES ASSUME TableTells, UNCHANGED <<table, line, arranged>> PROVE TableTells'
  OBVIOUS
<1>1. Stored(line)'
  BY TellAgain DEF TableTells, Stored
<1> QED BY <1>1 DEF TableTells, ReordersAreWhole

LEMMA NextTells ==
  ASSUME ContentTells, NEW w \in Editors, NEW next, editing' = [editing EXCEPT ![w] = next],
         next = Unset \/ EditTells(next), table' = table, TableTells'
  PROVE  ContentTells'
<1>1. /\ editing' = [v \in Editors |-> editing'[v]]
      /\ \A v \in Editors : editing'[v] = IF v = w THEN next ELSE editing[v]
  BY DEF ContentTells
<1>2. \A v \in Editors : editing'[v] = Unset \/ EditTells(editing'[v])
  BY <1>1 DEF ContentTells
<1>3. \A u : EditTells(u) => EditTells(u)'
  BY TellAgain
<1>4. (\A v \in Editors : \A u \in {editing[v]} : u = Unset \/ EditTells(u))'
  BY <1>2, <1>3, Zenon
<1> QED BY <1>1, <1>4 DEF ContentTells

LEMMA OnwardTells ==
  ASSUME ContentTells, NEW w \in Editors, NEW local, DOMAIN local = EditFields, Onward(w, local),
         Len(local.todo) # 1 => EditTells([local EXCEPT !.todo = Tail(local.todo)]),
         table' = table, TableTells'
  PROVE  ContentTells'
<1> DEFINE next == IF Len(local.todo) = 1 THEN Unset ELSE [local EXCEPT !.todo = Tail(@)]
<1>1. editing' = [editing EXCEPT ![w] = next]
  BY DEF Onward
<1>2. next = Unset \/ EditTells(next)
  BY Zenon DEF EditFields
<1> HIDE DEF next
<1> QED BY <1>1, <1>2, NextTells

LEMMA ReadsTell ==
  ASSUME ContentTells, NEW w \in Editors, NEW local, DOMAIN local = EditFields, Reads(w, local),
         Len(local.todo) # 1 => EditTells([local EXCEPT !.todo = Tail(local.todo)])
  PROVE  ContentTells'
<1>1. TableTells' /\ table' = table /\ Onward(w, local)
  BY TableStays DEF Reads, ContentTells
<1> QED BY <1>1, OnwardTells

LEMMA StopsTell ==
  ASSUME ContentTells, NEW w \in Editors, Stops(w), UNCHANGED <<table, line, arranged>>
  PROVE  ContentTells'
<1>1. TableTells' /\ table' = table /\ editing' = [editing EXCEPT ![w] = Unset]
  BY TableStays DEF Stops, ContentTells
<1> QED BY <1>1, NextTells

LEMMA ChecksTell ==
  ASSUME ContentTells, NEW w \in Editors, DOMAIN editing[w] = EditFields, NEW fine, Checks(w, fine),
         Len(editing[w].todo) # 1 => EditTells([editing[w] EXCEPT !.todo = Tail(editing[w].todo)])
  PROVE  ContentTells'
<1>1. UNCHANGED <<table, line, arranged>> /\ (Onward(w, editing[w]) \/ Stops(w))
  BY DEF Checks
<1>2. CASE Stops(w)
  BY <1>1, <1>2, StopsTell
<1>3. CASE Onward(w, editing[w])
  BY <1>1, <1>3, TableStays, OnwardTells DEF ContentTells
<1> QED BY <1>1, <1>2, <1>3

LEMMA TailRemains ==
  ASSUME NEW S, NEW s \in Seq(S) \ {<<>>}, Len(s) # 1
  PROVE  Tail(s) \in Seq(S) \ {<<>>}
<1>1. PICK t \in Seq(S) : t = Tail(s) /\ Len(t) = Len(s) - 1
  BY HeadTailProperties, Zenon
<1>2. t # <<>>
  <2>1. PICK n \in Nat : n = Len(s)
    OBVIOUS
  <2>2. Len(t) # 0
    BY <1>1, <2>1
  <2> QED BY <2>2
<1> QED BY <1>1, <1>2, Zenon

\* A statement that only learns something.
LEMMA SameTells ==
  ASSUME NEW e, EditTells(e), Len(e.todo) # 1, Head(e.todo) \notin {"place", "commit", "begin", "keep"},
         NEW next, DOMAIN next = EditFields, next.todo = Tail(e.todo), next.opened = e.opened,
         next.placed = e.placed, next.wrote = e.wrote, next.r.ids = e.r.ids, next.r.id = e.r.id, Sent(next.r),
         next.seen = Unset \/ RowTells(next.seen), table \in Campaigns => CampaignTells(next)
  PROVE  EditTells(next)
<1>1. ASSUME NEW S, e.todo \in Seq(S) \ {<<>>} PROVE next.todo \in Seq(S) \ {<<>>}
  BY <1>1, TailRemains, Zenon
<1>2. Plain(e) => Plain(next)
  BY <1>1 DEF Plain
<1>3. ASSUME Reordering(e) PROVE Reordering(next)
  <2>1. e.todo = <<"count", "begin", "place", "commit">>
    <3>1. /\ Head(<<"begin", "place", "commit">>) = "begin" /\ Head(<<"place", "commit">>) = "place"
          /\ Head(<<"keep", "begin", "place", "commit">>) = "keep" /\ Head(<<"commit">>) = "commit"
      OBVIOUS
    <3> QED BY <1>3, <3>1, Zenon DEF Reordering, Reorderings
  <2>2. next.todo = <<"begin", "place", "commit">>
    BY <2>1
  <2>3. next.todo \in Reorderings /\ e.todo \notin {<<"place", "commit">>, <<"commit">>}
    BY <2>1, <2>2 DEF Reorderings
  <2> QED BY <1>3, <2>3, Zenon DEF Reordering
<1>4. table \notin Reordered => next.todo \in Seq(OtherSteps) \ {<<>>} /\ next.r.ids = <<>>
  BY <1>1 DEF EditTells
<1>5. e.todo # <<>>
  BY DEF EditTells, Plain, Reordering, Reorderings
<1>6. next.r.id \in Lines \/ next.todo \in Seq(Anonymous)
  BY <1>1, <1>5, Zenon DEF EditTells
<1> QED BY <1>2, <1>3, <1>4, <1>6 DEF EditTells

LEMMA ServingTells ==
  ASSUME ContentTells, NEW w \in Editors, Serving(w)
  PROVE  EditTells(editing[w]) /\ DOMAIN editing[w] = EditFields
  BY Zenon DEF ContentTells, Serving, EditTells

LEMMA SeesRows ==
  ASSUME ContentTells, NEW w \in Editors, Serving(w)
  PROVE  /\ DOMAIN Sees(w) = Lines /\ Stored(Sees(w))
         /\ \A x \in Lines : Sees(w)[x] = IF x \in DOMAIN editing[w].wrote THEN editing[w].wrote[x] ELSE line[x]
<1>1. Stored(editing[w].wrote) /\ Stored(line) /\ DOMAIN line = Lines
  BY ServingTells DEF EditTells, ContentTells, TableTells
<1> QED BY <1>1, Zenon DEF Sees, Over, Stored

\* What is left to do of a request about a campaign.
LEMMA CampaignHeads ==
  ASSUME NEW e, CampaignTells(e)
  PROVE  /\ Head(e.todo) \in {"dates", "insert", "begin", "update", "find", "settle", "delete", "commit"}
         /\ Head(e.todo) = "dates" =>
              Tail(e.todo) = <<"insert">> /\ e.seen = Unset /\ e.r.from # Unset /\ e.r.to # Unset
         /\ Head(e.todo) \in {"insert", "update", "begin"} => BothGiven(e.r)
         /\ Head(e.todo) = "begin" => Tail(e.todo) = <<"update", "commit">>
         /\ Head(e.todo) \in {"insert", "update"} => Len(e.todo) = 1 \/ Tail(e.todo) = <<"commit">>
         /\ Head(e.todo) = "find" =>
              Tail(e.todo) \in {<<"settle", "update">>, <<"settle", "begin", "update", "commit">>, <<"delete">>}
         /\ Head(e.todo) = "settle" =>
              Tail(e.todo) \in {<<"update">>, <<"begin", "update", "commit">>} /\ e.seen # Unset
         /\ Head(e.todo) \in {"delete", "commit"} => Len(e.todo) = 1
<1>1. CASE e.todo = <<"dates", "insert">>
  <2>1. Head(<<"dates", "insert">>) = "dates" /\ Len(<<"dates", "insert">>) = 2 /\ Tail(<<"dates", "insert">>) = <<"insert">>
    OBVIOUS
  <2> QED BY <1>1, <2>1 DEF CampaignTells
<1>2. CASE e.todo = <<"insert">>
  <2>1. Head(<<"insert">>) = "insert" /\ Len(<<"insert">>) = 1
    OBVIOUS
  <2> QED BY <1>2, <2>1 DEF CampaignTells
<1>3. CASE e.todo = <<"update">>
  <2>1. Head(<<"update">>) = "update" /\ Len(<<"update">>) = 1
    OBVIOUS
  <2> QED BY <1>3, <2>1 DEF CampaignTells
<1>4. CASE e.todo = <<"begin", "update", "commit">>
  <2>1. Head(<<"begin", "update", "commit">>) = "begin" /\ Len(<<"begin", "update", "commit">>) = 3 /\ Tail(<<"begin", "update", "commit">>) = <<"update", "commit">>
    OBVIOUS
  <2> QED BY <1>4, <2>1 DEF CampaignTells
<1>5. CASE e.todo = <<"update", "commit">>
  <2>1. Head(<<"update", "commit">>) = "update" /\ Len(<<"update", "commit">>) = 2 /\ Tail(<<"update", "commit">>) = <<"commit">>
    OBVIOUS
  <2> QED BY <1>5, <2>1 DEF CampaignTells
<1>6. CASE e.todo = <<"find", "settle", "update">>
  <2>1. Head(<<"find", "settle", "update">>) = "find" /\ Len(<<"find", "settle", "update">>) = 3 /\ Tail(<<"find", "settle", "update">>) = <<"settle", "update">>
    OBVIOUS
  <2> QED BY <1>6, <2>1 DEF CampaignTells
<1>7. CASE e.todo = <<"find", "settle", "begin", "update", "commit">>
  <2>1. Head(<<"find", "settle", "begin", "update", "commit">>) = "find" /\ Len(<<"find", "settle", "begin", "update", "commit">>) = 5 /\ Tail(<<"find", "settle", "begin", "update", "commit">>) = <<"settle", "begin", "update", "commit">>
    OBVIOUS
  <2> QED BY <1>7, <2>1 DEF CampaignTells
<1>8. CASE e.todo = <<"settle", "update">>
  <2>1. Head(<<"settle", "update">>) = "settle" /\ Len(<<"settle", "update">>) = 2 /\ Tail(<<"settle", "update">>) = <<"update">>
    OBVIOUS
  <2> QED BY <1>8, <2>1 DEF CampaignTells
<1>9. CASE e.todo = <<"settle", "begin", "update", "commit">>
  <2>1. Head(<<"settle", "begin", "update", "commit">>) = "settle" /\ Len(<<"settle", "begin", "update", "commit">>) = 4 /\ Tail(<<"settle", "begin", "update", "commit">>) = <<"begin", "update", "commit">>
    OBVIOUS
  <2> QED BY <1>9, <2>1 DEF CampaignTells
<1>10. CASE e.todo = <<"find", "delete">>
  <2>1. Head(<<"find", "delete">>) = "find" /\ Len(<<"find", "delete">>) = 2 /\ Tail(<<"find", "delete">>) = <<"delete">>
    OBVIOUS
  <2> QED BY <1>10, <2>1 DEF CampaignTells
<1>11. CASE e.todo = <<"delete">>
  <2>1. Head(<<"delete">>) = "delete" /\ Len(<<"delete">>) = 1
    OBVIOUS
  <2> QED BY <1>11, <2>1 DEF CampaignTells
<1>12. CASE e.todo = <<"commit">>
  <2>1. Head(<<"commit">>) = "commit" /\ Len(<<"commit">>) = 1
    OBVIOUS
  <2> QED BY <1>12, <2>1 DEF CampaignTells
<1> QED BY <1>1, <1>2, <1>3, <1>4, <1>5, <1>6, <1>7, <1>8, <1>9, <1>10, <1>11, <1>12, Zenon DEF CampaignTells

LEMMA NoCampaign ==
  ASSUME NEW e, EditTells(e),
         Head(e.todo) \in {"twin", "uses", "room", "count", "next", "flags", "keep", "hide", "upsert", "place"}
  PROVE  table \notin Campaigns
<1>1. table \in Campaigns =>
        Head(e.todo) \in {"dates", "insert", "begin", "update", "find", "settle", "delete", "commit"}
  BY CampaignHeads DEF EditTells
<1> QED BY <1>1

\* A check that lets a request go on tells it nothing else.
LEMMA CheckTells ==
  ASSUME ContentTells, NEW w \in Editors, NEW statement \in {"twin", "uses", "room", "count"}, Due(w, statement),
         NEW fine, Checks(w, fine)
  PROVE  ContentTells'
<1> DEFINE e == editing[w]
           next == [e EXCEPT !.todo = Tail(@)]
<1>1. Serving(w) /\ EditTells(e) /\ DOMAIN e = EditFields /\ Head(e.todo) = statement
  BY ServingTells DEF Due
<1>2. ASSUME Len(e.todo) # 1 PROVE EditTells(next)
  <2>1. /\ DOMAIN next = EditFields /\ next.todo = Tail(e.todo) /\ next.opened = e.opened /\ next.placed = e.placed
        /\ next.wrote = e.wrote /\ next.r = e.r /\ next.seen = e.seen
    BY <1>1 DEF EditFields
  <2> HIDE DEF next, e
  <2>2. table \notin Campaigns
    BY <1>1, NoCampaign
  <2>3. Sent(next.r) /\ (next.seen = Unset \/ RowTells(next.seen))
    BY <1>1, <2>1 DEF EditTells
  <2> QED BY <1>1, <1>2, <2>1, <2>2, <2>3, SameTells
<1> QED BY <1>1, <1>2, ChecksTell

\* A statement that learns something the request goes on with.
LEMMA LearnTells ==
  ASSUME ContentTells, NEW w \in Editors, Serving(w),
         Head(editing[w].todo) \notin {"place", "commit", "begin", "keep"},
         NEW local, DOMAIN local = EditFields, local.todo = editing[w].todo, local.opened = editing[w].opened,
         local.placed = editing[w].placed, local.wrote = editing[w].wrote,
         local.r.ids = editing[w].r.ids, local.r.id = editing[w].r.id, Sent(local.r),
         local.seen = Unset \/ RowTells(local.seen),
         table \in Campaigns /\ Len(local.todo) # 1 => CampaignTells([local EXCEPT !.todo = Tail(local.todo)]),
         Reads(w, local)
  PROVE  ContentTells'
<1> DEFINE e == editing[w]
           next == [local EXCEPT !.todo = Tail(local.todo)]
<1>1. EditTells(e) /\ DOMAIN e = EditFields
  BY ServingTells
<1>2. /\ DOMAIN next = EditFields /\ next.todo = Tail(e.todo) /\ next.opened = e.opened /\ next.placed = e.placed
      /\ next.wrote = e.wrote /\ next.r = local.r /\ next.seen = local.seen
  BY DEF EditFields
<1>3. ASSUME Len(local.todo) # 1 PROVE EditTells(next)
  <2> HIDE DEF next
  <2>1. table \in Campaigns => CampaignTells(next)
    BY <1>3 DEF next
  <2> HIDE DEF e
  <2>2. local.todo = e.todo /\ local.r.ids = e.r.ids /\ local.r.id = e.r.id /\ Head(e.todo) \notin {"place", "commit", "begin", "keep"}
    BY DEF e
  <2> QED BY <1>1, <1>2, <1>3, <2>1, <2>2, SameTells
<1> QED BY <1>3, ReadsTell

LEMMA FindTells ==
  ASSUME ContentTells, NEW w \in Editors, FindRow(w)
  PROVE  ContentTells'
<1> DEFINE e == editing[w]
           row_ == Sees(w)[e.r.id]
           local == [e EXCEPT !.seen = row_]
<1>1. Serving(w) /\ EditTells(e) /\ DOMAIN e = EditFields /\ Head(e.todo) = "find" /\ e.todo # <<>>
  <2>1. Serving(w) /\ EditTells(e) /\ DOMAIN e = EditFields /\ Head(e.todo) = "find"
    BY ServingTells DEF FindRow, Due
  <2> HIDE DEF e
  <2>2. Plain(e) => e.todo # <<>>
    BY DEF Plain
  <2>3. Reordering(e) => e.todo # <<>>
    <3>1. \A todo \in Reorderings : todo # <<>>
      BY DEF Reorderings
    <3>2. Reordering(e) => e.todo \in Reorderings \/ e.todo = <<"place", "commit">> \/ e.todo = <<"commit">>
      BY Zenon DEF Reordering
    <3> QED BY <3>1, <3>2
  <2>4. table \notin Reordered => e.todo # <<>>
    BY <2>1 DEF EditTells
  <2> QED BY <2>1, <2>2, <2>3, <2>4 DEF EditTells
<1>2. e.r.id \in Lines
  <2>1. e.todo \in Seq(Anonymous) => Head(e.todo) \in Anonymous
    BY <1>1
  <2>2. "find" \notin Anonymous
    BY DEF Anonymous
  <2> QED BY <1>1, <2>1, <2>2 DEF EditTells
<1>3. row_ = Unset \/ RowTells(row_)
  BY <1>1, <1>2, SeesRows DEF Stored
<1>4. CASE row_ = Unset
  <2>1. Checks(w, FALSE)
    BY <1>4 DEF FindRow
  <2> QED BY <2>1, StopsTell DEF Checks
<1>5. CASE row_ # Unset
  <2>1. Reads(w, local)
    BY <1>5 DEF FindRow
  <2>2. /\ DOMAIN local = EditFields /\ local.todo = e.todo /\ local.opened = e.opened /\ local.placed = e.placed
        /\ local.wrote = e.wrote /\ local.r = e.r /\ local.seen = row_
    BY <1>1 DEF EditFields
  <2>3. ASSUME table \in Campaigns, Len(local.todo) # 1 PROVE CampaignTells([local EXCEPT !.todo = Tail(local.todo)])
    <3> DEFINE next == [local EXCEPT !.todo = Tail(local.todo)]
    <3>1. next.todo = Tail(e.todo) /\ next.seen = row_ /\ next.r = e.r
      BY <2>2 DEF EditFields
    <3>2. next.todo \in {<<"settle", "update">>, <<"settle", "begin", "update", "commit">>, <<"delete">>}
      BY <1>1, <2>3, <3>1, CampaignHeads DEF EditTells
    <3> HIDE DEF next, row_, local
    <3>3. CampaignTells(next)
      BY <1>5, <3>1, <3>2, Zenon DEF CampaignTells
    <3> QED BY <3>3 DEF next
  <2>4. Sent(local.r)
    BY <1>1, <2>2 DEF EditTells
  <2>5. local.seen = Unset \/ RowTells(local.seen)
    BY <1>3, <2>2
  <2> HIDE DEF local, row_
  <2> QED BY <1>1, <2>1, <2>2, <2>3, <2>4, <2>5, LearnTells
<1> QED BY <1>4, <1>5

LEMMA NextPlaceTells ==
  ASSUME ContentTells, NEW w \in Editors, NextPlace(w)
  PROVE  ContentTells'
<1> DEFINE e == editing[w]
<1>1. Serving(w) /\ EditTells(e) /\ DOMAIN e = EditFields /\ Head(e.todo) = "next"
  BY ServingTells DEF NextPlace, Due
<1>2. PICK place : Reads(w, [e EXCEPT !.r.place = place])
  BY Zenon DEF NextPlace
<1> DEFINE local == [e EXCEPT !.r.place = place]
<1>3. DOMAIN e.r = RowFields \cup {"id", "ids"}
  BY <1>1 DEF EditTells, Sent
<1>4. /\ DOMAIN local = EditFields /\ local.todo = e.todo /\ local.opened = e.opened /\ local.placed = e.placed
      /\ local.wrote = e.wrote /\ local.seen = e.seen /\ local.r = [e.r EXCEPT !.place = place]
  BY <1>1 DEF EditFields
<1>5. Sent(local.r) /\ local.r.ids = e.r.ids /\ local.r.id = e.r.id
  BY <1>1, <1>3, <1>4 DEF EditTells, Sent, RowFields
<1>6. table \notin Campaigns
  BY <1>1, NoCampaign
<1>7. local.seen = Unset \/ RowTells(local.seen)
  BY <1>1, <1>4 DEF EditTells
<1> HIDE DEF local
<1>8. Reads(w, local)
  BY <1>2 DEF local
<1> QED BY <1>1, <1>4, <1>5, <1>6, <1>7, <1>8, LearnTells

\* What a request was sent has the fields of a row, and those of its own.
LEMMA EditSent ==
  ASSUME NEW e, EditTells(e)
  PROVE  Sent(e.r) /\ DOMAIN e.r = RowFields \cup {"id", "ids"} /\ e.todo # <<>>
<1>1. Sent(e.r)
  BY DEF EditTells
<1>2. DOMAIN e.r = RowFields \cup {"id", "ids"}
  BY <1>1 DEF Sent
<1>3. table \notin Reordered => e.todo # <<>>
  BY DEF EditTells
<1>4. Plain(e) => e.todo # <<>>
  BY DEF Plain
<1>5. ASSUME Reordering(e) PROVE e.todo # <<>>
  <2>1. \A s \in Reorderings : s # <<>>
    BY DEF Reorderings
  <2>2. <<"place", "commit">> # <<>> /\ <<"commit">> # <<>>
    OBVIOUS
  <2> QED BY <1>5, <2>1, <2>2, Zenon DEF Reordering
<1>6. table \notin Reordered \/ Plain(e) \/ Reordering(e)
  BY DEF EditTells
<1> QED BY <1>1, <1>2, <1>3, <1>4, <1>5, <1>6

LEMMA FlagsGiven ==
  ASSUME NEW r, Sent(r), NEW n, DOMAIN n = DOMAIN r,
         n.shown \in BOOLEAN \cup {Unset}, n.hidden \in BOOLEAN \cup {Unset},
         \A k \in DOMAIN r : k # "shown" /\ k # "hidden" => n[k] = r[k]
  PROVE  Sent(n) /\ n.ids = r.ids /\ n.id = r.id
<1>1. n.from = r.from /\ n.to = r.to /\ n.ids = r.ids /\ n.id = r.id
  BY DEF Sent, RowFields
<1>2. Sent(n)
  BY <1>1, Zenon DEF Sent
<1> QED BY <1>1, <1>2

LEMMA SettleFlagsTells ==
  ASSUME ContentTells, NEW w \in Editors, SettleFlags(w)
  PROVE  ContentTells'
<1> DEFINE e == editing[w]
<1>1. Serving(w) /\ EditTells(e) /\ DOMAIN e = EditFields /\ Head(e.todo) = "flags"
  BY ServingTells DEF SettleFlags, Due
<1>2. CASE Checks(w, FALSE)
  BY <1>2, StopsTell DEF Checks
<1>3. ASSUME NEW shown_ \in BOOLEAN \cup {Unset}, NEW hidden_ \in BOOLEAN \cup {Unset},
             Reads(w, [e EXCEPT !.r.shown = shown_, !.r.hidden = hidden_])
      PROVE  ContentTells'
  <2> DEFINE local == [e EXCEPT !.r.shown = shown_, !.r.hidden = hidden_]
  <2>2. DOMAIN e.r = RowFields \cup {"id", "ids"}
    BY <1>1, EditSent
  <2>3. /\ DOMAIN local = EditFields /\ local.todo = e.todo /\ local.opened = e.opened /\ local.placed = e.placed
        /\ local.wrote = e.wrote /\ local.seen = e.seen
        /\ local.r = [e.r EXCEPT !.shown = shown_, !.hidden = hidden_]
    BY <1>1 DEF EditFields
  <2>5. table \notin Campaigns
    BY <1>1, NoCampaign
  <2>6. local.seen = Unset \/ RowTells(local.seen)
    BY <1>1, <2>3 DEF EditTells
  <2> HIDE DEF local
  <2>8. Sent(local.r) /\ local.r.ids = e.r.ids /\ local.r.id = e.r.id
    <3>1. PICK r, n : r = e.r /\ n = local.r
      OBVIOUS
    <3>2. Sent(r) /\ n = [r EXCEPT !.shown = shown_, !.hidden = hidden_] /\ DOMAIN r = RowFields \cup {"id", "ids"}
      BY <1>1, <2>3, <3>1 DEF EditTells, Sent
    <3>3. DOMAIN n = DOMAIN r
      BY <3>2, Zenon
    <3>4. \A k \in DOMAIN r : k # "shown" /\ k # "hidden" => n[k] = r[k]
      BY <3>2, Zenon
    <3>5. n.shown = shown_ /\ n.hidden = hidden_
      BY <3>2, Zenon DEF RowFields
    <3>6. Sent(n) /\ n.ids = r.ids /\ n.id = r.id
      BY <3>2, <3>3, <3>4, <3>5, FlagsGiven
    <3> QED BY <3>1, <3>6
  <2>7. Reads(w, local)
    BY <1>3 DEF local
  <2> QED BY <1>1, <2>3, <2>5, <2>6, <2>7, <2>8, LearnTells
<1>4. e.r.shown \in BOOLEAN \cup {Unset} /\ e.r.hidden \in BOOLEAN \cup {Unset}
  BY <1>1 DEF EditTells, Sent
<1> DEFINE shown2 == IF e.r.hidden = TRUE /\ e.seen.shown THEN FALSE ELSE e.r.shown
           hidden2 == IF e.r.shown = TRUE /\ e.seen.hidden THEN FALSE ELSE e.r.hidden
<1>5. shown2 \in BOOLEAN \cup {Unset} /\ hidden2 \in BOOLEAN \cup {Unset}
  BY <1>4
<1>6. DOMAIN e.r = RowFields \cup {"id", "ids"}
  BY <1>1, EditSent
<1>7. Checks(w, FALSE) \/ Reads(w, [e EXCEPT !.r.shown = shown2, !.r.hidden = hidden2])
  BY <1>1, <1>6 DEF SettleFlags
<1> HIDE DEF shown2, hidden2
<1> QED BY <1>2, <1>3, <1>5, <1>7, Zenon

LEMMA MeantTells ==
  ASSUME NEW e, EditTells(e)
  PROVE  /\ DOMAIN Meant(e) = EditFields /\ Meant(e).todo = e.todo /\ Meant(e).opened = e.opened
         /\ Meant(e).placed = e.placed /\ Meant(e).wrote = e.wrote /\ Meant(e).seen = e.seen
         /\ Sent(Meant(e).r) /\ Meant(e).r.ids = e.r.ids /\ Meant(e).r.id = e.r.id
         /\ Meant(e).r.from = IF e.r.from = Unset /\ e.seen # Unset THEN e.seen.from ELSE e.r.from
         /\ Meant(e).r.to = IF e.r.to = Unset /\ e.seen # Unset THEN e.seen.to ELSE e.r.to
<1> DEFINE begins == IF e.r.from = Unset /\ e.seen # Unset THEN e.seen.from ELSE e.r.from
           ends == IF e.r.to = Unset /\ e.seen # Unset THEN e.seen.to ELSE e.r.to
<1>1. DOMAIN e = EditFields /\ DOMAIN e.r = RowFields \cup {"id", "ids"}
  BY DEF EditTells, Sent
<1>2. Meant(e) = [e EXCEPT !.r = [e.r EXCEPT !.from = begins, !.to = ends]]
  BY <1>1 DEF Meant, EditFields, RowFields
<1>3. /\ begins \in Dates \cup {Unset} /\ ends \in Dates \cup {Unset}
      /\ table \notin Dated => begins = Unset /\ ends = Unset
  BY DEF EditTells, Sent, RowTells
<1> HIDE DEF begins, ends
<1>4. Meant(e).r = [e.r EXCEPT !.from = begins, !.to = ends]
  BY <1>1, <1>2 DEF EditFields
<1>5. Sent(Meant(e).r) /\ Meant(e).r.ids = e.r.ids /\ Meant(e).r.id = e.r.id
  BY <1>1, <1>3, <1>4 DEF EditTells, Sent, RowFields
<1>6. Meant(e).r.from = begins /\ Meant(e).r.to = ends
  BY <1>1, <1>4 DEF RowFields
<1>7. /\ DOMAIN Meant(e) = EditFields /\ Meant(e).todo = e.todo /\ Meant(e).opened = e.opened
      /\ Meant(e).placed = e.placed /\ Meant(e).wrote = e.wrote /\ Meant(e).seen = e.seen
  BY <1>1, <1>2 DEF EditFields
<1> QED BY <1>5, <1>6, <1>7 DEF begins, ends

LEMMA CheckDatesTells ==
  ASSUME ContentTells, ContentAssumption, NEW w \in Editors, CheckDates(w)
  PROVE  ContentTells'
<1> DEFINE e == editing[w]
           next == [e EXCEPT !.todo = Tail(@)]
<1>1. Serving(w) /\ EditTells(e) /\ DOMAIN e = EditFields /\ Head(e.todo) = "dates" /\ Checks(w, Forward(Meant(e).r))
  BY ServingTells DEF CheckDates, Due
<1>2. CASE ~Forward(Meant(e).r)
  BY <1>1, <1>2, StopsTell DEF Checks
<1>3. CASE Forward(Meant(e).r)
  <2>1. Onward(w, e) /\ UNCHANGED <<table, line, refers, lost, arranged>>
    BY <1>1, <1>3 DEF Checks
  <2>2. Reads(w, e)
    BY <2>1 DEF Reads
  <2>3. Sent(e.r) /\ (e.seen = Unset \/ RowTells(e.seen))
    BY <1>1 DEF EditTells
  <2>4. ASSUME table \in Campaigns PROVE CampaignTells(next)
    <3>1. next.todo = Tail(e.todo) /\ next.r = e.r
      BY <1>1 DEF EditFields
    <3>2. next.todo = <<"insert">> /\ e.seen = Unset /\ e.r.from # Unset /\ e.r.to # Unset
      BY <1>1, <2>4, <3>1, CampaignHeads DEF EditTells
    <3>3. e.r.from \in Dates /\ e.r.to \in Dates
      BY <2>3, <3>2 DEF Sent
    <3>4. e.r.from < e.r.to
      BY <1>1, <1>3, <3>2, MeantTells DEF Forward
    <3> HIDE DEF next
    <3> QED BY <3>1, <3>2, <3>3, <3>4, Zenon DEF CampaignTells, BothGiven
  <2> HIDE DEF e, next
  <2>5. Serving(w) /\ e = editing[w] /\ next = [e EXCEPT !.todo = Tail(e.todo)]
    BY <1>1 DEF e, next
  <2> QED BY <1>1, <2>2, <2>3, <2>4, <2>5, LearnTells
<1> QED BY <1>2, <1>3

LEMMA SettleDatesTells ==
  ASSUME ContentTells, ContentAssumption, NEW w \in Editors, SettleDates(w)
  PROVE  ContentTells'
<1> DEFINE e == editing[w]
           local == Meant(e)
           next == [local EXCEPT !.todo = Tail(local.todo)]
<1>1. Serving(w) /\ EditTells(e) /\ DOMAIN e = EditFields /\ Head(e.todo) = "settle"
  BY ServingTells DEF SettleDates, Due
<1>2. CASE ~Forward(local.r)
  BY <1>2, StopsTell DEF SettleDates, Checks
<1>3. CASE Forward(local.r)
  <2>1. Reads(w, local)
    BY <1>3 DEF SettleDates
  <2> HIDE DEF local
  <2>2. /\ DOMAIN local = EditFields /\ local.todo = e.todo /\ local.opened = e.opened
        /\ local.placed = e.placed /\ local.wrote = e.wrote /\ local.seen = e.seen
        /\ Sent(local.r) /\ local.r.ids = e.r.ids /\ local.r.id = e.r.id
        /\ local.r.from = IF e.r.from = Unset /\ e.seen # Unset THEN e.seen.from ELSE e.r.from
        /\ local.r.to = IF e.r.to = Unset /\ e.seen # Unset THEN e.seen.to ELSE e.r.to
    BY <1>1, MeantTells DEF local
  <2>3. local.seen = Unset \/ RowTells(local.seen)
    BY <1>1, <2>2 DEF EditTells
  <2>4. ASSUME table \in Campaigns PROVE CampaignTells(next)
    <3>1. next.todo = Tail(e.todo) /\ next.r = local.r
      BY <2>2 DEF EditFields
    <3>2. next.todo \in {<<"update">>, <<"begin", "update", "commit">>} /\ e.seen # Unset
      BY <1>1, <2>4, <3>1, CampaignHeads DEF EditTells
    <3>3. local.r.from # Unset /\ local.r.to # Unset
      <4>1. BothGiven(e.seen)
        BY <2>2, <2>3, <2>4, <3>2 DEF RowTells
      <4> QED BY <2>2, <3>2, <4>1 DEF BothGiven, ContentAssumption
    <3>4. BothGiven(local.r)
      BY <1>3, <2>2, <3>3 DEF BothGiven, Sent, Forward
    <3> HIDE DEF next
    <3> QED BY <3>1, <3>2, <3>4, Zenon DEF CampaignTells
  <2>5. Head(e.todo) \notin {"place", "commit", "begin", "keep"} /\ next = [local EXCEPT !.todo = Tail(local.todo)]
    BY <1>1
  <2> HIDE DEF next
  <2> QED BY <1>1, <2>1, <2>2, <2>3, <2>4, <2>5, LearnTells
<1> QED BY <1>2, <1>3

\* One that filters its rows first goes on with those that are there, each once.
LEMMA KeptListed ==
  ASSUME NEW ids, Listed(ids), NEW there \in SUBSET DOMAIN ids, NEW s \in [1 .. Cardinality(there) -> there],
         \A i, j \in DOMAIN s : i < j => s[i] < s[j]
  PROVE  Listed([k \in DOMAIN s |-> ids[s[k]]])
<1> DEFINE Items == [id : Lines, place : Nat]
           kept_ == [k \in DOMAIN s |-> ids[s[k]]]
<1>1. ids \in Seq(Items) /\ DOMAIN ids = 1 .. Len(ids) /\ Len(ids) \in Nat
  BY DEF Listed
<1>2. PICK n : n = Cardinality(there)
  OBVIOUS
<1>3. n \in Nat
  <2>1. IsFiniteSet(1 .. Len(ids))
    BY <1>1, FS_Interval
  <2>2. IsFiniteSet(there)
    BY <1>1, <2>1, FS_Subset
  <2> QED BY <1>2, <2>2, FS_CardinalityType
<1>4. DOMAIN s = 1 .. n /\ \A k \in 1 .. n : s[k] \in 1 .. Len(ids)
  <2>1. s \in [1 .. n -> there]
    BY <1>2, Zenon
  <2>2. \A k \in 1 .. n : s[k] \in there
    BY <2>1, Zenon
  <2> QED BY <1>1, <2>1, <2>2, Zenon
<1>5. kept_ \in [1 .. n -> Items]
  <2> HIDE DEF Items
  <2>1. \A k \in 1 .. Len(ids) : ids[k] \in Items
    BY <1>1
  <2> QED BY <1>4, <2>1, Zenon
<1>6. kept_ \in Seq(Items) /\ Len(kept_) = n
  <2> HIDE DEF kept_, Items
  <2> QED BY <1>3, <1>5, IsSequence
<1>7. ASSUME NEW i \in 1 .. n, NEW j \in 1 .. n, kept_[i].id = kept_[j].id PROVE i = j
  <2>1. ids[s[i]].id = ids[s[j]].id
    BY <1>4, <1>7
  <2>2. s[i] = s[j]
    BY <1>4, <2>1 DEF Listed
  <2>3. ~(i < j) /\ ~(j < i)
    BY <1>1, <1>4, <2>2
  <2> QED BY <1>3, <2>3
<1> HIDE DEF kept_
<1>8. Listed(kept_)
  BY <1>6, <1>7 DEF Listed
<1> QED BY <1>8 DEF kept_

\* What is left of the reorders.
LEMMA ReorderHeads ==
  ASSUME NEW e, Reordering(e)
  PROVE  /\ Head(e.todo) \in {"begin", "count", "keep", "place", "commit"}
         /\ Head(e.todo) = "keep" => e.todo = <<"keep", "begin", "place", "commit">>
         /\ Head(e.todo) = "begin" => e.todo = <<"begin", "place", "commit">>
         /\ Head(e.todo) = "place" => e.todo = <<"place", "commit">> /\ e.opened = TRUE
         /\ Head(e.todo) = "commit" => e.todo = <<"commit">> /\ e.placed = Len(e.r.ids)
<1>1. /\ Head(<<"begin", "place", "commit">>) = "begin" /\ Head(<<"place", "commit">>) = "place"
      /\ Head(<<"keep", "begin", "place", "commit">>) = "keep" /\ Head(<<"commit">>) = "commit"
      /\ Head(<<"count", "begin", "place", "commit">>) = "count"
  OBVIOUS
<1> QED BY <1>1, Zenon DEF Reordering, Reorderings

\* These statements are in the reorders only, and those never in a reorder.
LEMMA WhoseStep ==
  ASSUME NEW e, EditTells(e)
  PROVE  /\ Head(e.todo) \in {"keep", "place", "count"} => table \in Reordered /\ Reordering(e)
         /\ Head(e.todo) \in {"begin", "commit"} /\ table \in Reordered => Reordering(e)
         /\ Head(e.todo) \in {"insert", "update", "delete"} /\ table \in Reordered => Plain(e)
         /\ Head(e.todo) \in {"hide", "upsert", "settle", "flags"} => table \notin Reordered
         /\ table \notin Reordered => e.todo \in Seq(OtherSteps) \ {<<>>}
<1>1. ASSUME Plain(e) PROVE Head(e.todo) \in PlainSteps
  BY <1>1 DEF Plain
<1>2. ASSUME table \notin Reordered PROVE Head(e.todo) \in OtherSteps
  BY <1>2 DEF EditTells
<1>3. Reordering(e) => Head(e.todo) \in {"begin", "count", "keep", "place", "commit"}
  BY ReorderHeads
<1>4. "count" \notin OtherSteps /\ "keep" \notin OtherSteps /\ "place" \notin OtherSteps
  BY DEF OtherSteps, PlainSteps
<1> QED BY <1>1, <1>2, <1>3, <1>4 DEF EditTells, PlainSteps

LEMMA KeepTells ==
  ASSUME ContentTells, NEW w \in Editors, KeepFound(w)
  PROVE  ContentTells'
<1> DEFINE e == editing[w]
           ids_ == e.r.ids
           there == {k \in DOMAIN ids_ : ids_[k].id \in Present(line)}
<1>1. Serving(w) /\ EditTells(e) /\ DOMAIN e = EditFields /\ Head(e.todo) = "keep"
  BY ServingTells DEF KeepFound, Due
<1>2. PICK s \in [1 .. Cardinality(there) -> there] :
        /\ \A i, j \in DOMAIN s : i < j => s[i] < s[j]
        /\ Reads(w, [e EXCEPT !.r.ids = [k \in DOMAIN s |-> ids_[s[k]]]])
  BY Zenon DEF KeepFound
<1>3. table \in Reordered /\ Reordering(e) /\ table \notin Campaigns
  BY <1>1, WhoseStep, NoCampaign
<1>4. PICK kept_ : kept_ = [k \in DOMAIN s |-> ids_[s[k]]]
  OBVIOUS
<1>5. Listed(kept_) /\ Len(kept_) \in Nat
  <2>1. Listed(ids_) /\ there \in SUBSET DOMAIN ids_
    BY <1>3 DEF Reordering
  <2> HIDE DEF ids_, there
  <2>2. Listed(kept_)
    <3>1. Listed([k \in DOMAIN s |-> ids_[s[k]]])
      BY <1>2, <2>1, KeptListed, Zenon
    <3> QED BY <1>4, <3>1, Zenon
  <2>3. PICK items : kept_ \in Seq(items)
    BY <2>2, Zenon DEF Listed
  <2>4. Len(kept_) \in Nat
    BY <2>3, LenProperties, Zenon
  <2> QED BY <2>2, <2>4
<1> DEFINE local == [e EXCEPT !.r.ids = kept_]
           next == [local EXCEPT !.todo = Tail(local.todo)]
<1>6. Reads(w, local)
  BY <1>2, <1>4
<1>7. e.todo = <<"keep", "begin", "place", "commit">> /\ e.opened = FALSE /\ e.placed = 0
  <2>1. e.todo = <<"keep", "begin", "place", "commit">>
    BY <1>1, <1>3, ReorderHeads
  <2>2. e.todo # <<"place", "commit">> /\ e.todo # <<"commit">>
    BY <2>1
  <2> QED BY <1>3, <2>1, <2>2 DEF Reordering
<1>8. DOMAIN e.r = RowFields \cup {"id", "ids"}
  BY <1>1 DEF EditTells, Sent
<1>9. /\ DOMAIN local = EditFields /\ DOMAIN next = EditFields /\ next.todo = <<"begin", "place", "commit">>
      /\ next.opened = FALSE /\ next.placed = 0 /\ next.wrote = e.wrote /\ next.seen = e.seen
      /\ next.r = [e.r EXCEPT !.ids = kept_]
  <2>1. Tail(<<"keep", "begin", "place", "commit">>) = <<"begin", "place", "commit">>
    OBVIOUS
  <2>2. PICK todo : todo = Tail(e.todo) /\ todo = <<"begin", "place", "commit">>
    BY <1>7, <2>1
  <2>3. local.todo = e.todo /\ DOMAIN local = EditFields
    BY <1>1, Zenon DEF EditFields
  <2>4. next = [local EXCEPT !.todo = todo]
    BY <2>2, <2>3
  <2>5. /\ DOMAIN local = EditFields /\ DOMAIN next = EditFields /\ next.todo = todo
        /\ next.opened = e.opened /\ next.placed = e.placed /\ next.wrote = e.wrote /\ next.seen = e.seen
        /\ next.r = [e.r EXCEPT !.ids = kept_]
    BY <1>1, <2>4 DEF EditFields
  <2> QED BY <1>7, <2>2, <2>5
<1>10. next.r.ids = kept_ /\ next.r.id = e.r.id /\ Sent(next.r)
  BY <1>1, <1>8, <1>9 DEF EditTells, Sent, RowFields
<1> HIDE DEF local, next
<1>11. DOMAIN e.wrote = {}
  <2>1. DOMAIN e.wrote = {ids_[k].id : k \in 1 .. 0}
    BY <1>3, <1>7 DEF Reordering
  <2> QED BY <2>1
<1>12. Reordering(next)
  <2>1. next.todo \in Reorderings
    BY <1>9, Zenon DEF Reorderings
  <2>2. {next.r.ids[k].id : k \in 1 .. 0} = {} /\ 0 \in 0 .. Len(next.r.ids) /\ \A k \in 1 .. 0 : FALSE
    BY <1>5, <1>10
  <2> QED BY <1>5, <1>9, <1>10, <1>11, <2>1, <2>2, Zenon DEF Reordering
<1>13. next.todo \in Seq(Anonymous)
  <2>1. <<"begin", "place", "commit">> \in Seq(Anonymous)
    BY SMT DEF Anonymous
  <2> QED BY <1>9, <2>1, Zenon
<1>14. EditTells(next)
  BY <1>1, <1>3, <1>9, <1>10, <1>12, <1>13, Zenon DEF EditTells
<1> QED BY <1>6, <1>9, <1>14, ReadsTell DEF next

LEMMA BeginTransactionTells ==
  ASSUME ContentTells, NEW w \in Editors, BeginTransaction(w)
  PROVE  ContentTells'
<1> DEFINE e == editing[w]
           local == [e EXCEPT !.opened = TRUE]
           next == [local EXCEPT !.todo = Tail(local.todo)]
<1>1. Serving(w) /\ EditTells(e) /\ DOMAIN e = EditFields /\ Head(e.todo) = "begin" /\ Reads(w, local)
  BY ServingTells DEF BeginTransaction, Due
<1>2. /\ DOMAIN local = EditFields /\ local.todo = e.todo /\ DOMAIN next = EditFields /\ next.todo = Tail(e.todo)
      /\ next.opened = TRUE /\ next.placed = e.placed /\ next.wrote = e.wrote /\ next.seen = e.seen
      /\ next.r = e.r
  BY <1>1 DEF EditFields
<1> HIDE DEF local, next
<1>3. ASSUME table \in Reordered PROVE Reordering(next)
  <2>1. Reordering(e) /\ e.todo = <<"begin", "place", "commit">>
    BY <1>1, <1>3, WhoseStep, ReorderHeads
  <2>2. next.todo = <<"place", "commit">>
    <3>1. Tail(<<"begin", "place", "commit">>) = <<"place", "commit">>
      OBVIOUS
    <3> QED BY <1>2, <2>1, <3>1
  <2>3. /\ Listed(e.r.ids) /\ e.placed \in 0 .. Len(e.r.ids)
        /\ DOMAIN e.wrote = {e.r.ids[k].id : k \in 1 .. e.placed}
        /\ \A k \in 1 .. e.placed :
             e.wrote[e.r.ids[k].id].place = e.r.ids[k].place
    BY <2>1, Zenon DEF Reordering
  <2> HIDE DEF e
  <2>4. /\ Listed(next.r.ids) /\ next.placed \in 0 .. Len(next.r.ids)
        /\ DOMAIN next.wrote = {next.r.ids[k].id : k \in 1 .. next.placed}
        /\ \A k \in 1 .. next.placed :
             next.wrote[next.r.ids[k].id].place = next.r.ids[k].place
    BY <1>2, <2>3
  <2> QED BY <1>2, <2>2, <2>4, Zenon DEF Reordering
<1>4. ASSUME Len(e.todo) # 1 PROVE EditTells(next)
  <2> HIDE DEF e
  <2>1. ASSUME NEW S, e.todo \in Seq(S) \ {<<>>} PROVE next.todo \in Seq(S) \ {<<>>}
    BY <1>2, <1>4, <2>1, TailRemains, Zenon
  <2>2. e.todo # <<>>
    BY <1>1 DEF EditTells, Plain, Reordering, Reorderings
  <2>3. next.r.id \in Lines \/ next.todo \in Seq(Anonymous)
    BY <1>1, <1>2, <2>1, <2>2, Zenon DEF EditTells
  <2>4. table \notin Reordered => next.todo \in Seq(OtherSteps) \ {<<>>} /\ next.r.ids = <<>>
    BY <1>1, <1>2, <2>1, Zenon DEF EditTells
  <2>5. ASSUME table \in Campaigns PROVE CampaignTells(next)
    <3>1. next.todo = <<"update", "commit">> /\ BothGiven(e.r)
      BY <1>1, <1>2, <2>5, CampaignHeads DEF EditTells
    <3> QED BY <1>2, <3>1, Zenon DEF CampaignTells
  <2> QED BY <1>1, <1>2, <1>3, <2>3, <2>4, <2>5, Zenon DEF EditTells
<1>5. Len(local.todo) # 1 => EditTells([local EXCEPT !.todo = Tail(local.todo)])
  BY <1>2, <1>4 DEF next
<1> QED BY <1>1, <1>2, <1>5, ReadsTell

-----------------------------------------------------------------------------
(* Statements that write.                                                   *)

\* Rows are written that tell what they should, for all to see or within the
\* transaction.
LEMMA AltersTell ==
  ASSUME ContentTells, NEW w \in Editors, Serving(w),
         Head(editing[w].todo) \in {"hide", "insert", "update", "upsert", "delete"},
         NEW rows, Stored(rows), Alters(w, rows, editing[w]), table' = table
  PROVE  ContentTells'
<1> DEFINE e == editing[w]
<1>1. EditTells(e) /\ DOMAIN e = EditFields
  BY ServingTells
<1>2. ASSUME table \in Campaigns, Len(e.todo) # 1 PROVE Tail(e.todo) = <<"commit">>
  <2>1. Head(e.todo) \notin {"hide", "upsert"}
    BY <1>1, <1>2, NoCampaign
  <2> QED BY <1>1, <1>2, <2>1, CampaignHeads DEF EditTells
<1>3. CASE e.opened
  <2> DEFINE local == [e EXCEPT !.wrote = Over(rows, e.wrote)]
             next == [local EXCEPT !.todo = Tail(local.todo)]
  <2>1. Onward(w, local) /\ UNCHANGED <<line, arranged>>
    BY <1>1, <1>3 DEF Alters, EditFields
  <2>2. /\ DOMAIN local = EditFields /\ local.todo = e.todo /\ DOMAIN next = EditFields /\ next.todo = Tail(e.todo)
        /\ next.opened = e.opened /\ next.placed = e.placed /\ next.wrote = Over(rows, e.wrote) /\ next.seen = e.seen
        /\ next.r = e.r
    BY <1>1 DEF EditFields
  <2> HIDE DEF local, next
  <2>3. table \notin Reordered
    <3>1. table \in Reordered => Plain(e)
      BY <1>1, WhoseStep
    <3> QED BY <1>3, <3>1 DEF Plain
  <2>4. Stored(next.wrote)
    BY <1>1, <2>2 DEF EditTells, Stored, Over
  <2>5. ASSUME Len(e.todo) # 1 PROVE EditTells(next)
    <3>1. table \in Campaigns => CampaignTells(next)
      BY <1>2, <2>2, <2>5, Zenon DEF CampaignTells
    <3> HIDE DEF e
    <3>2. ASSUME NEW S, e.todo \in Seq(S) \ {<<>>} PROVE next.todo \in Seq(S) \ {<<>>}
      BY <2>2, <2>5, <3>2, TailRemains, Zenon
    <3>3. e.todo \in Seq(OtherSteps) \ {<<>>}
      BY <1>1, <2>3, WhoseStep
    <3>4. next.r.id \in Lines \/ next.todo \in Seq(Anonymous)
      BY <1>1, <2>2, <3>2, <3>3, Zenon DEF EditTells
    <3>5. next.todo \in Seq(OtherSteps) \ {<<>>} /\ next.r.ids = <<>>
      BY <1>1, <2>2, <2>3, <3>2, <3>3, Zenon DEF EditTells
    <3> QED BY <1>1, <2>2, <2>3, <2>4, <3>1, <3>4, <3>5, Zenon DEF EditTells
  <2>6. TableTells'
    BY <2>1, TableStays DEF ContentTells
  <2>7. Len(local.todo) # 1 => EditTells([local EXCEPT !.todo = Tail(local.todo)])
    BY <2>2, <2>5 DEF next
  <2> QED BY <2>1, <2>2, <2>6, <2>7, OnwardTells
<1>4. CASE ~e.opened
  <2>1. /\ Onward(w, e) /\ line' = Over(rows, line)
        /\ arranged' = [x \in DOMAIN arranged \ DOMAIN rows |-> arranged[x]]
    BY <1>4 DEF Alters
  <2>2. DOMAIN line' = Lines /\ \A x \in Lines : line'[x] = IF x \in DOMAIN rows THEN rows[x] ELSE line[x]
    BY <2>1, Zenon DEF ContentTells, TableTells, Stored, Over
  <2>3. Stored(line')
    BY <2>2 DEF ContentTells, TableTells, Stored
  <2>4. Stored(line)'
    BY <2>3, TellAgain DEF Stored
  <2>5. ReordersAreWhole' /\ DOMAIN arranged' \subseteq DOMAIN arranged
    BY <2>1, <2>2 DEF ReordersAreWhole, ContentTells, TableTells
  <2>6. TableTells'
    BY <2>2, <2>4, <2>5 DEF ContentTells, TableTells
  <2> DEFINE next == [e EXCEPT !.todo = Tail(e.todo)]
  <2>7. ASSUME Len(e.todo) # 1 PROVE EditTells(next)
    <3>1. /\ DOMAIN next = EditFields /\ next.todo = Tail(e.todo) /\ next.opened = e.opened
          /\ next.placed = e.placed /\ next.wrote = e.wrote /\ next.seen = e.seen /\ next.r = e.r
      BY <1>1 DEF EditFields
    <3>2. table \in Campaigns => CampaignTells(next)
      BY <1>2, <2>7, <3>1, Zenon DEF CampaignTells
    <3>3. Sent(next.r) /\ (next.seen = Unset \/ RowTells(next.seen)) /\ next.r.ids = e.r.ids /\ next.r.id = e.r.id
      BY <1>1, <3>1 DEF EditTells
    <3> HIDE DEF e, next
    <3>4. Head(e.todo) \notin {"place", "commit", "begin", "keep"}
      BY DEF e
    <3> QED BY <1>1, <2>7, <3>1, <3>2, <3>3, <3>4, SameTells
  <2> QED BY <1>1, <2>1, <2>6, <2>7, OnwardTells
<1>5. e.opened \in BOOLEAN
  BY <1>1 DEF EditTells
<1> QED BY <1>3, <1>4, <1>5

LEMMA HideTells ==
  ASSUME ContentTells, NEW w \in Editors, HideOthers(w)
  PROVE  ContentTells'
<1> DEFINE rows_ == [x \in Others(w) |-> [Sees(w)[x] EXCEPT !.shown = FALSE]]
<1>1. Serving(w) /\ Head(editing[w].todo) = "hide" /\ Alters(w, rows_, editing[w]) /\ table' = table
  BY DEF HideOthers, Due
<1>2. ASSUME NEW x \in Others(w) PROVE x \in Lines /\ RowTells(rows_[x])
  <2>1. PICK v : v = Sees(w)[x]
    OBVIOUS
  <2>2. x \in Lines /\ v # Unset
    BY <2>1 DEF Others, Present
  <2>3. RowTells(v)
    BY <1>1, <2>1, <2>2, SeesRows DEF Stored
  <2>4. RowTells([v EXCEPT !.shown = FALSE])
    BY <2>3 DEF RowTells, RowFields, BothGiven
  <2> QED BY <2>1, <2>2, <2>4
<1>3. Stored(rows_)
  BY <1>2 DEF Stored
<1> HIDE DEF rows_
<1> QED BY <1>1, <1>3, AltersTell

LEMMA RowGivenTells ==
  ASSUME NEW w, EditTells(editing[w]), table \in Campaigns => BothGiven(editing[w].r)
  PROVE  RowTells(RowGiven(w))
<1>1. PICK r : r = editing[w].r
  OBVIOUS
<1>2. PICK n : n = RowGiven(w)
  OBVIOUS
<1>3. Sent(r) /\ (table \in Campaigns => BothGiven(r))
  BY <1>1 DEF EditTells
<1>4. /\ DOMAIN n = RowFields /\ n.from = r.from /\ n.to = r.to /\ n.hidden = FALSE
      /\ n.shown = IF r.shown = Unset THEN table # "labelSizes" ELSE r.shown
  BY <1>1, <1>2 DEF RowGiven, Blank, RowFields
<1>5. n.shown \in BOOLEAN /\ n.hidden \in BOOLEAN
  <2>1. r.shown \in BOOLEAN \cup {Unset} /\ (table # "labelSizes") \in BOOLEAN
    BY <1>3 DEF Sent
  <2> QED BY <1>4, <2>1
<1>6. RowTells(n)
  BY <1>3, <1>4, <1>5, Zenon DEF RowTells, Sent, BothGiven
<1> QED BY <1>2, <1>6

LEMMA ChangedTells ==
  ASSUME ContentAssumption, NEW r, Sent(r), NEW row_, RowTells(row_),
         table \in Campaigns => BothGiven(r) \/ (r.from = Unset /\ r.to = Unset)
  PROVE  RowTells(Changed(row_, r))
<1>1. PICK n : n = Changed(row_, r)
  OBVIOUS
<1>2. /\ DOMAIN n = RowFields
      /\ n.from = IF r.from = Unset THEN row_.from ELSE r.from
      /\ n.to = IF r.to = Unset THEN row_.to ELSE r.to
      /\ n.shown = IF r.shown = Unset THEN row_.shown ELSE r.shown
      /\ n.hidden = IF r.hidden = Unset THEN row_.hidden ELSE r.hidden
  BY <1>1 DEF Changed, RowTells, RowFields
<1>3. n.shown \in BOOLEAN /\ n.hidden \in BOOLEAN
  BY <1>2, Zenon DEF RowTells, Sent
<1>4. n.from \in Dates \cup {Unset} /\ n.to \in Dates \cup {Unset}
  BY <1>2, Zenon DEF RowTells, Sent
<1>5. table \notin Dated => n.from = Unset /\ n.to = Unset
  BY <1>2, Zenon DEF RowTells, Sent
<1>6. ASSUME table \in Campaigns PROVE BothGiven(n)
  <2>1. CASE BothGiven(r)
    <3>1. r.from # Unset /\ r.to # Unset
      BY <2>1 DEF BothGiven, ContentAssumption
    <3> QED BY <1>2, <2>1, <3>1 DEF BothGiven
  <2>2. CASE r.from = Unset /\ r.to = Unset
    BY <1>2, <1>6, <2>2 DEF RowTells, BothGiven
  <2> QED BY <1>6, <2>1, <2>2
<1>7. RowTells(n)
  BY <1>2, <1>3, <1>4, <1>5, <1>6 DEF RowTells
<1> QED BY <1>1, <1>7

LEMMA JustStored ==
  ASSUME NEW x \in Lines, NEW row_, row_ = Unset \/ RowTells(row_)
  PROVE  Stored(Just(x, row_))
  BY DEF Just, Stored

LEMMA InsertTells ==
  ASSUME ContentTells, NEW w \in Editors, InsertRow(w)
  PROVE  ContentTells'
<1> DEFINE e == editing[w]
<1>1. Serving(w) /\ Head(e.todo) = "insert" /\ EditTells(e) /\ table' = table
  BY ServingTells DEF InsertRow, Due
<1>2. CASE Stops(w) /\ UNCHANGED <<line, arranged>>
  BY <1>1, <1>2, StopsTell
<1>3. CASE \E x \in Fresh(w) : Alters(w, Just(x, RowGiven(w)), e)
  <2>1. PICK x \in Lines : Alters(w, Just(x, RowGiven(w)), e)
    BY <1>3 DEF Fresh
  <2>2. table \in Campaigns => BothGiven(e.r)
    BY <1>1, CampaignHeads DEF EditTells
  <2>3. Stored(Just(x, RowGiven(w)))
    BY <1>1, <2>2, RowGivenTells, JustStored
  <2> QED BY <1>1, <2>1, <2>3, AltersTell
<1> QED BY <1>2, <1>3 DEF InsertRow

LEMMA UpdateTells ==
  ASSUME ContentTells, ContentAssumption, NEW w \in Editors, UpdateRow(w)
  PROVE  ContentTells'
<1> DEFINE e == editing[w]
           x == e.r.id
           row_ == Changed(Sees(w)[x], e.r)
<1>1. Serving(w) /\ Head(e.todo) = "update" /\ EditTells(e) /\ table' = table
  BY ServingTells DEF UpdateRow, Due
<1>2. CASE Stops(w) /\ UNCHANGED <<line, arranged>>
  BY <1>1, <1>2, StopsTell
<1>3. CASE x \in Present(Sees(w)) /\ Alters(w, Just(x, row_), e)
  <2>1. x \in Lines /\ RowTells(Sees(w)[x])
    BY <1>1, <1>3, SeesRows DEF Present, Stored
  <2>2. table \in Campaigns => BothGiven(e.r)
    BY <1>1, CampaignHeads DEF EditTells
  <2>3. Sent(e.r)
    BY <1>1 DEF EditTells
  <2>4. RowTells(row_)
    BY <2>1, <2>2, <2>3, ChangedTells
  <2> HIDE DEF row_
  <2>5. Stored(Just(x, row_))
    BY <2>1, <2>4, JustStored
  <2> QED BY <1>1, <1>3, <2>5, AltersTell
<1> QED BY <1>2, <1>3 DEF UpdateRow

LEMMA UpsertTells ==
  ASSUME ContentTells, ContentAssumption, NEW w \in Editors, UpsertRow(w)
  PROVE  ContentTells'
<1> DEFINE e == editing[w]
           same == {x \in Present(line) : line[x].key = e.r.key}
<1>1. Serving(w) /\ Head(e.todo) = "upsert" /\ EditTells(e) /\ table' = table
  BY ServingTells DEF UpsertRow, Due
<1>2. table \notin Campaigns /\ Sent(e.r)
  BY <1>1, NoCampaign DEF EditTells
<1>3. PICK x \in IF same = {} THEN Fresh(w) ELSE same :
        Alters(w, Just(x, IF same = {} THEN RowGiven(w) ELSE Changed(line[x], e.r)), e)
  BY Zenon DEF UpsertRow
<1>4. CASE same = {}
  <2>1. x \in Lines /\ Alters(w, Just(x, RowGiven(w)), e)
    BY <1>3, <1>4 DEF Fresh
  <2>2. Stored(Just(x, RowGiven(w)))
    BY <1>1, <1>2, <2>1, RowGivenTells, JustStored
  <2> QED BY <1>1, <2>1, <2>2, AltersTell
<1>5. CASE same # {}
  <2>1. x \in Lines /\ line[x] # Unset /\ Alters(w, Just(x, Changed(line[x], e.r)), e)
    BY <1>3, <1>5 DEF Present
  <2>2. RowTells(line[x])
    BY <2>1 DEF ContentTells, TableTells, Stored
  <2>3. Stored(Just(x, Changed(line[x], e.r)))
    BY <1>2, <2>1, <2>2, ChangedTells, JustStored
  <2> QED BY <1>1, <2>1, <2>3, AltersTell
<1> QED BY <1>4, <1>5

LEMMA RemoveTells ==
  ASSUME ContentTells, NEW w \in Editors, RemoveRow(w)
  PROVE  ContentTells'
<1> DEFINE e == editing[w]
           x == e.r.id
<1>1. Serving(w) /\ Head(e.todo) = "delete" /\ table' = table
  BY DEF RemoveRow, Due
<1>2. CASE Stops(w) /\ UNCHANGED <<line, arranged>>
  BY <1>1, <1>2, StopsTell
<1>3. CASE x \in Present(Sees(w)) /\ Alters(w, Just(x, Unset), e)
  <2>1. Stored(Just(x, Unset))
    BY <1>3, JustStored DEF Present
  <2> QED BY <1>1, <1>3, <2>1, AltersTell
<1> QED BY <1>2, <1>3 DEF RemoveRow

\* A row with a place of its own is a row.
LEMMA PlacedTells ==
  ASSUME NEW v, RowTells(v), NEW place_
  PROVE  RowTells([v EXCEPT !.place = place_]) /\ [v EXCEPT !.place = place_].place = place_
<1>1. DOMAIN v = RowFields
  BY DEF RowTells
<1>2. PICK u : u = [v EXCEPT !.place = place_]
  OBVIOUS
<1>3. /\ DOMAIN u = RowFields /\ u.place = place_ /\ u.shown = v.shown /\ u.hidden = v.hidden
      /\ u.from = v.from /\ u.to = v.to
  BY <1>1, <1>2 DEF RowFields
<1>4. RowTells(u)
  BY <1>3, Zenon DEF RowTells, BothGiven
<1> QED BY <1>2, <1>3, <1>4

\* The next row of a reorder is written, a row that is no other's.
LEMMA PlaceTells ==
  ASSUME ContentTells, NEW w \in Editors, PlaceRow(w)
  PROVE  ContentTells'
<1> DEFINE e == editing[w]
           item == e.r.ids[e.placed + 1]
           new == [Sees(w)[item.id] EXCEPT !.place = item.place]
           next == [e EXCEPT !.placed = e.placed + 1, !.wrote = Over(Just(item.id, new), e.wrote)]
<1>1. /\ Serving(w) /\ Head(e.todo) = "place" /\ EditTells(e) /\ DOMAIN e = EditFields
      /\ table' = table /\ arranged' = arranged
  BY ServingTells DEF PlaceRow, Due
<1>2. /\ table \in Reordered /\ Reordering(e) /\ table \notin Campaigns
      /\ e.todo = <<"place", "commit">> /\ e.opened = TRUE
  BY <1>1, WhoseStep, ReorderHeads, NoCampaign
<1>3. CASE item.id \notin Present(Sees(w))
  <2>1. Stops(w) /\ line' = line
    BY <1>3 DEF PlaceRow
  <2> QED BY <1>1, <2>1, StopsTell
<1>4. CASE item.id \in Present(Sees(w))
  <2>1. /\ editing' = [editing EXCEPT ![w].placed = @ + 1, ![w].wrote = IF e.opened THEN Over(Just(item.id, new), @) ELSE @]
        /\ line' = line
    BY <1>2, <1>4, Zenon DEF PlaceRow
  <2>15. e.placed < Len(e.r.ids)
    BY Zenon DEF PlaceRow
  <2>2. editing' = [editing EXCEPT ![w] = next]
    <3>1. DOMAIN editing = Editors
      BY DEF ContentTells
    <3> HIDE DEF item, new
    <3> QED BY <1>1, <1>2, <2>1, <3>1 DEF EditFields
  <2>3. /\ DOMAIN next = EditFields /\ next.todo = e.todo /\ next.opened = e.opened /\ next.placed = e.placed + 1
        /\ next.wrote = Over(Just(item.id, new), e.wrote) /\ next.seen = e.seen /\ next.r = e.r
    <3> HIDE DEF item, new
    <3> QED BY <1>1 DEF EditFields
  <2> HIDE DEF next
  <2>4. PICK ids, n : ids = e.r.ids /\ n = e.placed
    OBVIOUS
  <2>5. /\ Listed(ids) /\ n \in 0 .. Len(ids) /\ n < Len(ids) /\ item = ids[n + 1]
        /\ DOMAIN e.wrote = {ids[k].id : k \in 1 .. n}
        /\ \A k \in 1 .. n : e.wrote[ids[k].id].place = ids[k].place
    <3>1. /\ Listed(e.r.ids) /\ e.placed \in 0 .. Len(e.r.ids)
          /\ DOMAIN e.wrote = {e.r.ids[k].id : k \in 1 .. e.placed}
          /\ \A k \in 1 .. e.placed : e.wrote[e.r.ids[k].id].place = e.r.ids[k].place
      BY <1>2, Zenon DEF Reordering
    <3>2. item = ids[n + 1] /\ n < Len(ids)
      BY <2>4, <2>15, Zenon
    <3> HIDE DEF item
    <3> QED BY <2>4, <3>1, <3>2
  <2>6. item.id \in Lines /\ RowTells(Sees(w)[item.id])
    BY <1>1, <1>4, SeesRows DEF Present, Stored
  <2>7. RowTells(new) /\ new.place = item.place
    <3>1. PICK v : v = Sees(w)[item.id]
      OBVIOUS
    <3>2. PICK place : place = item.place
      OBVIOUS
    <3>3. new = [v EXCEPT !.place = place]
      BY <3>1, <3>2
    <3>5. RowTells(v)
      BY <2>6, <3>1, Zenon
    <3>4. RowTells([v EXCEPT !.place = place]) /\ [v EXCEPT !.place = place].place = place
      BY <3>5, PlacedTells, Zenon
    <3> HIDE DEF new
    <3> QED BY <3>2, <3>3, <3>4
  <2> HIDE DEF item, new
  <2>8. Stored(next.wrote)
    BY <1>1, <2>3, <2>6, <2>7 DEF EditTells, Stored, Over, Just
  <2>9. DOMAIN next.wrote = {ids[k].id : k \in 1 .. n + 1}
    <3>1. DOMAIN next.wrote = {ids[n + 1].id} \cup {ids[k].id : k \in 1 .. n}
      BY <2>3, <2>5 DEF Over, Just
    <3>2. 1 .. n + 1 = (1 .. n) \cup {n + 1}
      BY <2>5
    <3> QED BY <3>1, <3>2
  <2>10. ASSUME NEW k \in 1 .. n + 1
         PROVE  next.wrote[ids[k].id].place = ids[k].place
    <3>1. CASE k = n + 1
      <4>1. next.wrote[item.id] = new
        BY <2>3 DEF Over, Just
      <4> QED BY <2>5, <2>7, <3>1, <4>1
    <3>2. CASE k # n + 1
      <4>1. k \in 1 .. n /\ k \in 1 .. Len(ids) /\ n + 1 \in 1 .. Len(ids) /\ Len(ids) \in Nat
        BY <2>5, <3>2 DEF Listed
      <4>2. ids[k].id # item.id
        BY <2>5, <3>2, <4>1 DEF Listed
      <4>3. next.wrote[ids[k].id] = e.wrote[ids[k].id]
        <5>1. ids[k].id \in DOMAIN e.wrote /\ ids[k].id \notin {item.id}
          BY <2>5, <4>1, <4>2
        <5> QED BY <2>3, <5>1 DEF Over, Just
      <4> QED BY <2>5, <4>1, <4>3
    <3> QED BY <3>1, <3>2
  <2>11. Reordering(next)
    <3>1. next.placed = n + 1 /\ next.r.ids = ids /\ n + 1 \in 0 .. Len(ids)
      <4>1. Len(ids) \in Nat /\ n \in Nat /\ n < Len(ids)
        BY <2>5 DEF Listed
      <4>2. n + 1 \in 0 .. Len(ids)
        BY <4>1
      <4>3. next.placed = n + 1 /\ next.r.ids = ids
        BY <2>3, <2>4, Zenon
      <4> QED BY <4>2, <4>3, Zenon
    <3>2. next.todo = <<"place", "commit">> /\ next.opened = TRUE
      BY <1>2, <2>3
    <3>3. Listed(ids)
      BY <2>5
    <3> HIDE DEF e
    <3> QED BY <2>9, <2>10, <3>1, <3>2, <3>3, Zenon DEF Reordering
  <2>12. Sent(next.r) /\ (next.seen = Unset \/ RowTells(next.seen)) /\ (next.r.id \in Lines \/ next.todo \in Seq(Anonymous))
    BY <1>1, <2>3 DEF EditTells
  <2>13. EditTells(next)
    <3>1. next.opened \in BOOLEAN
      BY <1>2, <2>3
    <3> QED BY <1>2, <2>3, <2>8, <2>11, <2>12, <3>1, Zenon DEF EditTells
  <2>14. TableTells'
    BY <1>1, <2>1, TableStays DEF ContentTells
  <2> QED BY <1>1, <2>2, <2>13, <2>14, NextTells
<1> QED BY <1>3, <1>4

\* All rows are placed; the transaction is to be committed.
LEMMA AllPlacedTells ==
  ASSUME ContentTells, NEW w \in Editors, AllPlaced(w)
  PROVE  ContentTells'
<1> DEFINE e == editing[w]
           next == [e EXCEPT !.todo = Tail(e.todo)]
<1>1. /\ Serving(w) /\ Head(e.todo) = "place" /\ EditTells(e) /\ DOMAIN e = EditFields
      /\ UNCHANGED <<table, line>> /\ e.placed = Len(e.r.ids) /\ Onward(w, e) /\ Arranges(w)
  BY ServingTells DEF AllPlaced, Due
<1>2. /\ table \in Reordered /\ Reordering(e) /\ table \notin Campaigns
      /\ e.todo = <<"place", "commit">> /\ e.opened = TRUE
  BY <1>1, WhoseStep, ReorderHeads, NoCampaign
<1>3. Len(e.todo) = 2 /\ Tail(e.todo) = <<"commit">>
  <2>1. Len(<<"place", "commit">>) = 2 /\ Tail(<<"place", "commit">>) = <<"commit">>
    OBVIOUS
  <2> QED BY <1>2, <2>1
<1>4. arranged' = arranged
  BY <1>1, <1>3 DEF Arranges
<1>5. /\ DOMAIN next = EditFields /\ next.todo = <<"commit">> /\ next.opened = e.opened /\ next.placed = e.placed
      /\ next.wrote = e.wrote /\ next.seen = e.seen /\ next.r = e.r
  BY <1>1, <1>3 DEF EditFields
<1> HIDE DEF next
<1>6. Reordering(next)
  <2>1. /\ Listed(e.r.ids) /\ e.placed \in 0 .. Len(e.r.ids)
        /\ DOMAIN e.wrote = {e.r.ids[k].id : k \in 1 .. e.placed}
        /\ \A k \in 1 .. e.placed :
             e.wrote[e.r.ids[k].id].place = e.r.ids[k].place
    BY <1>2, Zenon DEF Reordering
  <2>2. e.placed = Len(e.r.ids)
    BY <1>1
  <2> HIDE DEF e
  <2>3. /\ Listed(next.r.ids) /\ next.placed \in 0 .. Len(next.r.ids)
        /\ DOMAIN next.wrote = {next.r.ids[k].id : k \in 1 .. next.placed}
        /\ \A k \in 1 .. next.placed :
             next.wrote[next.r.ids[k].id].place = next.r.ids[k].place
    BY <1>5, <2>1
  <2>4. next.placed = Len(next.r.ids) /\ next.opened = TRUE
    BY <1>2, <1>5, <2>2
  <2> QED BY <1>5, <2>3, <2>4, Zenon DEF Reordering
<1>7. Sent(next.r) /\ (next.seen = Unset \/ RowTells(next.seen)) /\ Stored(next.wrote) /\ next.opened \in BOOLEAN
  BY <1>1, <1>5 DEF EditTells
<1>8. next.todo \in Seq(Anonymous)
  <2>1. <<"commit">> \in Seq(Anonymous)
    BY SMT DEF Anonymous
  <2> QED BY <1>5, <2>1
<1>9. EditTells(next)
  BY <1>2, <1>5, <1>6, <1>7, <1>8, Zenon DEF EditTells
<1>10. TableTells'
  BY <1>1, <1>4, TableStays DEF ContentTells
<1> QED BY <1>1, <1>9, <1>10, OnwardTells DEF next

\* What was written is there for all; a reorder has every row where it is
\* said to be.
LEMMA CommitTells ==
  ASSUME ContentTells, NEW w \in Editors, Commit(w)
  PROVE  ContentTells'
<1> DEFINE e == editing[w]
           next == [e EXCEPT !.todo = Tail(e.todo)]
<1>1. /\ Serving(w) /\ Head(e.todo) = "commit" /\ EditTells(e) /\ DOMAIN e = EditFields
      /\ table' = table /\ line' = Sees(w) /\ Onward(w, e) /\ Arranges(w)
  BY ServingTells DEF Commit, Due
<1>2. /\ DOMAIN line' = Lines /\ Stored(line)'
      /\ \A x \in Lines : line'[x] = IF x \in DOMAIN e.wrote THEN e.wrote[x] ELSE line[x]
  <2>1. DOMAIN line' = Lines /\ Stored(line')
    BY <1>1, SeesRows
  <2>2. Stored(line)'
    BY <1>1, <2>1, TellAgain DEF Stored
  <2> QED BY <1>1, <2>1, <2>2, SeesRows
<1>3. CASE table \in Reordered
  <2>1. Reordering(e) /\ e.todo = <<"commit">> /\ e.placed = Len(e.r.ids)
    BY <1>1, <1>3, WhoseStep, ReorderHeads
  <2>2. Len(e.todo) = 1
    <3>1. Len(<<"commit">>) = 1
      OBVIOUS
    <3> QED BY <2>1, <3>1
  <2>3. PICK ids, n : ids = e.r.ids /\ n = Len(ids)
    OBVIOUS
  <2>4. /\ Listed(ids) /\ n \in Nat /\ DOMAIN ids = 1 .. n
        /\ DOMAIN e.wrote = {ids[k].id : k \in 1 .. n}
        /\ \A k \in 1 .. n : e.wrote[ids[k].id].place = ids[k].place
    <3>1. /\ Listed(e.r.ids) /\ DOMAIN e.wrote = {e.r.ids[k].id : k \in 1 .. e.placed}
          /\ \A k \in 1 .. e.placed : e.wrote[e.r.ids[k].id].place = e.r.ids[k].place
      BY <2>1, Zenon DEF Reordering
    <3>2. Listed(ids) /\ Len(ids) \in Nat /\ DOMAIN ids = 1 .. Len(ids)
      <4>1. Listed(ids)
        BY <2>3, <3>1
      <4> QED BY <4>1 DEF Listed
    <3>3. e.placed = n /\ e.r.ids = ids
      BY <2>1, <2>3
    <3>4. DOMAIN e.wrote = {ids[k].id : k \in 1 .. n}
      BY <3>1, <3>3, Zenon
    <3>5. \A k \in 1 .. n : e.wrote[ids[k].id].place = ids[k].place
      BY <3>1, <3>3, Zenon
    <3> HIDE DEF e
    <3> QED BY <2>3, <3>2, <3>4, <3>5, Zenon
  <2> DEFINE Said(s) == [x \in {s[k].id : k \in DOMAIN s} |->
                           (CHOOSE item \in {s[k] : k \in DOMAIN s} : item.id = x).place]
             said == Said(ids)
  <2>5. arranged' = Over(said, arranged)
    <3>1. ~(Len(e.todo) > 1)
      BY <2>2
    <3>2. arranged' = Over(Said(e.r.ids), arranged)
      BY <1>1, <3>1, Zenon DEF Arranges
    <3> HIDE DEF Said
    <3> QED BY <2>3, <3>2, Zenon
  <2>6. DOMAIN said = DOMAIN e.wrote
    BY <2>4, Zenon
  <2>7. ASSUME NEW k \in 1 .. n PROVE said[ids[k].id] = ids[k].place
    <3> DEFINE Items == {ids[j] : j \in DOMAIN ids}
    <3>1. \A u \in Items : u.id = ids[k].id => u = ids[k]
      BY <2>3, <2>4, <2>7 DEF Listed
    <3>2. ids[k] \in Items /\ ids[k].id = ids[k].id
      BY <2>4, <2>7
    <3>3. (CHOOSE item \in Items : item.id = ids[k].id) = ids[k]
      <4> HIDE DEF Items
      <4> QED BY <3>1, <3>2, Zenon
    <3> QED BY <2>4, <2>7, <3>3, Zenon
  <2> HIDE DEF said
  <2>8. ASSUME NEW x \in DOMAIN e.wrote PROVE e.wrote[x].place = said[x]
    <3>1. PICK k \in 1 .. n : x = ids[k].id
      BY <2>4, <2>8, Zenon
    <3> QED BY <2>4, <2>7, <3>1, Zenon
  <2>9. DOMAIN e.wrote \subseteq Lines
    BY <1>1 DEF EditTells, Stored
  <2>10. /\ DOMAIN arranged' = DOMAIN e.wrote \cup DOMAIN arranged
         /\ \A x \in DOMAIN arranged' : arranged'[x] = IF x \in DOMAIN e.wrote THEN said[x] ELSE arranged[x]
    BY <2>5, <2>6, Zenon DEF Over
  <2>11. TableTells /\ DOMAIN arranged \subseteq Lines /\ ReordersAreWhole
    BY DEF ContentTells, TableTells
  <2>12. ASSUME NEW x \in DOMAIN arranged' PROVE line'[x].place = arranged'[x]
    <3>1. x \in Lines
      BY <2>9, <2>10, <2>11, <2>12, Zenon
    <3>2. CASE x \in DOMAIN e.wrote
      BY <1>2, <2>8, <2>10, <2>12, <3>1, <3>2, Zenon
    <3>3. CASE x \notin DOMAIN e.wrote
      BY <1>2, <2>10, <2>11, <2>12, <3>1, <3>3, Zenon DEF ReordersAreWhole
    <3> QED BY <3>2, <3>3
  <2>13. ReordersAreWhole'
    BY <2>12, Zenon DEF ReordersAreWhole
  <2>14. TableTells'
    BY <1>1, <1>2, <1>3, <2>9, <2>10, <2>11, <2>13 DEF TableTells
  <2> QED BY <1>1, <2>2, <2>14, OnwardTells
<1>4. CASE table \notin Reordered
  <2>1. DOMAIN arranged' = {}
    <3>1. DOMAIN arranged = {} /\ e.r.ids = <<>>
      BY <1>1, <1>4 DEF ContentTells, TableTells, EditTells
    <3>2. DOMAIN e.r.ids = {}
      BY <3>1
    <3> QED BY <1>1, <3>1, <3>2 DEF Arranges, Over
  <2>2. TableTells'
    BY <1>1, <1>2, <2>1 DEF ContentTells, TableTells, ReordersAreWhole
  <2>3. ASSUME Len(e.todo) # 1 PROVE EditTells(next)
    <3>1. /\ DOMAIN next = EditFields /\ next.todo = Tail(e.todo) /\ next.opened = e.opened /\ next.placed = e.placed
          /\ next.wrote = e.wrote /\ next.seen = e.seen /\ next.r = e.r
      BY <1>1 DEF EditFields
    <3> HIDE DEF e, next
    <3>2. ASSUME NEW S, e.todo \in Seq(S) \ {<<>>} PROVE next.todo \in Seq(S) \ {<<>>}
      BY <2>3, <3>1, <3>2, TailRemains, Zenon
    <3>3. e.todo \in Seq(OtherSteps) \ {<<>>} /\ e.r.ids = <<>>
      BY <1>1, <1>4 DEF EditTells
    <3>4. next.r.id \in Lines \/ next.todo \in Seq(Anonymous)
      BY <1>1, <3>1, <3>2, <3>3, Zenon DEF EditTells
    <3>5. table \notin Campaigns
      <4>1. table \in Campaigns => Len(e.todo) = 1
        BY <1>1, CampaignHeads DEF EditTells
      <4> QED BY <2>3, <4>1
    <3> QED BY <1>1, <1>4, <3>1, <3>2, <3>3, <3>4, <3>5, Zenon DEF EditTells
  <2> QED BY <1>1, <2>2, <2>3, OnwardTells
<1> QED BY <1>3, <1>4

LEMMA SubmitTells ==
  ASSUME ContentTells, ContentAssumption, NEW w \in Editors, NEW program \in Handlers[table],
         NEW r \in Requests(program), Submit(w, program, r)
  PROVE  ContentTells'
<1> DEFINE next == [todo |-> program, r |-> r, seen |-> Unset, opened |-> FALSE, wrote |-> <<>>, placed |-> 0]
<1>1. editing' = [editing EXCEPT ![w] = next] /\ UNCHANGED <<table, line, arranged>>
  BY DEF Submit
<1>2. EditTells(next)
  BY BeginTells
<1>3. TableTells'
  BY <1>1, TableStays DEF ContentTells
<1> HIDE DEF next
<1> QED BY <1>1, <1>2, <1>3, NextTells

-----------------------------------------------------------------------------
(* Theorems.                                                                *)

LEMMA ContentStart == ContentAssumption /\ ContentInit => ContentTells
<1> SUFFICES ASSUME ContentAssumption, ContentInit PROVE ContentTells
  OBVIOUS
<1>1. table \in DOMAIN Handlers /\ DOMAIN line = Lines /\ DOMAIN arranged = {}
  BY DEF ContentInit
<1>2. ASSUME NEW x \in Lines PROVE line[x] = Unset \/ RowTells(line[x])
  <2>1. CASE table = "reviews"
    <3>1. line[x] = Blank
      BY <2>1 DEF ContentInit
    <3>2. RowTells(Blank)
      <4>1. table \notin Dated /\ table \notin Campaigns
        BY <2>1 DEF Campaigns, Dated
      <4> QED BY <4>1 DEF RowTells, Blank, RowFields
    <3> QED BY <3>1, <3>2
  <2>2. CASE table # "reviews"
    BY <2>2 DEF ContentInit
  <2> QED BY <2>1, <2>2
<1>3. editing = [w \in Editors |-> editing[w]] /\ \A w \in Editors : editing[w] = Unset
  BY DEF ContentInit
<1> QED BY <1>1, <1>2, <1>3 DEF ContentTells, TableTells, Stored, ReordersAreWhole

LEMMA ContentSame == ContentTells /\ UNCHANGED <<table, line, arranged, editing>> => ContentTells'
<1> SUFFICES ASSUME ContentTells, UNCHANGED <<table, line, arranged, editing>> PROVE ContentTells'
  OBVIOUS
<1>1. TableTells'
  BY TableStays DEF ContentTells
<1>2. \A u : EditTells(u) => EditTells(u)'
  BY TellAgain
<1>3. \A w \in Editors : editing'[w] = Unset \/ EditTells(editing'[w])
  BY DEF ContentTells
<1>4. (\A w \in Editors : \A u \in {editing[w]} : u = Unset \/ EditTells(u))'
  BY <1>2, <1>3, Zenon
<1> QED BY <1>1, <1>4 DEF ContentTells

LEMMA ContentStepTells ==
  ASSUME ContentTells, ContentAssumption, ContentNext
  PROVE  ContentTells'
<1>1. ASSUME NEW w \in Editors, NEW program \in Handlers[table], NEW r \in Requests(program), Submit(w, program, r)
      PROVE  ContentTells'
  BY <1>1, SubmitTells
<1>2. ASSUME NEW w \in Editors, ContentStep(w) PROVE ContentTells'
  <2>1. FindRow(w) => ContentTells'
    BY FindTells
  <2>2. CheckTwin(w) \/ CheckUses(w) \/ CheckRoom(w) \/ CountRows(w) => ContentTells'
    <3>1. CheckTwin(w) => \E fine : Due(w, "twin") /\ Checks(w, fine)
      BY DEF CheckTwin
    <3>2. CheckUses(w) => \E fine : Due(w, "uses") /\ Checks(w, fine)
      BY DEF CheckUses
    <3>3. CheckRoom(w) => \E fine : Due(w, "room") /\ Checks(w, fine)
      BY Zenon DEF CheckRoom
    <3>4. CountRows(w) => \E fine : Due(w, "count") /\ Checks(w, fine)
      BY Zenon DEF CountRows
    <3> QED BY <3>1, <3>2, <3>3, <3>4, CheckTells
  <2>3. NextPlace(w) => ContentTells'
    BY NextPlaceTells
  <2>4. CheckDates(w) => ContentTells'
    BY CheckDatesTells
  <2>5. SettleDates(w) => ContentTells'
    BY SettleDatesTells
  <2>6. SettleFlags(w) => ContentTells'
    BY SettleFlagsTells
  <2>7. KeepFound(w) => ContentTells'
    BY KeepTells
  <2>8. HideOthers(w) \/ InsertRow(w) \/ UpdateRow(w) \/ UpsertRow(w) \/ RemoveRow(w) => ContentTells'
    BY HideTells, InsertTells, UpdateTells, UpsertTells, RemoveTells
  <2>9. PlaceRow(w) \/ AllPlaced(w) \/ Commit(w) \/ BeginTransaction(w) => ContentTells'
    BY PlaceTells, AllPlacedTells, CommitTells, BeginTransactionTells
  <2>10. GoesDown(w) => ContentTells'
    BY StopsTell DEF GoesDown
  <2> QED
    BY <1>2, <2>1, <2>2, <2>3, <2>4, <2>5, <2>6, <2>7, <2>8, <2>9, <2>10, Zenon DEF ContentStep
<1>3. ASSUME NEW g_ \in Goods, NEW x \in Lines \cup {Unset}, Refer(g_, x) PROVE ContentTells'
  <2>1. UNCHANGED <<table, line, arranged, editing>>
    BY <1>3 DEF Refer
  <2> QED BY <2>1, ContentSame
<1> QED BY <1>1, <1>2, <1>3, Zenon DEF ContentNext

\* What the staff can do keeps what is known of each request, and of the rows.
THEOREM ContentTold == ContentSpec => []ContentTells
<1>1. ContentInit => ContentTells
  BY ContentStart, ContentAssumption
<1>2. ContentTells /\ [ContentNext]_contentVars => ContentTells'
  <2>1. ContentTells /\ UNCHANGED contentVars => ContentTells'
    BY ContentSame DEF contentVars
  <2> QED BY <2>1, ContentStepTells, ContentAssumption
<1> QED BY <1>1, <1>2, PTL DEF ContentSpec

\* Rows stand in the order of the last submission that placed them, whole,
\* however many reorder, change and delete at the same time (cms.service.ts).
THEOREM ReordersWhole == ContentSpec => []ReordersAreWhole
<1>1. ContentTells => ReordersAreWhole
  BY DEF ContentTells, TableTells
<1> QED BY <1>1, ContentTold, PTL

\* What is stored of a campaign has both dates, in order.
LEMMA Campaigning == ContentTells => CampaignsRunForward
<1> SUFFICES ASSUME ContentTells, table \in Campaigns, NEW x \in Present(line) PROVE Forward(line[x])
  BY DEF CampaignsRunForward, Campaigns
<1>1. BothGiven(line[x])
  BY DEF ContentTells, TableTells, Stored, RowTells, Present
<1> QED BY <1>1 DEF BothGiven, Forward

\* Campaigns end after they begin, even when two edits of one overlap
\* (urgency-banner and flash-sale services).
THEOREM CampaignsForward == ContentSpec => []CampaignsRunForward
  BY Campaigning, ContentTold, PTL

-----------------------------------------------------------------------------
(* One request at a time.                                                   *)

\* What each statement does to its request, who goes on with the rest.
Proceeds(e, n) == /\ n.todo = Tail(e.todo) /\ n.seen = e.seen /\ n.opened = e.opened
              /\ n.wrote = e.wrote /\ n.r = e.r
Untouched == UNCHANGED <<table, line, refers, lost>>

LEMMA OnwardGoes ==
  ASSUME ContentTells, NEW w \in Editors, NEW local, DOMAIN local = EditFields, Onward(w, local)
  PROVE  /\ Len(local.todo) = 1 => editing'[w] = Unset
         /\ Len(local.todo) # 1 => Proceeds(local, editing'[w])
         /\ \A v \in Editors \ {w} : editing'[v] = editing[v]
<1> DEFINE next == IF Len(local.todo) = 1 THEN Unset ELSE [local EXCEPT !.todo = Tail(@)]
<1>1. editing'[w] = next /\ \A v \in Editors \ {w} : editing'[v] = editing[v]
  BY Zenon DEF Onward, ContentTells
<1>2. Len(local.todo) # 1 => Proceeds(local, [local EXCEPT !.todo = Tail(@)])
  BY Zenon DEF Proceeds, EditFields
<1> QED BY <1>1, <1>2, Zenon

LEMMA StopsGo ==
  ASSUME ContentTells, NEW w \in Editors, Stops(w)
  PROVE  editing'[w] = Unset /\ \A v \in Editors \ {w} : editing'[v] = editing[v]
  BY Zenon DEF Stops, ContentTells

LEMMA ChecksGo ==
  ASSUME ContentTells, NEW w \in Editors, Serving(w), NEW fine, Checks(w, fine)
  PROVE  /\ Untouched /\ (editing'[w] = Unset \/ (fine /\ Proceeds(editing[w], editing'[w])))
         /\ \A v \in Editors \ {w} : editing'[v] = editing[v]
<1>1. DOMAIN editing[w] = EditFields
  BY ServingTells
<1>2. Untouched
  BY DEF Checks, Untouched
<1>3. CASE fine
  <2>1. Onward(w, editing[w])
    BY <1>3 DEF Checks
  <2> QED BY <1>1, <1>2, <1>3, <2>1, OnwardGoes
<1>4. CASE ~fine
  <2>1. Stops(w)
    BY <1>4 DEF Checks
  <2> QED BY <1>2, <2>1, StopsGo
<1> QED BY <1>3, <1>4

LEMMA FindGoes ==
  ASSUME ContentTells, NEW w \in Editors, FindRow(w)
  PROVE  /\ Untouched
         /\ \/ editing'[w] = Unset
            \/ /\ Sees(w)[editing[w].r.id] # Unset /\ editing'[w].seen = Sees(w)[editing[w].r.id]
               /\ editing'[w].todo = Tail(editing[w].todo) /\ editing'[w].opened = editing[w].opened
               /\ editing'[w].wrote = editing[w].wrote /\ editing'[w].r = editing[w].r
         /\ \A v \in Editors \ {w} : editing'[v] = editing[v]
<1> DEFINE e == editing[w]
           row_ == Sees(w)[e.r.id]
           local == [e EXCEPT !.seen = row_]
<1>1. DOMAIN e = EditFields /\ Serving(w)
  BY ServingTells DEF FindRow, Due
<1>2. CASE row_ = Unset
  <2>1. Checks(w, FALSE)
    BY <1>2 DEF FindRow
  <2> QED BY <1>1, <2>1, ChecksGo
<1>3. CASE row_ # Unset
  <2>1. Onward(w, local) /\ Untouched
    BY <1>3 DEF FindRow, Reads, Untouched
  <2>2. /\ DOMAIN local = EditFields /\ local.todo = e.todo /\ local.opened = e.opened
        /\ local.wrote = e.wrote /\ local.r = e.r /\ local.seen = row_
    BY <1>1 DEF EditFields
  <2> HIDE DEF local, row_
  <2>3. /\ Len(local.todo) = 1 => editing'[w] = Unset
        /\ Len(local.todo) # 1 => Proceeds(local, editing'[w])
        /\ \A v \in Editors \ {w} : editing'[v] = editing[v]
    BY <2>1, <2>2, OnwardGoes
  <2> QED BY <1>3, <2>1, <2>2, <2>3, Zenon DEF Proceeds, row_
<1> QED BY <1>2, <1>3

\* The place is all a request learns here.
LEMMA NextGoes ==
  ASSUME ContentTells, NEW w \in Editors, NextPlace(w)
  PROVE  /\ Untouched
         /\ \/ editing'[w] = Unset
            \/ /\ editing'[w].todo = Tail(editing[w].todo) /\ editing'[w].opened = editing[w].opened
               /\ editing'[w].wrote = editing[w].wrote /\ editing'[w].seen = editing[w].seen
               /\ editing'[w].r.shown = editing[w].r.shown /\ editing'[w].r.id = editing[w].r.id
               /\ editing'[w].r.from = editing[w].r.from /\ editing'[w].r.to = editing[w].r.to
         /\ \A v \in Editors \ {w} : editing'[v] = editing[v]
<1> DEFINE e == editing[w]
<1>1. Serving(w) /\ EditTells(e) /\ DOMAIN e = EditFields
  BY ServingTells DEF NextPlace, Due
<1>2. PICK place : Reads(w, [e EXCEPT !.r.place = place])
  BY Zenon DEF NextPlace
<1> DEFINE local == [e EXCEPT !.r.place = place]
<1>3. DOMAIN e.r = RowFields \cup {"id", "ids"}
  BY <1>1 DEF EditTells, Sent
<1>4. /\ DOMAIN local = EditFields /\ local.todo = e.todo /\ local.opened = e.opened
      /\ local.wrote = e.wrote /\ local.seen = e.seen /\ local.r = [e.r EXCEPT !.place = place]
  BY <1>1 DEF EditFields
<1>5. /\ local.r.shown = e.r.shown /\ local.r.id = e.r.id
      /\ local.r.from = e.r.from /\ local.r.to = e.r.to
  BY <1>3, <1>4 DEF RowFields
<1> HIDE DEF local
<1>6. Onward(w, local) /\ Untouched
  BY <1>2 DEF local, Reads, Untouched
<1>7. /\ Len(local.todo) = 1 => editing'[w] = Unset
      /\ Len(local.todo) # 1 => Proceeds(local, editing'[w])
      /\ \A v \in Editors \ {w} : editing'[v] = editing[v]
  BY <1>4, <1>6, OnwardGoes
<1> QED BY <1>4, <1>5, <1>6, <1>7, Zenon DEF Proceeds

\* Rows are written for all to see.
LEMMA AltersGo ==
  ASSUME ContentTells, NEW w \in Editors, Serving(w), editing[w].opened = FALSE,
         NEW rows, DOMAIN rows \subseteq Lines, Alters(w, rows, editing[w])
  PROVE  /\ DOMAIN line' = Lines
         /\ \A x \in Lines : line'[x] = IF x \in DOMAIN rows THEN rows[x] ELSE line[x]
         /\ Len(editing[w].todo) = 1 => editing'[w] = Unset
         /\ Len(editing[w].todo) # 1 => Proceeds(editing[w], editing'[w])
         /\ \A v \in Editors \ {w} : editing'[v] = editing[v]
<1>1. DOMAIN editing[w] = EditFields
  BY ServingTells
<1>2. line' = Over(rows, line) /\ Onward(w, editing[w])
  BY DEF Alters
<1>3. DOMAIN line = Lines
  BY DEF ContentTells, TableTells
<1>4. DOMAIN line' = Lines /\ \A x \in Lines : line'[x] = IF x \in DOMAIN rows THEN rows[x] ELSE line[x]
  BY <1>2, <1>3, Zenon DEF Over
<1> QED BY <1>1, <1>2, <1>4, OnwardGoes

\* Each statement is the first one that is left.
LEMMA WhichStep ==
  ASSUME NEW w, ContentStep(w), NEW h, h = Head(editing[w].todo)
  PROVE  /\ Serving(w)
         /\ \/ GoesDown(w)
            \/ h = "find" /\ FindRow(w)
            \/ h = "twin" /\ CheckTwin(w)
            \/ h = "uses" /\ CheckUses(w)
            \/ h = "room" /\ CheckRoom(w)
            \/ h = "next" /\ NextPlace(w)
            \/ h = "dates" /\ CheckDates(w)
            \/ h = "settle" /\ SettleDates(w)
            \/ h = "flags" /\ SettleFlags(w)
            \/ h = "count" /\ CountRows(w)
            \/ h = "keep" /\ KeepFound(w)
            \/ h = "hide" /\ HideOthers(w)
            \/ h = "insert" /\ InsertRow(w)
            \/ h = "update" /\ UpdateRow(w)
            \/ h = "upsert" /\ UpsertRow(w)
            \/ h = "delete" /\ RemoveRow(w)
            \/ h = "place" /\ (PlaceRow(w) \/ AllPlaced(w))
            \/ h = "begin" /\ BeginTransaction(w)
            \/ h = "commit" /\ Commit(w)
<1>1. CheckUses(w) => Due(w, "uses")
  BY DEF CheckUses
<1>2. /\ CheckTwin(w) => Due(w, "twin")
      /\ FindRow(w) => Due(w, "find")
      /\ CheckRoom(w) => Due(w, "room")
      /\ NextPlace(w) => Due(w, "next")
      /\ CheckDates(w) => Due(w, "dates")
  BY Zenon DEF CheckTwin, FindRow, CheckRoom, NextPlace, CheckDates
<1>3. /\ SettleDates(w) => Due(w, "settle")
      /\ SettleFlags(w) => Due(w, "flags")
      /\ CountRows(w) => Due(w, "count")
      /\ KeepFound(w) => Due(w, "keep")
      /\ HideOthers(w) => Due(w, "hide")
  BY Zenon DEF SettleDates, SettleFlags, CountRows, KeepFound, HideOthers
<1>4. /\ InsertRow(w) => Due(w, "insert")
      /\ UpdateRow(w) => Due(w, "update")
      /\ UpsertRow(w) => Due(w, "upsert")
      /\ RemoveRow(w) => Due(w, "delete")
  BY Zenon DEF InsertRow, UpdateRow, UpsertRow, RemoveRow
<1>5. /\ PlaceRow(w) => Due(w, "place")
      /\ AllPlaced(w) => Due(w, "place")
      /\ BeginTransaction(w) => Due(w, "begin")
      /\ Commit(w) => Due(w, "commit")
  BY Zenon DEF PlaceRow, AllPlaced, BeginTransaction, Commit
<1>6. GoesDown(w) => Serving(w)
  BY DEF GoesDown
<1>7. \A s : Due(w, s) => Serving(w) /\ h = s
  BY DEF Due
<1> QED BY <1>1, <1>2, <1>3, <1>4, <1>5, <1>6, <1>7, SMT DEF ContentStep

\* Outside a transaction a request sees what is committed.
LEMMA SeesLine ==
  ASSUME ContentTells, NEW w \in Editors, Serving(w), DOMAIN editing[w].wrote = {}
  PROVE  \A x \in Lines : Sees(w)[x] = line[x]
  BY SeesRows

LEMMA InsertGoes ==
  ASSUME ContentTells, NEW w \in Editors, InsertRow(w), editing[w].opened = FALSE
  PROVE  /\ UNCHANGED <<table, refers, lost>>
         /\ \/ editing'[w] = Unset /\ line' = line
            \/ \E x \in Lines : \A y \in Lines : line'[y] = IF y = x THEN RowGiven(w) ELSE line[y]
         /\ Len(editing[w].todo) = 1 => editing'[w] = Unset
         /\ \A v \in Editors \ {w} : editing'[v] = editing[v]
<1>1. Serving(w) /\ UNCHANGED <<table, refers, lost>>
  BY DEF InsertRow, Due
<1>2. CASE Stops(w) /\ line' = line
  BY <1>1, <1>2, StopsGo
<1>3. CASE \E x \in Fresh(w) : Alters(w, Just(x, RowGiven(w)), editing[w])
  <2>1. PICK x \in Lines : Alters(w, Just(x, RowGiven(w)), editing[w])
    BY <1>3 DEF Fresh
  <2>2. DOMAIN Just(x, RowGiven(w)) = {x} /\ Just(x, RowGiven(w))[x] = RowGiven(w)
    BY DEF Just
  <2>3. DOMAIN Just(x, RowGiven(w)) \subseteq Lines
    BY <2>2
  <2>4. /\ \A y \in Lines : line'[y] = IF y \in DOMAIN Just(x, RowGiven(w)) THEN Just(x, RowGiven(w))[y] ELSE line[y]
        /\ Len(editing[w].todo) = 1 => editing'[w] = Unset
        /\ \A v \in Editors \ {w} : editing'[v] = editing[v]
    BY <1>1, <2>1, <2>3, AltersGo
  <2> QED BY <1>1, <2>2, <2>4, Zenon
<1>4. \/ Stops(w) /\ UNCHANGED <<line, arranged>>
      \/ \E x \in Fresh(w) : Alters(w, Just(x, RowGiven(w)), editing[w])
  BY DEF InsertRow
<1> QED BY <1>2, <1>3, <1>4

LEMMA UpdateGoes ==
  ASSUME ContentTells, NEW w \in Editors, UpdateRow(w), editing[w].opened = FALSE, DOMAIN editing[w].wrote = {}
  PROVE  /\ UNCHANGED <<table, refers, lost>>
         /\ \/ editing'[w] = Unset /\ line' = line
            \/ /\ editing[w].r.id \in Lines /\ line[editing[w].r.id] # Unset
               /\ \A y \in Lines :
                    line'[y] = IF y = editing[w].r.id THEN Changed(line[y], editing[w].r) ELSE line[y]
         /\ Len(editing[w].todo) = 1 => editing'[w] = Unset
         /\ \A v \in Editors \ {w} : editing'[v] = editing[v]
<1> DEFINE x == editing[w].r.id
           new == Changed(Sees(w)[x], editing[w].r)
<1>1. Serving(w) /\ UNCHANGED <<table, refers, lost>>
  BY DEF UpdateRow, Due
<1>2. CASE Stops(w) /\ line' = line
  BY <1>1, <1>2, StopsGo
<1>3. CASE x \in Present(Sees(w)) /\ Alters(w, Just(x, new), editing[w])
  <2>1. x \in Lines /\ line[x] # Unset /\ new = Changed(line[x], editing[w].r)
    BY <1>1, <1>3, SeesLine DEF Present
  <2> HIDE DEF new
  <2>2. DOMAIN Just(x, new) = {x} /\ Just(x, new)[x] = new
    BY DEF Just
  <2>3. DOMAIN Just(x, new) \subseteq Lines
    BY <2>1, <2>2
  <2>4. /\ \A y \in Lines : line'[y] = IF y \in DOMAIN Just(x, new) THEN Just(x, new)[y] ELSE line[y]
        /\ Len(editing[w].todo) = 1 => editing'[w] = Unset
        /\ \A v \in Editors \ {w} : editing'[v] = editing[v]
    <3>1. PICK rows : rows = Just(x, new)
      OBVIOUS
    <3>2. DOMAIN rows \subseteq Lines /\ Alters(w, rows, editing[w])
      BY <1>3, <2>3, <3>1
    <3>3. /\ \A y \in Lines : line'[y] = IF y \in DOMAIN rows THEN rows[y] ELSE line[y]
          /\ Len(editing[w].todo) = 1 => editing'[w] = Unset
          /\ \A v \in Editors \ {w} : editing'[v] = editing[v]
      BY <1>1, <3>2, AltersGo
    <3> QED BY <3>1, <3>3
  <2> QED BY <1>1, <2>1, <2>2, <2>4, Zenon
<1> QED BY <1>2, <1>3 DEF UpdateRow

LEMMA RemoveGoes ==
  ASSUME ContentTells, NEW w \in Editors, RemoveRow(w)
  PROVE  /\ table' = table
         /\ DOMAIN editing[w].wrote = {} /\ editing[w].opened = FALSE =>
              \A y \in Lines : line'[y] = line[y] \/ line'[y] = Unset
         /\ \/ UNCHANGED <<refers, lost>>
            \/ /\ table \in Restricting => \A u \in Goods : refers[u] # editing[w].r.id
               /\ lost' = lost \cup {u \in Goods : refers[u] = editing[w].r.id}
               /\ refers' = [u \in Goods |-> IF refers[u] = editing[w].r.id THEN Unset ELSE refers[u]]
         /\ Len(editing[w].todo) = 1 => editing'[w] = Unset
         /\ \A v \in Editors \ {w} : editing'[v] = editing[v]
<1> DEFINE e == editing[w]
           x == e.r.id
           users == {u \in Goods : refers[u] = x}
<1>1. Serving(w) /\ table' = table
  BY DEF RemoveRow, Due
<1>2. CASE Stops(w) /\ UNCHANGED <<line, refers, lost>>
  BY <1>1, <1>2, StopsGo
<1>3. CASE /\ x \in Present(Sees(w)) /\ ~(users # {} /\ table \in Restricting)
           /\ Alters(w, Just(x, Unset), e) /\ lost' = lost \cup users
           /\ refers' = [u \in Goods |-> IF u \in users THEN Unset ELSE refers[u]]
  <2>1. /\ table \in Restricting => \A u \in Goods : refers[u] # x
        /\ lost' = lost \cup {u \in Goods : refers[u] = x}
        /\ refers' = [u \in Goods |-> IF refers[u] = x THEN Unset ELSE refers[u]]
    BY <1>3
  <2>2. DOMAIN e = EditFields
    BY <1>1, ServingTells
  <2>3. /\ Len(e.todo) = 1 => editing'[w] = Unset
        /\ \A v \in Editors \ {w} : editing'[v] = editing[v]
    <3>1. PICK local : local = (IF e.opened THEN [e EXCEPT !.wrote = Over(Just(x, Unset), @)] ELSE e)
      OBVIOUS
    <3>2. Onward(w, local)
      BY <1>3, <3>1, Zenon DEF Alters
    <3>3. DOMAIN local = EditFields /\ local.todo = e.todo
      BY <2>2, <3>1 DEF EditFields
    <3> QED BY <3>2, <3>3, OnwardGoes
  <2>4. ASSUME DOMAIN e.wrote = {}, e.opened = FALSE PROVE \A y \in Lines : line'[y] = line[y] \/ line'[y] = Unset
    <3>1. x \in Lines /\ DOMAIN Just(x, Unset) = {x} /\ Just(x, Unset)[x] = Unset
      BY <1>3 DEF Just, Present
    <3>2. DOMAIN Just(x, Unset) \subseteq Lines
      BY <3>1
    <3>3. \A y \in Lines : line'[y] = IF y \in DOMAIN Just(x, Unset) THEN Just(x, Unset)[y] ELSE line[y]
      BY <1>1, <1>3, <2>4, <3>2, AltersGo
    <3> QED BY <3>1, <3>3, Zenon
  <2> QED BY <1>1, <2>1, <2>3, <2>4
<1> QED BY <1>2, <1>3, Zenon DEF RemoveRow

LEMMA PlaceGoes ==
  ASSUME ContentTells, NEW w \in Editors, PlaceRow(w)
  PROVE  /\ Untouched
         /\ \/ editing'[w] = Unset
            \/ /\ editing'[w].todo = editing[w].todo /\ editing'[w].r = editing[w].r
               /\ \A x \in DOMAIN editing'[w].wrote :
                    \/ x \in DOMAIN editing[w].wrote /\ editing'[w].wrote[x] = editing[w].wrote[x]
                    \/ /\ x \in Lines /\ Sees(w)[x] # Unset
                       /\ editing'[w].wrote[x].shown = Sees(w)[x].shown
                       /\ editing'[w].wrote[x].from = Sees(w)[x].from
                       /\ editing'[w].wrote[x].to = Sees(w)[x].to
         /\ \A v \in Editors \ {w} : editing'[v] = editing[v]
<1> DEFINE e == editing[w]
           item == e.r.ids[e.placed + 1]
           new == [Sees(w)[item.id] EXCEPT !.place = item.place]
           next == [e EXCEPT !.placed = e.placed + 1, !.wrote = Over(Just(item.id, new), e.wrote)]
<1>1. Serving(w) /\ Head(e.todo) = "place" /\ EditTells(e) /\ DOMAIN e = EditFields /\ UNCHANGED <<table, refers, lost>>
  <2>1. Due(w, "place") /\ UNCHANGED <<table, refers, lost>>
    BY Zenon DEF PlaceRow
  <2> QED BY <2>1, ServingTells DEF Due
<1>2. e.opened = TRUE
  BY <1>1, WhoseStep, ReorderHeads
<1>3. CASE item.id \notin Present(Sees(w))
  <2>1. Stops(w) /\ line' = line
    BY <1>3 DEF PlaceRow
  <2> QED BY <1>1, <2>1, StopsGo DEF Untouched
<1>4. CASE item.id \in Present(Sees(w))
  <2>1. /\ editing' = [editing EXCEPT ![w].placed = @ + 1, ![w].wrote = IF e.opened THEN Over(Just(item.id, new), @) ELSE @]
        /\ line' = line
    BY <1>2, <1>4, Zenon DEF PlaceRow
  <2>2. editing' = [editing EXCEPT ![w] = next]
    <3>1. DOMAIN editing = Editors
      BY DEF ContentTells
    <3> HIDE DEF item, new
    <3> QED BY <1>1, <1>2, <2>1, <3>1 DEF EditFields
  <2>3. next.todo = e.todo /\ next.r = e.r /\ next.wrote = Over(Just(item.id, new), e.wrote)
    <3> HIDE DEF item, new
    <3> QED BY <1>1 DEF EditFields
  <2> HIDE DEF next
  <2>4. editing'[w] = next /\ \A v \in Editors \ {w} : editing'[v] = editing[v]
    BY <2>2, Zenon DEF ContentTells
  <2>5. item.id \in Lines /\ Sees(w)[item.id] # Unset /\ RowTells(Sees(w)[item.id])
    BY <1>1, <1>4, SeesRows DEF Present, Stored
  <2>6. /\ new.shown = Sees(w)[item.id].shown /\ new.from = Sees(w)[item.id].from
        /\ new.to = Sees(w)[item.id].to
    <3>1. DOMAIN Sees(w)[item.id] = RowFields
      BY <2>5 DEF RowTells
    <3> QED BY <3>1, Zenon DEF RowFields
  <2> HIDE DEF item, new
  <2>7. ASSUME NEW x \in DOMAIN next.wrote
        PROVE  \/ x \in DOMAIN e.wrote /\ next.wrote[x] = e.wrote[x]
               \/ x = item.id /\ next.wrote[x] = new
    BY <2>3, <2>7, Zenon DEF Over, Just
  <2> QED BY <1>1, <2>1, <2>3, <2>4, <2>5, <2>6, <2>7, Zenon DEF Untouched
<1> QED BY <1>3, <1>4

LEMMA BeginGoes ==
  ASSUME ContentTells, NEW w \in Editors, BeginTransaction(w)
  PROVE  /\ Untouched
         /\ \/ editing'[w] = Unset
            \/ /\ editing'[w].todo = Tail(editing[w].todo) /\ editing'[w].wrote = editing[w].wrote
               /\ editing'[w].seen = editing[w].seen /\ editing'[w].r = editing[w].r
         /\ \A v \in Editors \ {w} : editing'[v] = editing[v]
<1> DEFINE e == editing[w]
           local == [e EXCEPT !.opened = TRUE]
<1>1. DOMAIN e = EditFields /\ Onward(w, local) /\ Untouched
  BY ServingTells DEF BeginTransaction, Due, Reads, Untouched
<1>2. DOMAIN local = EditFields /\ local.todo = e.todo /\ local.wrote = e.wrote /\ local.seen = e.seen /\ local.r = e.r
  BY <1>1 DEF EditFields
<1> HIDE DEF local
<1>3. /\ Len(local.todo) = 1 => editing'[w] = Unset
      /\ Len(local.todo) # 1 => Proceeds(local, editing'[w])
      /\ \A v \in Editors \ {w} : editing'[v] = editing[v]
  BY <1>1, <1>2, OnwardGoes
<1> QED BY <1>1, <1>2, <1>3, Zenon DEF Proceeds

LEMMA PlacedGoes ==
  ASSUME ContentTells, NEW w \in Editors, AllPlaced(w)
  PROVE  /\ Untouched /\ (editing'[w] = Unset \/ Proceeds(editing[w], editing'[w]))
         /\ \A v \in Editors \ {w} : editing'[v] = editing[v]
<1>1. DOMAIN editing[w] = EditFields /\ Onward(w, editing[w]) /\ Untouched
  BY ServingTells DEF AllPlaced, Due, Untouched
<1> QED BY <1>1, OnwardGoes

LEMMA CommitGoes ==
  ASSUME ContentTells, NEW w \in Editors, Commit(w)
  PROVE  /\ UNCHANGED <<table, refers, lost>>
         /\ \A x \in Lines : line'[x] = IF x \in DOMAIN editing[w].wrote THEN editing[w].wrote[x] ELSE line[x]
         /\ Len(editing[w].todo) = 1 => editing'[w] = Unset
         /\ Len(editing[w].todo) # 1 => Proceeds(editing[w], editing'[w])
         /\ \A v \in Editors \ {w} : editing'[v] = editing[v]
<1>1. Serving(w) /\ UNCHANGED <<table, refers, lost>> /\ line' = Sees(w) /\ Onward(w, editing[w])
  BY DEF Commit, Due
<1>2. DOMAIN editing[w] = EditFields
  BY <1>1, ServingTells
<1> QED BY <1>1, <1>2, SeesRows, OnwardGoes

-----------------------------------------------------------------------------
(* What the only request knows, table by table.                             *)

OnShow == {x \in Present(line) : line[x].shown}
HasRoom == Cardinality(OnShow) < MaxShown
RoomToAdd(e) == e.r.shown # FALSE => HasRoom
RoomToShow(e) == e.r.shown = TRUE /\ ~line[e.r.id].shown => HasRoom

\* What a reorder wrote is shown only if it was.
KeepsShown(e) ==
  \A x \in DOMAIN e.wrote : e.wrote[x] # Unset => line[x] # Unset /\ (e.wrote[x].shown => line[x].shown)

\* A tile that will be shown, and is not, has room.
TileKnows(e) ==
  \/ e.todo = <<"room", "next", "insert">> /\ e.seen = Unset
  \/ e.todo \in {<<"next", "insert">>, <<"insert">>} /\ RoomToAdd(e)
  \/ e.todo = <<"find", "room", "update">>
  \/ e.todo = <<"room", "update">> /\ e.seen # Unset /\ e.seen = line[e.r.id]
  \/ e.todo = <<"update">> /\ RoomToShow(e)
  \/ e.todo \in {<<"find", "delete">>, <<"delete">>}
  \/ e.todo \in {<<"begin", "place", "commit">>, <<"place", "commit">>, <<"commit">>} /\ KeepsShown(e)

\* When a label size will be the default, no other is.
LabelKnows(e) ==
  /\ e.opened = FALSE /\ DOMAIN e.wrote = {}
  /\ \/ e.todo = <<"hide", "insert">> /\ e.r.id = Unset
     \/ e.todo = <<"insert">> /\ e.r.id = Unset /\ (e.r.shown = TRUE => OnShow \subseteq {e.r.id})
     \/ e.todo \in {<<"find", "hide", "update">>, <<"hide", "update">>}
     \/ e.todo = <<"update">> /\ (e.r.shown = TRUE => OnShow \subseteq {e.r.id})
     \/ e.todo \in {<<"find", "delete">>, <<"delete">>}

\* A review will not be both hidden and featured.
ReviewKnows(e) ==
  /\ e.opened = FALSE /\ DOMAIN e.wrote = {}
  /\ \/ e.todo = <<"find", "flags", "update">>
     \/ e.todo = <<"flags", "update">> /\ e.seen # Unset /\ e.seen = line[e.r.id]
     \/ e.todo = <<"update">> /\
          (line[e.r.id] # Unset => ~(Changed(line[e.r.id], e.r).hidden /\ Changed(line[e.r.id], e.r).shown))

\* A season will end after it begins.
SeasonKnows(e) ==
  \/ e.todo = <<"dates", "next", "insert">> /\ e.seen = Unset
  \/ e.todo \in {<<"next", "insert">>, <<"insert">>} /\ Forward(e.r)
  \/ e.todo \in {<<"find", "find", "dates", "update">>, <<"find", "dates", "update">>}
  \/ e.todo = <<"dates", "update">> /\ e.seen # Unset /\ e.seen = line[e.r.id]
  \/ e.todo = <<"update">> /\ (line[e.r.id] # Unset => Forward(Changed(line[e.r.id], e.r)))
  \/ e.todo \in {<<"find", "delete">>, <<"delete">>}
  \/ /\ e.todo \in {<<"begin", "place", "commit">>, <<"place", "commit">>, <<"commit">>}
     /\ \A x \in DOMAIN e.wrote : e.wrote[x] # Unset => Forward(e.wrote[x])

\* What is left to do of a request about a tile.
LEMMA TileHeads ==
  ASSUME NEW e, TileKnows(e)
  PROVE  /\ Head(e.todo) \in {"room", "next", "insert", "find", "update", "delete", "begin", "place", "commit"}
         /\ Head(e.todo) = "room" =>
              \/ Tail(e.todo) = <<"next", "insert">> /\ e.seen = Unset
              \/ Tail(e.todo) = <<"update">> /\ e.seen # Unset /\ e.seen = line[e.r.id]
         /\ Head(e.todo) = "next" => Tail(e.todo) = <<"insert">>
         /\ Head(e.todo) \in {"next", "insert"} => RoomToAdd(e)
         /\ Head(e.todo) = "find" => Tail(e.todo) \in {<<"room", "update">>, <<"delete">>}
         /\ Head(e.todo) = "update" => RoomToShow(e)
         /\ Head(e.todo) \in {"insert", "update", "delete", "commit"} => Len(e.todo) = 1
         /\ Head(e.todo) = "begin" => Tail(e.todo) = <<"place", "commit">>
         /\ Head(e.todo) = "place" => e.todo = <<"place", "commit">> /\ Tail(e.todo) = <<"commit">>
         /\ Head(e.todo) \in {"begin", "place", "commit"} => KeepsShown(e)
<1>1. CASE e.todo = <<"room", "next", "insert">>
  <2>1. /\ Head(<<"room", "next", "insert">>) = "room"
        /\ Len(<<"room", "next", "insert">>) = 3
        /\ Tail(<<"room", "next", "insert">>) = <<"next", "insert">>
    OBVIOUS
  <2> QED BY <1>1, <2>1 DEF TileKnows
<1>2. CASE e.todo = <<"next", "insert">>
  <2>1. /\ Head(<<"next", "insert">>) = "next"
        /\ Len(<<"next", "insert">>) = 2
        /\ Tail(<<"next", "insert">>) = <<"insert">>
    OBVIOUS
  <2> QED BY <1>2, <2>1 DEF TileKnows
<1>3. CASE e.todo = <<"insert">>
  <2>1. Head(<<"insert">>) = "insert" /\ Len(<<"insert">>) = 1
    OBVIOUS
  <2> QED BY <1>3, <2>1 DEF TileKnows
<1>4. CASE e.todo = <<"find", "room", "update">>
  <2>1. /\ Head(<<"find", "room", "update">>) = "find"
        /\ Len(<<"find", "room", "update">>) = 3
        /\ Tail(<<"find", "room", "update">>) = <<"room", "update">>
    OBVIOUS
  <2> QED BY <1>4, <2>1 DEF TileKnows
<1>5. CASE e.todo = <<"room", "update">>
  <2>1. /\ Head(<<"room", "update">>) = "room"
        /\ Len(<<"room", "update">>) = 2
        /\ Tail(<<"room", "update">>) = <<"update">>
    OBVIOUS
  <2> QED BY <1>5, <2>1 DEF TileKnows
<1>6. CASE e.todo = <<"update">>
  <2>1. Head(<<"update">>) = "update" /\ Len(<<"update">>) = 1
    OBVIOUS
  <2> QED BY <1>6, <2>1 DEF TileKnows
<1>7. CASE e.todo = <<"find", "delete">>
  <2>1. /\ Head(<<"find", "delete">>) = "find"
        /\ Len(<<"find", "delete">>) = 2
        /\ Tail(<<"find", "delete">>) = <<"delete">>
    OBVIOUS
  <2> QED BY <1>7, <2>1 DEF TileKnows
<1>8. CASE e.todo = <<"delete">>
  <2>1. Head(<<"delete">>) = "delete" /\ Len(<<"delete">>) = 1
    OBVIOUS
  <2> QED BY <1>8, <2>1 DEF TileKnows
<1>9. CASE e.todo = <<"begin", "place", "commit">>
  <2>1. /\ Head(<<"begin", "place", "commit">>) = "begin"
        /\ Len(<<"begin", "place", "commit">>) = 3
        /\ Tail(<<"begin", "place", "commit">>) = <<"place", "commit">>
    OBVIOUS
  <2> QED BY <1>9, <2>1 DEF TileKnows
<1>10. CASE e.todo = <<"place", "commit">>
  <2>1. /\ Head(<<"place", "commit">>) = "place"
        /\ Len(<<"place", "commit">>) = 2
        /\ Tail(<<"place", "commit">>) = <<"commit">>
    OBVIOUS
  <2> QED BY <1>10, <2>1 DEF TileKnows
<1>11. CASE e.todo = <<"commit">>
  <2>1. Head(<<"commit">>) = "commit" /\ Len(<<"commit">>) = 1
    OBVIOUS
  <2> QED BY <1>11, <2>1 DEF TileKnows
<1> QED BY <1>1, <1>2, <1>3, <1>4, <1>5, <1>6, <1>7, <1>8, <1>9, <1>10, <1>11, Zenon DEF TileKnows

\* What is left to do of a request about a label size.
LEMMA LabelHeads ==
  ASSUME NEW e, LabelKnows(e)
  PROVE  /\ Head(e.todo) \in {"hide", "insert", "find", "update", "delete"}
         /\ Head(e.todo) = "hide" => (Tail(e.todo) = <<"insert">> /\ e.r.id = Unset) \/ Tail(e.todo) = <<"update">>
         /\ Head(e.todo) = "hide" => Len(e.todo) # 1
         /\ Head(e.todo) = "find" => Tail(e.todo) \in {<<"hide", "update">>, <<"delete">>}
         /\ Head(e.todo) = "insert" => e.r.id = Unset
         /\ Head(e.todo) \in {"insert", "update"} /\ e.r.shown = TRUE => OnShow \subseteq {e.r.id}
         /\ Head(e.todo) \in {"insert", "update", "delete"} => Len(e.todo) = 1
<1>1. CASE e.todo = <<"hide", "insert">>
  <2>1. /\ Head(<<"hide", "insert">>) = "hide"
        /\ Len(<<"hide", "insert">>) = 2
        /\ Tail(<<"hide", "insert">>) = <<"insert">>
    OBVIOUS
  <2> QED BY <1>1, <2>1 DEF LabelKnows
<1>2. CASE e.todo = <<"insert">>
  <2>1. Head(<<"insert">>) = "insert" /\ Len(<<"insert">>) = 1
    OBVIOUS
  <2> QED BY <1>2, <2>1 DEF LabelKnows
<1>3. CASE e.todo = <<"find", "hide", "update">>
  <2>1. /\ Head(<<"find", "hide", "update">>) = "find"
        /\ Len(<<"find", "hide", "update">>) = 3
        /\ Tail(<<"find", "hide", "update">>) = <<"hide", "update">>
    OBVIOUS
  <2> QED BY <1>3, <2>1 DEF LabelKnows
<1>4. CASE e.todo = <<"hide", "update">>
  <2>1. /\ Head(<<"hide", "update">>) = "hide"
        /\ Len(<<"hide", "update">>) = 2
        /\ Tail(<<"hide", "update">>) = <<"update">>
    OBVIOUS
  <2> QED BY <1>4, <2>1 DEF LabelKnows
<1>5. CASE e.todo = <<"update">>
  <2>1. Head(<<"update">>) = "update" /\ Len(<<"update">>) = 1
    OBVIOUS
  <2> QED BY <1>5, <2>1 DEF LabelKnows
<1>6. CASE e.todo = <<"find", "delete">>
  <2>1. /\ Head(<<"find", "delete">>) = "find"
        /\ Len(<<"find", "delete">>) = 2
        /\ Tail(<<"find", "delete">>) = <<"delete">>
    OBVIOUS
  <2> QED BY <1>6, <2>1 DEF LabelKnows
<1>7. CASE e.todo = <<"delete">>
  <2>1. Head(<<"delete">>) = "delete" /\ Len(<<"delete">>) = 1
    OBVIOUS
  <2> QED BY <1>7, <2>1 DEF LabelKnows
<1> QED BY <1>1, <1>2, <1>3, <1>4, <1>5, <1>6, <1>7, Zenon DEF LabelKnows

\* What is left to do of a review.
LEMMA ReviewHeads ==
  ASSUME NEW e, ReviewKnows(e)
  PROVE  /\ Head(e.todo) \in {"find", "flags", "update"}
         /\ Head(e.todo) = "find" => Tail(e.todo) = <<"flags", "update">>
         /\ Head(e.todo) = "flags" => Tail(e.todo) = <<"update">> /\ Len(e.todo) # 1 /\ e.seen # Unset /\ e.seen = line[e.r.id]
         /\ Head(e.todo) = "update" /\ line[e.r.id] # Unset =>
              ~(Changed(line[e.r.id], e.r).hidden /\ Changed(line[e.r.id], e.r).shown)
         /\ Head(e.todo) = "update" => Len(e.todo) = 1
<1>1. CASE e.todo = <<"find", "flags", "update">>
  <2>1. /\ Head(<<"find", "flags", "update">>) = "find"
        /\ Len(<<"find", "flags", "update">>) = 3
        /\ Tail(<<"find", "flags", "update">>) = <<"flags", "update">>
    OBVIOUS
  <2> QED BY <1>1, <2>1 DEF ReviewKnows
<1>2. CASE e.todo = <<"flags", "update">>
  <2>1. /\ Head(<<"flags", "update">>) = "flags"
        /\ Len(<<"flags", "update">>) = 2
        /\ Tail(<<"flags", "update">>) = <<"update">>
    OBVIOUS
  <2> QED BY <1>2, <2>1 DEF ReviewKnows
<1>3. CASE e.todo = <<"update">>
  <2>1. Head(<<"update">>) = "update" /\ Len(<<"update">>) = 1
    OBVIOUS
  <2> QED BY <1>3, <2>1 DEF ReviewKnows
<1> QED BY <1>1, <1>2, <1>3, Zenon DEF ReviewKnows

\* What is left to do of a request about a season.
LEMMA SeasonHeads ==
  ASSUME NEW e, SeasonKnows(e)
  PROVE  /\ Head(e.todo) \in {"dates", "next", "insert", "find", "update", "delete", "begin", "place", "commit"}
         /\ Head(e.todo) = "dates" =>
              \/ Tail(e.todo) = <<"next", "insert">> /\ e.seen = Unset
              \/ Tail(e.todo) = <<"update">> /\ e.seen # Unset /\ e.seen = line[e.r.id]
         /\ Head(e.todo) = "next" => Tail(e.todo) = <<"insert">>
         /\ Head(e.todo) \in {"next", "insert"} => Forward(e.r)
         /\ Head(e.todo) = "find" =>
              Tail(e.todo) \in {<<"find", "dates", "update">>, <<"dates", "update">>, <<"delete">>}
         /\ Head(e.todo) = "update" /\ line[e.r.id] # Unset => Forward(Changed(line[e.r.id], e.r))
         /\ Head(e.todo) \in {"insert", "update", "delete", "commit"} => Len(e.todo) = 1
         /\ Head(e.todo) = "begin" => Tail(e.todo) = <<"place", "commit">>
         /\ Head(e.todo) = "place" => e.todo = <<"place", "commit">> /\ Tail(e.todo) = <<"commit">>
         /\ Head(e.todo) \in {"begin", "place", "commit"} =>
              \A x \in DOMAIN e.wrote : e.wrote[x] # Unset => Forward(e.wrote[x])
<1>1. CASE e.todo = <<"dates", "next", "insert">>
  <2>1. /\ Head(<<"dates", "next", "insert">>) = "dates"
        /\ Len(<<"dates", "next", "insert">>) = 3
        /\ Tail(<<"dates", "next", "insert">>) = <<"next", "insert">>
    OBVIOUS
  <2> QED BY <1>1, <2>1 DEF SeasonKnows
<1>2. CASE e.todo = <<"next", "insert">>
  <2>1. /\ Head(<<"next", "insert">>) = "next"
        /\ Len(<<"next", "insert">>) = 2
        /\ Tail(<<"next", "insert">>) = <<"insert">>
    OBVIOUS
  <2> QED BY <1>2, <2>1 DEF SeasonKnows
<1>3. CASE e.todo = <<"insert">>
  <2>1. Head(<<"insert">>) = "insert" /\ Len(<<"insert">>) = 1
    OBVIOUS
  <2> QED BY <1>3, <2>1 DEF SeasonKnows
<1>4. CASE e.todo = <<"find", "find", "dates", "update">>
  <2>1. /\ Head(<<"find", "find", "dates", "update">>) = "find"
        /\ Len(<<"find", "find", "dates", "update">>) = 4
        /\ Tail(<<"find", "find", "dates", "update">>) = <<"find", "dates", "update">>
    OBVIOUS
  <2> QED BY <1>4, <2>1 DEF SeasonKnows
<1>5. CASE e.todo = <<"find", "dates", "update">>
  <2>1. /\ Head(<<"find", "dates", "update">>) = "find"
        /\ Len(<<"find", "dates", "update">>) = 3
        /\ Tail(<<"find", "dates", "update">>) = <<"dates", "update">>
    OBVIOUS
  <2> QED BY <1>5, <2>1 DEF SeasonKnows
<1>6. CASE e.todo = <<"dates", "update">>
  <2>1. /\ Head(<<"dates", "update">>) = "dates"
        /\ Len(<<"dates", "update">>) = 2
        /\ Tail(<<"dates", "update">>) = <<"update">>
    OBVIOUS
  <2> QED BY <1>6, <2>1 DEF SeasonKnows
<1>7. CASE e.todo = <<"update">>
  <2>1. Head(<<"update">>) = "update" /\ Len(<<"update">>) = 1
    OBVIOUS
  <2> QED BY <1>7, <2>1 DEF SeasonKnows
<1>8. CASE e.todo = <<"find", "delete">>
  <2>1. /\ Head(<<"find", "delete">>) = "find"
        /\ Len(<<"find", "delete">>) = 2
        /\ Tail(<<"find", "delete">>) = <<"delete">>
    OBVIOUS
  <2> QED BY <1>8, <2>1 DEF SeasonKnows
<1>9. CASE e.todo = <<"delete">>
  <2>1. Head(<<"delete">>) = "delete" /\ Len(<<"delete">>) = 1
    OBVIOUS
  <2> QED BY <1>9, <2>1 DEF SeasonKnows
<1>10. CASE e.todo = <<"begin", "place", "commit">>
  <2>1. /\ Head(<<"begin", "place", "commit">>) = "begin"
        /\ Len(<<"begin", "place", "commit">>) = 3
        /\ Tail(<<"begin", "place", "commit">>) = <<"place", "commit">>
    OBVIOUS
  <2> QED BY <1>10, <2>1 DEF SeasonKnows
<1>11. CASE e.todo = <<"place", "commit">>
  <2>1. /\ Head(<<"place", "commit">>) = "place"
        /\ Len(<<"place", "commit">>) = 2
        /\ Tail(<<"place", "commit">>) = <<"commit">>
    OBVIOUS
  <2> QED BY <1>11, <2>1 DEF SeasonKnows
<1>12. CASE e.todo = <<"commit">>
  <2>1. Head(<<"commit">>) = "commit" /\ Len(<<"commit">>) = 1
    OBVIOUS
  <2> QED BY <1>12, <2>1 DEF SeasonKnows
<1> QED BY <1>1, <1>2, <1>3, <1>4, <1>5, <1>6, <1>7, <1>8, <1>9, <1>10, <1>11, <1>12, Zenon DEF SeasonKnows

LEMMA ShownSizes ==
  ASSUME ContentAssumption, NEW S \in SUBSET Lines, NEW T \in SUBSET Lines
  PROVE  /\ Cardinality(S) \in Nat /\ Cardinality(T) \in Nat
         /\ T \subseteq S => Cardinality(T) <= Cardinality(S)
         /\ \A x : T \subseteq S \cup {x} => Cardinality(T) <= Cardinality(S) + 1
<1>1. IsFiniteSet(S) /\ IsFiniteSet(T)
  BY FS_Subset DEF ContentAssumption
<1>2. Cardinality(S) \in Nat /\ Cardinality(T) \in Nat
  BY <1>1, FS_CardinalityType
<1>3. T \subseteq S => Cardinality(T) <= Cardinality(S)
  BY <1>1, FS_Subset
<1>4. ASSUME NEW x, T \subseteq S \cup {x} PROVE Cardinality(T) <= Cardinality(S) + 1
  <2>1. IsFiniteSet(S \cup {x}) /\ Cardinality(S \cup {x}) = IF x \in S THEN Cardinality(S) ELSE Cardinality(S) + 1
    BY <1>1, FS_AddElement
  <2>2. Cardinality(T) <= Cardinality(S \cup {x}) /\ Cardinality(S \cup {x}) \in Nat
    BY <1>4, <2>1, FS_Subset, FS_CardinalityType
  <2> QED BY <1>2, <2>1, <2>2
<1> QED BY <1>2, <1>3, <1>4

LEMMA OnShowRows ==
  /\ OnShow = {x \in Lines : line[x] # Unset /\ line[x].shown}
  /\ OnShow' = {x \in Lines : line'[x] # Unset /\ line'[x].shown}
  /\ OnShow \in SUBSET Lines /\ OnShow' \in SUBSET Lines
  /\ line' = line => OnShow' = OnShow
  BY DEF OnShow, Present

LEMMA StepKnown ==
  ASSUME ContentTells, NEW w \in Editors, ContentStep(w)
  PROVE  /\ Serving(w) /\ EditTells(editing[w]) /\ DOMAIN editing[w] = EditFields
         /\ GoesDown(w) => editing'[w] = Unset /\ Untouched
         /\ GoesDown(w) => \A v \in Editors \ {w} : editing'[v] = editing[v]
         /\ table \in Reordered /\ Head(editing[w].todo) \notin {"begin", "count", "keep", "place", "commit"} =>
              Plain(editing[w])
<1>1. Serving(w) /\ EditTells(editing[w]) /\ DOMAIN editing[w] = EditFields
  <2>1. Serving(w)
    BY WhichStep
  <2> QED BY <2>1, ServingTells
<1>2. GoesDown(w) => editing'[w] = Unset /\ Untouched /\ \A v \in Editors \ {w} : editing'[v] = editing[v]
  BY StopsGo DEF GoesDown, Untouched
<1>3. Reordering(editing[w]) => Head(editing[w].todo) \in {"begin", "count", "keep", "place", "commit"}
  BY ReorderHeads
<1> QED BY <1>1, <1>2, <1>3 DEF EditTells

\* A request that looks its row up names it.
LEMMA FindsNamed ==
  ASSUME NEW e, EditTells(e), Head(e.todo) \in {"find", "uses", "delete", "update", "settle", "flags"}
  PROVE  e.r.id \in Lines
<1>1. e.todo # <<>>
  BY DEF EditTells, Plain, Reordering, Reorderings
<1>2. e.todo \in Seq(Anonymous) => Head(e.todo) \in Anonymous
  BY <1>1
<1>3. Head(e.todo) \notin Anonymous
  BY DEF Anonymous
<1> QED BY <1>2, <1>3 DEF EditTells

\* A step on a tile.
LEMMA TileStep ==
  ASSUME ContentTells, ContentAssumption, table = "tiles", NEW w \in Editors, ContentStep(w),
         TileKnows(editing[w]), Cardinality(OnShow) <= MaxShown
  PROVE  /\ Cardinality(OnShow') <= MaxShown
         /\ editing'[w] = Unset \/ (Untouched /\ TileKnows(editing'[w]))
<1> DEFINE e == editing[w]
           n == editing'[w]
           h == Head(e.todo)
<1> HIDE DEF n
<1>1. Serving(w) /\ EditTells(e) /\ DOMAIN e = EditFields
  BY StepKnown
<1>2. h \notin {"begin", "place", "commit"} /\ h \in {"room", "next", "insert", "find", "update", "delete", "begin", "place", "commit"}
      => e.opened = FALSE /\ DOMAIN e.wrote = {} /\ \A x \in Lines : Sees(w)[x] = line[x]
  <2>1. table \in Reordered
    BY DEF Reordered
  <2>2. Plain(e) => e.opened = FALSE /\ DOMAIN e.wrote = {}
    BY DEF Plain
  <2> QED BY <1>1, <2>1, <2>2, StepKnown, SeesLine
<1>3. e.r.id \in Lines \cup {Unset} /\ (e.r.shown \in BOOLEAN \cup {Unset})
  BY <1>1 DEF EditTells, Sent
<1>4. Untouched => Cardinality(OnShow') <= MaxShown
  BY OnShowRows DEF Untouched
<1>5. CASE GoesDown(w)
  BY <1>4, <1>5, StepKnown DEF n
<1>6. CASE h = "find" /\ FindRow(w)
  <2>1. e.r.id \in Lines
    <3>1. e.todo \in Seq(Anonymous) /\ e.todo # <<>> => h \in Anonymous
      OBVIOUS
    <3>2. h \in {"find"}
      BY <1>6
    <3> QED BY <1>1, <3>2, FindsNamed DEF h
  <2>2. Sees(w)[e.r.id] = line[e.r.id]
    BY <1>2, <1>6, <2>1
  <2>3. /\ Untouched
        /\ \/ n = Unset
           \/ /\ n.seen # Unset /\ n.seen = line[e.r.id] /\ n.r = e.r /\ n.todo = Tail(e.todo)
    BY <1>6, <2>2, FindGoes DEF n
  <2>4. Tail(e.todo) \in {<<"room", "update">>, <<"delete">>}
    BY <1>6, TileHeads
  <2>5. ASSUME n # Unset PROVE TileKnows(n)
    <3>1. n.seen # Unset /\ n.seen = line[n.r.id] /\ n.todo \in {<<"room", "update">>, <<"delete">>}
      BY <2>3, <2>4, <2>5
    <3> QED BY <3>1, Zenon DEF TileKnows
  <2> QED BY <1>4, <2>3, <2>5 DEF n
<1>7. CASE h = "room" /\ CheckRoom(w)
  <2> DEFINE fine == (IF e.seen = Unset THEN e.r.shown # FALSE ELSE e.r.shown = TRUE /\ ~e.seen.shown) => HasRoom
  <2>1. Checks(w, fine)
    BY <1>7, Zenon DEF CheckRoom, HasRoom, OnShow
  <2> HIDE DEF fine
  <2>2. Untouched /\ (n = Unset \/ (fine /\ n.todo = Tail(e.todo) /\ n.r = e.r))
    <3>1. Untouched /\ (n = Unset \/ (fine /\ Proceeds(e, n)))
      BY <1>1, <2>1, ChecksGo, Zenon DEF n
    <3> QED BY <3>1 DEF Proceeds
  <2>3. \/ Tail(e.todo) = <<"next", "insert">> /\ e.seen = Unset
        \/ Tail(e.todo) = <<"update">> /\ e.seen # Unset /\ e.seen = line[e.r.id]
    BY <1>7, TileHeads
  <2>4. ASSUME n # Unset PROVE TileKnows(n)
    <3>1. fine /\ n.todo = Tail(e.todo) /\ n.r = e.r
      BY <2>2, <2>4
    <3>2. CASE Tail(e.todo) = <<"next", "insert">> /\ e.seen = Unset
      <4>1. RoomToAdd(n)
        BY <3>1, <3>2, Zenon DEF fine, RoomToAdd
      <4> QED BY <3>1, <3>2, <4>1, Zenon DEF TileKnows
    <3>3. CASE Tail(e.todo) = <<"update">> /\ e.seen # Unset /\ e.seen = line[e.r.id]
      <4>1. RoomToShow(n)
        BY <3>1, <3>3, Zenon DEF fine, RoomToShow
      <4> QED BY <3>1, <3>3, <4>1, Zenon DEF TileKnows
    <3> QED BY <2>3, <3>2, <3>3
  <2> QED BY <1>4, <2>2, <2>4 DEF n
<1>8. CASE h = "next" /\ NextPlace(w)
  <2>1. Untouched /\ (n = Unset \/ (n.todo = Tail(e.todo) /\ n.r.shown = e.r.shown))
    BY <1>8, NextGoes DEF n
  <2>2. Tail(e.todo) = <<"insert">> /\ RoomToAdd(e)
    BY <1>8, TileHeads
  <2>3. ASSUME n # Unset PROVE TileKnows(n)
    <3>1. n.todo = <<"insert">> /\ RoomToAdd(n)
      BY <2>1, <2>2, <2>3 DEF RoomToAdd
    <3> QED BY <3>1, Zenon DEF TileKnows
  <2> QED BY <1>4, <2>1, <2>3 DEF n
<1>9. CASE h = "insert" /\ InsertRow(w)
  <2>1. RoomToAdd(e) /\ Len(e.todo) = 1
    BY <1>9, TileHeads
  <2>2. /\ n = Unset
        /\ \/ line' = line
           \/ \E x \in Lines : \A y \in Lines : line'[y] = IF y = x THEN RowGiven(w) ELSE line[y]
    BY <1>2, <1>9, <2>1, InsertGoes DEF n
  <2>3. CASE line' = line
    BY <2>2, <2>3, OnShowRows DEF n
  <2>4. ASSUME NEW x \in Lines, \A y \in Lines : line'[y] = IF y = x THEN RowGiven(w) ELSE line[y]
        PROVE  Cardinality(OnShow') <= MaxShown
    <3>1. RowGiven(w).shown = IF e.r.shown = Unset THEN TRUE ELSE e.r.shown
      BY DEF RowGiven, Blank
    <3>2. CASE RowGiven(w).shown
      <4>1. e.r.shown # FALSE
        BY <3>1, <3>2 DEF ContentAssumption
      <4>2. Cardinality(OnShow) < MaxShown
        BY <2>1, <4>1 DEF RoomToAdd, HasRoom
      <4>3. OnShow' \subseteq OnShow \cup {x}
        BY <2>4, OnShowRows
      <4>4. OnShow \in SUBSET Lines /\ OnShow' \in SUBSET Lines
        BY OnShowRows
      <4>5. /\ {Cardinality(OnShow), Cardinality(OnShow')} \subseteq Nat
            /\ Cardinality(OnShow') <= Cardinality(OnShow) + 1
        BY <4>3, <4>4, ShownSizes, ContentAssumption
      <4> QED BY <4>2, <4>5, ContentAssumption
    <3>3. CASE ~RowGiven(w).shown
      <4>1. OnShow' \subseteq OnShow
        BY <2>4, <3>3, OnShowRows
      <4> QED BY <4>1, OnShowRows, ShownSizes DEF ContentAssumption
    <3> QED BY <3>2, <3>3
  <2> QED BY <2>2, <2>3, <2>4 DEF n
<1>10. CASE h = "update" /\ UpdateRow(w)
  <2>1. RoomToShow(e) /\ Len(e.todo) = 1
    BY <1>10, TileHeads
  <2>2. /\ n = Unset
        /\ \/ line' = line
           \/ /\ e.r.id \in Lines /\ line[e.r.id] # Unset
              /\ \A y \in Lines : line'[y] = IF y = e.r.id THEN Changed(line[y], e.r) ELSE line[y]
    BY <1>2, <1>10, <2>1, UpdateGoes DEF n
  <2>3. CASE line' = line
    BY <2>2, <2>3, OnShowRows DEF n
  <2>4. ASSUME e.r.id \in Lines, line[e.r.id] # Unset,
               \A y \in Lines : line'[y] = IF y = e.r.id THEN Changed(line[y], e.r) ELSE line[y]
        PROVE  Cardinality(OnShow') <= MaxShown
    <3>1. Changed(line[e.r.id], e.r).shown = IF e.r.shown = Unset THEN line[e.r.id].shown ELSE e.r.shown
      <4>1. DOMAIN line[e.r.id] = RowFields
        BY <2>4 DEF ContentTells, TableTells, Stored, RowTells
      <4> QED BY <4>1 DEF Changed, RowFields
    <3>2. CASE e.r.shown = TRUE /\ ~line[e.r.id].shown
      <4>1. Cardinality(OnShow) < MaxShown
        BY <2>1, <3>2 DEF RoomToShow, HasRoom
      <4>2. OnShow' \subseteq OnShow \cup {e.r.id}
        BY <2>4, OnShowRows
      <4>3. /\ Cardinality(OnShow') <= Cardinality(OnShow) + 1
            /\ Cardinality(OnShow) \in Nat /\ Cardinality(OnShow') \in Nat
        BY <4>2, OnShowRows, ShownSizes, Zenon
      <4> QED BY <4>1, <4>3 DEF ContentAssumption
    <3>3. CASE ~(e.r.shown = TRUE /\ ~line[e.r.id].shown)
      <4>1. Changed(line[e.r.id], e.r).shown => line[e.r.id].shown
        BY <1>3, <3>1, <3>3
      <4>2. OnShow' \subseteq OnShow
        BY <2>4, <4>1, OnShowRows
      <4> QED BY <4>2, OnShowRows, ShownSizes DEF ContentAssumption
    <3> QED BY <3>2, <3>3
  <2> QED BY <2>2, <2>3, <2>4 DEF n
<1>11. CASE h = "delete" /\ RemoveRow(w)
  <2>1. Len(e.todo) = 1
    BY <1>11, TileHeads
  <2>2. /\ n = Unset /\ \A y \in Lines : line'[y] = line[y] \/ line'[y] = Unset
    BY <1>2, <1>11, <2>1, RemoveGoes DEF n
  <2>3. OnShow' \subseteq OnShow
    BY <2>2, OnShowRows
  <2>4. Cardinality(OnShow') <= MaxShown
    BY <2>3, OnShowRows, ShownSizes DEF ContentAssumption
  <2> QED BY <2>2, <2>4, Zenon DEF n
<1>12. CASE h = "begin" /\ BeginTransaction(w)
  <2>1. Untouched /\ (n = Unset \/ (n.todo = Tail(e.todo) /\ n.wrote = e.wrote))
    BY <1>12, BeginGoes DEF n
  <2>2. Tail(e.todo) = <<"place", "commit">> /\ KeepsShown(e)
    BY <1>12, TileHeads
  <2>3. ASSUME n # Unset PROVE TileKnows(n)
    <3>1. n.todo = <<"place", "commit">> /\ KeepsShown(n)
      BY <2>1, <2>2, <2>3 DEF KeepsShown
    <3> QED BY <3>1, Zenon DEF TileKnows
  <2> QED BY <1>4, <2>1, <2>3 DEF n
<1>13. CASE h = "place" /\ PlaceRow(w)
  <2>1. e.todo = <<"place", "commit">> /\ KeepsShown(e)
    BY <1>13, TileHeads
  <2>2. /\ Untouched
        /\ \/ n = Unset
           \/ /\ n.todo = e.todo
              /\ \A x \in DOMAIN n.wrote :
                   \/ x \in DOMAIN e.wrote /\ n.wrote[x] = e.wrote[x]
                   \/ x \in Lines /\ Sees(w)[x] # Unset /\ n.wrote[x].shown = Sees(w)[x].shown
    BY <1>13, PlaceGoes DEF n
  <2>3. ASSUME n # Unset PROVE TileKnows(n)
    <3>1. ASSUME NEW x \in DOMAIN n.wrote, n.wrote[x] # Unset
          PROVE  line[x] # Unset /\ (n.wrote[x].shown => line[x].shown)
      <4>1. CASE x \in DOMAIN e.wrote /\ n.wrote[x] = e.wrote[x]
        BY <2>1, <3>1, <4>1 DEF KeepsShown
      <4>2. CASE x \in Lines /\ Sees(w)[x] # Unset /\ n.wrote[x].shown = Sees(w)[x].shown
        <5>1. Sees(w)[x] = IF x \in DOMAIN e.wrote THEN e.wrote[x] ELSE line[x]
          BY <1>1, <4>2, SeesRows
        <5> QED BY <2>1, <4>2, <5>1 DEF KeepsShown
      <4> QED BY <2>2, <2>3, <3>1, <4>1, <4>2
    <3>2. n.todo = <<"place", "commit">> /\ KeepsShown(n)
      BY <2>1, <2>2, <2>3, <3>1 DEF KeepsShown
    <3> QED BY <3>2, Zenon DEF TileKnows
  <2> QED BY <1>4, <2>2, <2>3 DEF n
<1>14. CASE h = "place" /\ AllPlaced(w)
  <2>1. Untouched /\ (n = Unset \/ (n.todo = Tail(e.todo) /\ n.wrote = e.wrote))
    BY <1>14, PlacedGoes DEF n, Proceeds
  <2>2. Tail(e.todo) = <<"commit">> /\ KeepsShown(e)
    BY <1>14, TileHeads
  <2>3. ASSUME n # Unset PROVE TileKnows(n)
    <3>1. n.todo = <<"commit">> /\ KeepsShown(n)
      BY <2>1, <2>2, <2>3 DEF KeepsShown
    <3> QED BY <3>1, Zenon DEF TileKnows
  <2> QED BY <1>4, <2>1, <2>3 DEF n
<1>15. CASE h = "commit" /\ Commit(w)
  <2>1. Len(e.todo) = 1 /\ KeepsShown(e)
    BY <1>15, TileHeads
  <2>2. /\ n = Unset
        /\ \A x \in Lines : line'[x] = IF x \in DOMAIN e.wrote THEN e.wrote[x] ELSE line[x]
    BY <1>15, <2>1, CommitGoes DEF n
  <2>3. OnShow' \subseteq OnShow
    BY <2>1, <2>2, OnShowRows DEF KeepsShown
  <2> QED BY <2>2, <2>3, OnShowRows, ShownSizes DEF ContentAssumption, n
<1>16. h \in {"room", "next", "insert", "find", "update", "delete", "begin", "place", "commit"}
  BY TileHeads
<1>17. \/ GoesDown(w)
       \/ h = "find" /\ FindRow(w)
       \/ h = "room" /\ CheckRoom(w)
       \/ h = "next" /\ NextPlace(w)
       \/ h = "insert" /\ InsertRow(w)
       \/ h = "update" /\ UpdateRow(w)
       \/ h = "delete" /\ RemoveRow(w)
       \/ h = "place" /\ (PlaceRow(w) \/ AllPlaced(w))
       \/ h = "begin" /\ BeginTransaction(w)
       \/ h = "commit" /\ Commit(w)
  <2> HIDE DEF h
  <2> QED BY <1>16, WhichStep, SMT DEF h
<1> QED
  BY <1>5, <1>6, <1>7, <1>8, <1>9, <1>10, <1>11, <1>12, <1>13, <1>14, <1>15, <1>17, Zenon

-----------------------------------------------------------------------------
(* What every step does.                                                    *)

LEMMA AltersOn ==
  ASSUME ContentTells, NEW w \in Editors, Serving(w), NEW rows, Alters(w, rows, editing[w])
  PROVE  /\ \/ editing'[w] = Unset
            \/ editing'[w].todo = Tail(editing[w].todo) /\ editing'[w].r.id = editing[w].r.id
         /\ \A v \in Editors \ {w} : editing'[v] = editing[v]
<1> DEFINE e == editing[w]
<1>1. DOMAIN e = EditFields
  BY ServingTells
<1>2. PICK local : local = (IF e.opened THEN [e EXCEPT !.wrote = Over(rows, @)] ELSE e)
  OBVIOUS
<1>3. Onward(w, local)
  BY <1>2, Zenon DEF Alters
<1>4. DOMAIN local = EditFields /\ local.todo = e.todo /\ local.r = e.r
  BY <1>1, <1>2 DEF EditFields
<1>5. /\ editing'[w] = Unset \/ Proceeds(local, editing'[w])
      /\ \A v \in Editors \ {w} : editing'[v] = editing[v]
  BY <1>3, <1>4, OnwardGoes
<1> QED BY <1>4, <1>5 DEF Proceeds

LEMMA ReadsOn ==
  ASSUME ContentTells, NEW w \in Editors, Serving(w), NEW local, DOMAIN local = EditFields,
         local.todo = editing[w].todo, local.r.id = editing[w].r.id, Reads(w, local)
  PROVE  /\ \/ editing'[w] = Unset
            \/ editing'[w].todo = Tail(editing[w].todo) /\ editing'[w].r.id = editing[w].r.id
         /\ \A v \in Editors \ {w} : editing'[v] = editing[v]
<1>1. /\ editing'[w] = Unset \/ Proceeds(local, editing'[w])
      /\ \A v \in Editors \ {w} : editing'[v] = editing[v]
  BY OnwardGoes DEF Reads
<1> QED BY <1>1 DEF Proceeds

LEMMA SettleOn ==
  ASSUME ContentTells, NEW w \in Editors, SettleDates(w) \/ SettleFlags(w) \/ KeepFound(w)
  PROVE  /\ Untouched
         /\ \/ editing'[w] = Unset
            \/ editing'[w].todo = Tail(editing[w].todo) /\ editing'[w].r.id = editing[w].r.id
         /\ \A v \in Editors \ {w} : editing'[v] = editing[v]
<1> DEFINE e == editing[w]
<1>1. Serving(w) /\ EditTells(e) /\ DOMAIN e = EditFields
  <2>1. Serving(w)
    BY Zenon DEF SettleDates, SettleFlags, KeepFound, Due
  <2> QED BY <2>1, ServingTells
<1>2. DOMAIN e.r = RowFields \cup {"id", "ids"}
  BY <1>1 DEF EditTells, Sent
<1>3. CASE Checks(w, FALSE)
  BY <1>1, <1>3, ChecksGo
<1>4. ASSUME SettleDates(w), ~Checks(w, FALSE) PROVE \E local : /\ Reads(w, local) /\ DOMAIN local = EditFields
                                          /\ local.todo = e.todo /\ local.r.id = e.r.id
  <2>1. Reads(w, Meant(e))
    BY <1>4 DEF SettleDates
  <2>2. DOMAIN Meant(e) = EditFields /\ Meant(e).todo = e.todo /\ Meant(e).r.id = e.r.id
    BY <1>1, MeantTells
  <2> QED BY <2>1, <2>2
<1>5. ASSUME SettleFlags(w), ~Checks(w, FALSE) PROVE \E local : /\ Reads(w, local) /\ DOMAIN local = EditFields
                                          /\ local.todo = e.todo /\ local.r.id = e.r.id
  <2>1. PICK shown_, hidden_ : Reads(w, [e EXCEPT !.r.shown = shown_, !.r.hidden = hidden_])
    BY <1>5, Zenon DEF SettleFlags
  <2>2. PICK local : local = [e EXCEPT !.r.shown = shown_, !.r.hidden = hidden_]
    OBVIOUS
  <2>3. DOMAIN local = EditFields /\ local.todo = e.todo /\ local.r = [e.r EXCEPT !.shown = shown_, !.hidden = hidden_]
    BY <1>1, <2>2 DEF EditFields
  <2>4. local.r.id = e.r.id
    BY <1>2, <2>3 DEF RowFields
  <2> QED BY <2>1, <2>2, <2>3, <2>4
<1>6. ASSUME KeepFound(w) PROVE \E local : /\ Reads(w, local) /\ DOMAIN local = EditFields
                                          /\ local.todo = e.todo /\ local.r.id = e.r.id
  <2>1. PICK ids_ : Reads(w, [e EXCEPT !.r.ids = ids_])
    BY <1>6, Zenon DEF KeepFound
  <2>2. PICK local : local = [e EXCEPT !.r.ids = ids_]
    OBVIOUS
  <2>3. DOMAIN local = EditFields /\ local.todo = e.todo /\ local.r = [e.r EXCEPT !.ids = ids_]
    BY <1>1, <2>2 DEF EditFields
  <2>4. local.r.id = e.r.id
    BY <1>2, <2>3 DEF RowFields
  <2> QED BY <2>1, <2>2, <2>3, <2>4
<1>7. \A local : Reads(w, local) => Untouched
  BY DEF Reads, Untouched
<1>8. CASE \E local : Reads(w, local) /\ DOMAIN local = EditFields /\ local.todo = e.todo /\ local.r.id = e.r.id
  <2>1. PICK local : Reads(w, local) /\ DOMAIN local = EditFields /\ local.todo = e.todo /\ local.r.id = e.r.id
    BY <1>8
  <2> QED BY <1>1, <1>7, <2>1, ReadsOn
<1> QED BY <1>3, <1>4, <1>5, <1>6, <1>8

LEMMA StepGoes ==
  ASSUME ContentTells, NEW w \in Editors, ContentStep(w)
  PROVE  /\ table' = table
         /\ \A v \in Editors \ {w} : editing'[v] = editing[v]
         /\ \/ editing'[w] = Unset
            \/ /\ editing'[w].todo \in {Tail(editing[w].todo), editing[w].todo}
               /\ editing'[w].r.id = editing[w].r.id
         /\ RemoveRow(w) \/ UNCHANGED <<refers, lost>>
<1> DEFINE Going == /\ table' = table
                    /\ \A v \in Editors \ {w} : editing'[v] = editing[v]
                    /\ \/ editing'[w] = Unset
                       \/ /\ editing'[w].todo \in {Tail(editing[w].todo), editing[w].todo}
                          /\ editing'[w].r.id = editing[w].r.id
           Kept_ == UNCHANGED <<refers, lost>>
<1>1. Serving(w)
  BY WhichStep
<1>2. Untouched => table' = table /\ Kept_
  BY DEF Untouched
<1>3. GoesDown(w) => Going /\ Kept_
  BY <1>2, StepKnown
<1>4. FindRow(w) => Going /\ Kept_
  BY <1>2, FindGoes
<1>5. NextPlace(w) => Going /\ Kept_
  BY <1>2, NextGoes
<1>6. SettleDates(w) \/ SettleFlags(w) \/ KeepFound(w) => Going /\ Kept_
  BY <1>2, SettleOn
<1>7. BeginTransaction(w) => Going /\ Kept_
  BY <1>2, BeginGoes
<1>8. PlaceRow(w) => Going /\ Kept_
  BY <1>2, PlaceGoes
<1>9. AllPlaced(w) => Going /\ Kept_
  BY <1>2, PlacedGoes DEF Proceeds
<1>10. Commit(w) => Going /\ Kept_
  BY CommitGoes DEF Proceeds
<1>11. CheckTwin(w) \/ CheckUses(w) \/ CheckRoom(w) \/ CountRows(w) \/ CheckDates(w) => Going /\ Kept_
  <2>1. CheckTwin(w) \/ CheckUses(w) \/ CheckRoom(w) \/ CountRows(w) \/ CheckDates(w) => \E fine : Checks(w, fine)
    BY Zenon DEF CheckTwin, CheckUses, CheckRoom, CountRows, CheckDates
  <2>2. ASSUME NEW fine, Checks(w, fine) PROVE Going /\ Kept_
    BY <1>1, <1>2, <2>2, ChecksGo DEF Proceeds
  <2> HIDE DEF Going, Kept_
  <2> QED BY <2>1, <2>2
<1>12. ASSUME NEW rows, Alters(w, rows, editing[w]), table' = table PROVE Going
  BY <1>1, <1>12, AltersOn
<1>13. ASSUME Stops(w), table' = table PROVE Going
  BY <1>13, StopsGo
<1>14. HideOthers(w) => Going /\ Kept_
  <2>1. HideOthers(w) => table' = table /\ Kept_ /\ \E rows : Alters(w, rows, editing[w])
    BY Zenon DEF HideOthers
  <2> HIDE DEF Going, Kept_
  <2> QED BY <1>12, <2>1
<1>15. InsertRow(w) \/ UpdateRow(w) \/ UpsertRow(w) => Going /\ Kept_
  <2>1. InsertRow(w) \/ UpdateRow(w) \/ UpsertRow(w) => table' = table /\ Kept_
    BY Zenon DEF InsertRow, UpdateRow, UpsertRow
  <2>2. InsertRow(w) => Stops(w) \/ \E rows : Alters(w, rows, editing[w])
    BY DEF InsertRow
  <2>3. UpdateRow(w) => Stops(w) \/ \E rows : Alters(w, rows, editing[w])
    BY Zenon DEF UpdateRow
  <2>4. UpsertRow(w) => \E rows : Alters(w, rows, editing[w])
    BY Zenon DEF UpsertRow
  <2> HIDE DEF Going, Kept_
  <2> QED BY <1>12, <1>13, <2>1, <2>2, <2>3, <2>4
<1>16. RemoveRow(w) => Going
  <2>1. RemoveRow(w) => table' = table /\ (Stops(w) \/ \E rows : Alters(w, rows, editing[w]))
    BY Zenon DEF RemoveRow
  <2> HIDE DEF Going
  <2> QED BY <1>12, <1>13, <2>1
<1> HIDE DEF Going, Kept_
<1>17. Going /\ (RemoveRow(w) \/ Kept_)
  BY <1>3, <1>4, <1>5, <1>6, <1>7, <1>8, <1>9, <1>10, <1>11, <1>14, <1>15, <1>16, Zenon DEF ContentStep
<1> QED BY <1>17 DEF Going, Kept_

LEMMA AtMostOne ==
  ASSUME NEW S, NEW x, S \subseteq {x}
  PROVE  Cardinality(S) <= 1
<1>1. S = {} \/ S = {x}
  OBVIOUS
<1>2. Cardinality({}) = 0
  BY FS_EmptySet
<1>3. Cardinality({x}) = 1
  BY FS_Singleton
<1> QED BY <1>1, <1>2, <1>3

\* The label sizes that are hidden for one that will be the default.
LEMMA HideGoes ==
  ASSUME ContentTells, table = "labelSizes", NEW w \in Editors, HideOthers(w),
         editing[w].opened = FALSE, DOMAIN editing[w].wrote = {}
  PROVE  /\ UNCHANGED <<table, refers, lost>>
         /\ OnShow' \subseteq OnShow
         /\ editing[w].r.shown = TRUE => OnShow' \subseteq {editing[w].r.id}
         /\ Len(editing[w].todo) # 1 => Proceeds(editing[w], editing'[w])
         /\ \A v \in Editors \ {w} : editing'[v] = editing[v]
<1> DEFINE e == editing[w]
           rows == [x \in Others(w) |-> [Sees(w)[x] EXCEPT !.shown = FALSE]]
<1>1. Serving(w) /\ UNCHANGED <<table, refers, lost>> /\ Alters(w, rows, e)
  BY Zenon DEF HideOthers, Due
<1>2. \A x \in Lines : Sees(w)[x] = line[x]
  BY <1>1, SeesLine
<1>3. \A x : x \in Others(w) <=> x \in Present(line) /\ x # e.r.id /\ e.r.shown = TRUE /\ line[x].shown
  BY <1>2 DEF Others, Present
<1>4. /\ DOMAIN rows = Others(w) /\ DOMAIN rows \subseteq Lines
      /\ \A x \in Others(w) : rows[x] = [Sees(w)[x] EXCEPT !.shown = FALSE]
  BY DEF Others, Present
<1>5. ASSUME NEW x \in Others(w) PROVE rows[x] # Unset => rows[x].shown = FALSE
  <2>1. x \in Lines /\ line[x] # Unset /\ Sees(w)[x] = line[x]
    BY <1>2, <1>3 DEF Present
  <2>2. DOMAIN line[x] = RowFields
    BY <2>1 DEF ContentTells, TableTells, Stored, RowTells
  <2> QED BY <1>4, <2>1, <2>2 DEF RowFields
<1> HIDE DEF rows
<1>6. /\ \A x \in Lines : line'[x] = IF x \in DOMAIN rows THEN rows[x] ELSE line[x]
      /\ Len(e.todo) # 1 => Proceeds(e, editing'[w])
      /\ \A v \in Editors \ {w} : editing'[v] = editing[v]
  BY <1>1, <1>4, AltersGo
<1>7. ASSUME NEW x \in OnShow' PROVE x \in OnShow /\ (e.r.shown = TRUE => x = e.r.id)
  <2>1. x \in Lines /\ line'[x] # Unset /\ line'[x].shown
    BY <1>7, OnShowRows
  <2>2. x \notin Others(w)
    BY <1>4, <1>5, <1>6, <2>1
  <2>3. line'[x] = line[x] /\ x \in Present(line)
    BY <1>4, <1>6, <2>1, <2>2 DEF Present
  <2> QED BY <1>3, <2>1, <2>2, <2>3, OnShowRows
<1> QED BY <1>1, <1>6, <1>7

\* A step on a label size.
LEMMA LabelStep ==
  ASSUME ContentTells, ContentAssumption, table = "labelSizes", NEW w \in Editors, ContentStep(w),
         LabelKnows(editing[w]), Cardinality(OnShow) <= 1, NEW n, n = editing'[w]
  PROVE  Cardinality(OnShow') <= 1 /\ (n = Unset \/ LabelKnows(n)')
<1> DEFINE e == editing[w]
           h == Head(e.todo)
<1>1. /\ Serving(w) /\ EditTells(e) /\ DOMAIN e = EditFields /\ e.opened = FALSE /\ DOMAIN e.wrote = {}
      /\ \A x \in Lines : Sees(w)[x] = line[x]
  BY StepKnown, SeesLine DEF LabelKnows
<1>2. e.r.id \in Lines \cup {Unset} /\ (e.r.shown \in BOOLEAN \cup {Unset})
  BY <1>1 DEF EditTells, Sent
<1>3. Untouched => Cardinality(OnShow') <= 1
  BY OnShowRows DEF Untouched
<1>4. OnShow' \subseteq OnShow => Cardinality(OnShow') <= 1
  BY OnShowRows, ShownSizes
<1>5. CASE GoesDown(w)
  BY <1>3, <1>5, StepKnown
<1>6. CASE h = "find" /\ FindRow(w)
  <2>1. /\ Untouched
        /\ n = Unset \/ (n.todo = Tail(e.todo) /\ n.opened = e.opened /\ n.wrote = e.wrote)
    BY <1>6, FindGoes
  <2>2. Tail(e.todo) \in {<<"hide", "update">>, <<"delete">>}
    BY <1>6, LabelHeads
  <2>3. ASSUME n # Unset PROVE LabelKnows(n)'
    <3>1. /\ n.opened = FALSE /\ DOMAIN n.wrote = {}
          /\ n.todo \in {<<"find", "hide", "update">>, <<"hide", "update">>} \/ n.todo \in {<<"find", "delete">>, <<"delete">>}
      BY <1>1, <2>1, <2>2, <2>3
    <3> QED BY <3>1, Zenon DEF LabelKnows
  <2> QED BY <1>3, <2>1, <2>3
<1>7. CASE h = "hide" /\ HideOthers(w)
  <2>1. /\ (Tail(e.todo) = <<"insert">> /\ e.r.id = Unset) \/ Tail(e.todo) = <<"update">>
        /\ Len(e.todo) # 1
    BY <1>7, LabelHeads
  <2>2. /\ OnShow' \subseteq OnShow /\ (e.r.shown = TRUE => OnShow' \subseteq {e.r.id})
        /\ Proceeds(e, n)
    BY <1>1, <1>7, <2>1, HideGoes
  <2>3. n.todo = Tail(e.todo) /\ n.r = e.r /\ n.opened = FALSE /\ DOMAIN n.wrote = {}
    BY <1>1, <2>2 DEF Proceeds
  <2>4. n.r.shown = TRUE => OnShow' \subseteq {n.r.id}
    BY <2>2, <2>3
  <2>5. LabelKnows(n)'
    BY <2>1, <2>3, <2>4, Zenon DEF LabelKnows
  <2> QED BY <1>4, <2>2, <2>5
<1>8. CASE h = "insert" /\ InsertRow(w)
  <2>1. Len(e.todo) = 1 /\ e.r.id = Unset /\ (e.r.shown = TRUE => OnShow \subseteq {e.r.id})
    BY <1>8, LabelHeads
  <2>2. /\ n = Unset
        /\ \/ line' = line
           \/ \E x \in Lines : \A y \in Lines : line'[y] = IF y = x THEN RowGiven(w) ELSE line[y]
    BY <1>1, <1>8, <2>1, InsertGoes
  <2>3. ASSUME NEW x \in Lines, \A y \in Lines : line'[y] = IF y = x THEN RowGiven(w) ELSE line[y]
        PROVE  Cardinality(OnShow') <= 1
    <3>1. RowGiven(w).shown = IF e.r.shown = Unset THEN FALSE ELSE e.r.shown
      BY DEF RowGiven, Blank
    <3>2. CASE e.r.shown = TRUE
      <4>1. OnShow = {}
        BY <2>1, <3>2, OnShowRows DEF ContentAssumption
      <4>2. OnShow' \subseteq {x}
        BY <2>3, <4>1, OnShowRows
      <4> QED BY <4>2, AtMostOne
    <3>3. CASE e.r.shown # TRUE
      <4>1. OnShow' \subseteq OnShow
        BY <1>2, <2>3, <3>1, <3>3, OnShowRows
      <4> QED BY <1>4, <4>1
    <3> QED BY <3>2, <3>3
  <2> QED BY <1>4, <2>2, <2>3, OnShowRows
<1>9. CASE h = "update" /\ UpdateRow(w)
  <2>1. Len(e.todo) = 1 /\ (e.r.shown = TRUE => OnShow \subseteq {e.r.id})
    BY <1>9, LabelHeads
  <2>2. /\ n = Unset
        /\ \/ line' = line
           \/ /\ e.r.id \in Lines /\ line[e.r.id] # Unset
              /\ \A y \in Lines : line'[y] = IF y = e.r.id THEN Changed(line[y], e.r) ELSE line[y]
    BY <1>1, <1>9, <2>1, UpdateGoes
  <2>3. ASSUME e.r.id \in Lines, line[e.r.id] # Unset,
               \A y \in Lines : line'[y] = IF y = e.r.id THEN Changed(line[y], e.r) ELSE line[y]
        PROVE  Cardinality(OnShow') <= 1
    <3>1. Changed(line[e.r.id], e.r).shown = IF e.r.shown = Unset THEN line[e.r.id].shown ELSE e.r.shown
      <4>1. DOMAIN line[e.r.id] = RowFields
        BY <2>3 DEF ContentTells, TableTells, Stored, RowTells
      <4> QED BY <4>1 DEF Changed, RowFields
    <3>2. CASE e.r.shown = TRUE
      <4>1. OnShow' \subseteq {e.r.id}
        BY <2>1, <2>3, <3>2, OnShowRows
      <4> QED BY <4>1, AtMostOne
    <3>3. CASE e.r.shown # TRUE
      <4>1. Changed(line[e.r.id], e.r).shown => line[e.r.id].shown
        BY <1>2, <3>1, <3>3
      <4>2. OnShow' \subseteq OnShow
        BY <2>3, <4>1, OnShowRows
      <4> QED BY <1>4, <4>2
    <3> QED BY <3>2, <3>3
  <2> QED BY <1>4, <2>2, <2>3, OnShowRows
<1>10. CASE h = "delete" /\ RemoveRow(w)
  <2>1. Len(e.todo) = 1
    BY <1>10, LabelHeads
  <2>2. n = Unset /\ \A y \in Lines : line'[y] = line[y] \/ line'[y] = Unset
    BY <1>1, <1>10, <2>1, RemoveGoes
  <2>3. OnShow' \subseteq OnShow
    BY <2>2, OnShowRows
  <2> QED BY <1>4, <2>2, <2>3
<1>11. h \in {"hide", "insert", "find", "update", "delete"}
  BY LabelHeads
<1>12. \/ GoesDown(w)
       \/ h = "find" /\ FindRow(w)
       \/ h = "hide" /\ HideOthers(w)
       \/ h = "insert" /\ InsertRow(w)
       \/ h = "update" /\ UpdateRow(w)
       \/ h = "delete" /\ RemoveRow(w)
  <2> HIDE DEF h
  <2> QED BY <1>11, WhichStep, SMT DEF h
<1> QED BY <1>5, <1>6, <1>7, <1>8, <1>9, <1>10, <1>12, Zenon

\* The flags of a review as they will be: those given, and off for the one
\* that the other rules out.
FlagsSettled(e, n) ==
  /\ n.todo = Tail(e.todo) /\ n.opened = e.opened /\ n.wrote = e.wrote /\ n.r.id = e.r.id
  /\ ~(e.r.hidden = TRUE /\ e.r.shown = TRUE)
  /\ n.r.shown = IF e.r.hidden = TRUE /\ e.seen.shown THEN FALSE ELSE e.r.shown
  /\ n.r.hidden = IF e.r.shown = TRUE /\ e.seen.hidden THEN FALSE ELSE e.r.hidden

LEMMA FlagsGo ==
  ASSUME ContentTells, NEW w \in Editors, SettleFlags(w), NEW e, e = editing[w], NEW n, n = editing'[w]
  PROVE  /\ Untouched /\ (n = Unset \/ FlagsSettled(e, n))
         /\ \A v \in Editors \ {w} : editing'[v] = editing[v]
<1> DEFINE shown2 == IF e.r.hidden = TRUE /\ e.seen.shown THEN FALSE ELSE e.r.shown
           hidden2 == IF e.r.shown = TRUE /\ e.seen.hidden THEN FALSE ELSE e.r.hidden
           local == [e EXCEPT !.r.shown = shown2, !.r.hidden = hidden2]
<1>1. Serving(w) /\ EditTells(e) /\ DOMAIN e = EditFields
  BY ServingTells DEF SettleFlags, Due
<1>2. DOMAIN e.r = RowFields \cup {"id", "ids"}
  BY <1>1 DEF EditTells, Sent
<1>3. CASE e.r.hidden = TRUE /\ e.r.shown = TRUE
  <2>1. Checks(w, FALSE)
    BY <1>3 DEF SettleFlags
  <2> QED BY <1>1, <2>1, ChecksGo
<1>4. CASE ~(e.r.hidden = TRUE /\ e.r.shown = TRUE)
  <2>1. Reads(w, local)
    BY <1>1, <1>2, <1>4 DEF SettleFlags
  <2> HIDE DEF shown2, hidden2
  <2>2. /\ DOMAIN local = EditFields /\ local.todo = e.todo /\ local.opened = e.opened /\ local.wrote = e.wrote
        /\ local.r = [e.r EXCEPT !.shown = shown2, !.hidden = hidden2]
    BY <1>1 DEF EditFields
  <2>3. local.r.id = e.r.id /\ local.r.shown = shown2 /\ local.r.hidden = hidden2
    <3>1. PICK r, s : r = e.r /\ s = local.r
      OBVIOUS
    <3>2. s = [r EXCEPT !.shown = shown2, !.hidden = hidden2] /\ DOMAIN r = RowFields \cup {"id", "ids"}
      BY <1>2, <2>2, <3>1
    <3>3. s.id = r.id /\ s.shown = shown2 /\ s.hidden = hidden2
      BY <3>2, Zenon DEF RowFields
    <3> QED BY <3>1, <3>3
  <2> HIDE DEF local
  <2>4. Untouched
    BY <2>1 DEF Reads, Untouched
  <2>5. /\ n = Unset \/ Proceeds(local, n)
        /\ \A v \in Editors \ {w} : editing'[v] = editing[v]
    BY <2>1, <2>2, OnwardGoes DEF Reads
  <2> QED BY <1>4, <2>2, <2>3, <2>4, <2>5, Zenon DEF Proceeds, shown2, hidden2, FlagsSettled
<1> QED BY <1>3, <1>4

FlagsApart == \A x \in Present(line) : ~(line[x].hidden /\ line[x].shown)

\* A step on a review.
LEMMA ReviewStep ==
  ASSUME ContentTells, ContentAssumption, table = "reviews", NEW w \in Editors, ContentStep(w),
         ReviewKnows(editing[w]), FlagsApart, NEW n, n = editing'[w]
  PROVE  FlagsApart' /\ (n = Unset \/ ReviewKnows(n)')
<1> DEFINE h == Head(editing[w].todo)
<1>0. PICK e : e = editing[w]
  OBVIOUS
<1>1. /\ Serving(w) /\ EditTells(e) /\ DOMAIN e = EditFields /\ e.opened = FALSE /\ DOMAIN e.wrote = {}
      /\ \A x \in Lines : Sees(w)[x] = line[x]
  BY <1>0, StepKnown, SeesLine DEF ReviewKnows
<1>2. /\ e.r.shown \in BOOLEAN \cup {Unset} /\ e.r.hidden \in BOOLEAN \cup {Unset}
      /\ h \in {"find", "uses", "delete", "update", "settle", "flags"} => e.r.id \in Lines
  BY <1>0, <1>1, FindsNamed DEF EditTells, Sent
<1>3. line' = line => FlagsApart'
  BY DEF FlagsApart, Present
<1>4. CASE GoesDown(w)
  BY <1>3, <1>4, StepKnown DEF Untouched
<1>5. CASE h = "find" /\ FindRow(w)
  <2>1. Sees(w)[e.r.id] = line[e.r.id]
    BY <1>1, <1>2, <1>5
  <2>2. /\ Untouched
        /\ \/ n = Unset
           \/ /\ n.todo = Tail(e.todo) /\ n.opened = e.opened /\ n.wrote = e.wrote /\ n.r = e.r
              /\ n.seen # Unset /\ n.seen = line[e.r.id]
    BY <1>0, <1>5, <2>1, FindGoes
  <2>3. Tail(e.todo) = <<"flags", "update">>
    BY <1>0, <1>5, ReviewHeads
  <2>4. ASSUME n # Unset PROVE ReviewKnows(n)'
    <3>1. /\ n.opened = FALSE /\ DOMAIN n.wrote = {} /\ n.todo = <<"flags", "update">>
          /\ n.seen # Unset /\ n.seen = line'[n.r.id]
      BY <1>1, <2>2, <2>3, <2>4 DEF Untouched
    <3> QED BY <3>1, Zenon DEF ReviewKnows
  <2> QED BY <1>3, <2>2, <2>4 DEF Untouched
<1>6. CASE h = "flags" /\ SettleFlags(w)
  <2>1. Tail(e.todo) = <<"update">> /\ e.seen # Unset /\ e.seen = line[e.r.id]
    BY <1>0, <1>6, ReviewHeads
  <2>2. Untouched /\ (n = Unset \/ FlagsSettled(e, n))
    BY <1>0, <1>6, FlagsGo
  <2>3. ASSUME n # Unset PROVE ReviewKnows(n)'
    <3>1. PICK x, old : x = e.r.id /\ old = line[x]
      OBVIOUS
    <3>2. x \in Lines /\ old # Unset /\ old = e.seen /\ RowTells(old) /\ ~(old.hidden /\ old.shown)
      BY <1>1, <1>2, <1>6, <2>1, <3>1 DEF EditTells, FlagsApart, Present
    <3>3. PICK new : new = Changed(old, n.r)
      OBVIOUS
    <3>4. /\ new.shown = IF n.r.shown = Unset THEN old.shown ELSE n.r.shown
          /\ new.hidden = IF n.r.hidden = Unset THEN old.hidden ELSE n.r.hidden
      BY <3>2, <3>3 DEF Changed, RowTells, RowFields
    <3>5. /\ ~(e.r.hidden = TRUE /\ e.r.shown = TRUE)
          /\ n.r.shown = IF e.r.hidden = TRUE /\ old.shown THEN FALSE ELSE e.r.shown
          /\ n.r.hidden = IF e.r.shown = TRUE /\ old.hidden THEN FALSE ELSE e.r.hidden
      BY <2>2, <2>3, <3>2 DEF FlagsSettled
    <3>6. old.shown \in BOOLEAN /\ old.hidden \in BOOLEAN
      BY <3>2 DEF RowTells
    <3>7. ~(new.hidden /\ new.shown)
      BY <1>2, <3>2, <3>4, <3>5, <3>6, Zenon
    <3>8. /\ n.opened = FALSE /\ DOMAIN n.wrote = {} /\ n.todo = <<"update">>
          /\ line'[n.r.id] # Unset => ~(Changed(line'[n.r.id], n.r).hidden /\ Changed(line'[n.r.id], n.r).shown)
      BY <1>1, <2>1, <2>2, <2>3, <3>1, <3>3, <3>7 DEF Untouched, FlagsSettled
    <3> QED BY <3>8, Zenon DEF ReviewKnows, Changed
  <2> QED BY <1>3, <2>2, <2>3 DEF Untouched
<1>7. CASE h = "update" /\ UpdateRow(w)
  <2>1. Len(e.todo) = 1 /\ (line[e.r.id] # Unset => ~(Changed(line[e.r.id], e.r).hidden /\ Changed(line[e.r.id], e.r).shown))
    BY <1>0, <1>7, ReviewHeads
  <2>2. /\ n = Unset
        /\ \/ line' = line
           \/ /\ e.r.id \in Lines /\ line[e.r.id] # Unset
              /\ \A y \in Lines : line'[y] = IF y = e.r.id THEN Changed(line[y], e.r) ELSE line[y]
    BY <1>0, <1>1, <1>7, <2>1, UpdateGoes
  <2>3. ASSUME e.r.id \in Lines, line[e.r.id] # Unset,
               \A y \in Lines : line'[y] = IF y = e.r.id THEN Changed(line[y], e.r) ELSE line[y]
        PROVE  FlagsApart'
    <3>1. ASSUME NEW y \in Lines, line'[y] # Unset PROVE ~(line'[y].hidden /\ line'[y].shown)
      BY <2>1, <2>3, <3>1, Zenon DEF FlagsApart, Present
    <3> QED BY <3>1 DEF FlagsApart, Present
  <2> QED BY <1>3, <2>2, <2>3
<1>8. h \in {"find", "flags", "update"}
  BY ReviewHeads
<1>9. \/ GoesDown(w)
      \/ h = "find" /\ FindRow(w)
      \/ h = "flags" /\ SettleFlags(w)
      \/ h = "update" /\ UpdateRow(w)
  <2> HIDE DEF h
  <2> QED BY <1>8, WhichStep, SMT DEF h
<1> QED BY <1>4, <1>5, <1>6, <1>7, <1>9, Zenon

AllForward == \A x \in Present(line) : Forward(line[x])
WroteForward(e) == \A x \in DOMAIN e.wrote : e.wrote[x] # Unset => Forward(e.wrote[x])

\* A step on a season.
LEMMA SeasonStep ==
  ASSUME ContentTells, ContentAssumption, table = "seasonals", NEW w \in Editors, ContentStep(w),
         SeasonKnows(editing[w]), AllForward, NEW n, n = editing'[w]
  PROVE  AllForward' /\ (n = Unset \/ SeasonKnows(n)')
<1> DEFINE h == Head(editing[w].todo)
<1>0. PICK e : e = editing[w]
  OBVIOUS
<1>1. Serving(w) /\ EditTells(e) /\ DOMAIN e = EditFields
  BY <1>0, StepKnown
<1>2. h \notin {"begin", "place", "commit"}
        /\ h \in {"dates", "next", "insert", "find", "update", "delete", "begin", "place", "commit"}
      => e.opened = FALSE /\ DOMAIN e.wrote = {} /\ \A x \in Lines : Sees(w)[x] = line[x]
  <2>1. table \in Reordered
    BY DEF Reordered
  <2>2. Plain(e) => e.opened = FALSE /\ DOMAIN e.wrote = {}
    BY DEF Plain
  <2> QED BY <1>0, <1>1, <2>1, <2>2, StepKnown, SeesLine
<1>3. h \in {"find", "uses", "delete", "update", "settle", "flags"} => e.r.id \in Lines
  BY <1>0, <1>1, FindsNamed
<1>4. line' = line => AllForward'
  BY DEF AllForward, Present
<1>5. CASE GoesDown(w)
  BY <1>4, <1>5, StepKnown DEF Untouched
<1>6. CASE h = "find" /\ FindRow(w)
  <2>1. Sees(w)[e.r.id] = line[e.r.id]
    BY <1>2, <1>3, <1>6
  <2>2. /\ Untouched
        /\ \/ n = Unset
           \/ /\ n.todo = Tail(e.todo) /\ n.r = e.r /\ n.seen # Unset /\ n.seen = line[e.r.id]
    BY <1>0, <1>6, <2>1, FindGoes
  <2>3. Tail(e.todo) \in {<<"find", "dates", "update">>, <<"dates", "update">>, <<"delete">>}
    BY <1>0, <1>6, SeasonHeads
  <2>4. ASSUME n # Unset PROVE SeasonKnows(n)'
    <3>1. /\ n.todo \in {<<"find", "dates", "update">>, <<"dates", "update">>, <<"delete">>}
          /\ n.seen # Unset /\ n.seen = line'[n.r.id]
      BY <2>2, <2>3, <2>4 DEF Untouched
    <3> QED BY <3>1, Zenon DEF SeasonKnows
  <2> QED BY <1>4, <2>2, <2>4 DEF Untouched
<1>7. CASE h = "dates" /\ CheckDates(w)
  <2>1. Checks(w, Forward(Meant(e).r))
    BY <1>0, <1>7 DEF CheckDates
  <2>2. Untouched /\ (n = Unset \/ (Forward(Meant(e).r) /\ n.todo = Tail(e.todo) /\ n.r = e.r))
    <3> DEFINE fine == Forward(Meant(e).r)
    <3> HIDE DEF fine
    <3>1. Checks(w, fine)
      BY <2>1 DEF fine
    <3>2. Untouched /\ (editing'[w] = Unset \/ (fine /\ Proceeds(editing[w], editing'[w])))
      BY <1>1, <3>1, ChecksGo
    <3> QED BY <1>0, <3>2 DEF Proceeds, fine
  <2>3. \/ Tail(e.todo) = <<"next", "insert">> /\ e.seen = Unset
        \/ Tail(e.todo) = <<"update">> /\ e.seen # Unset /\ e.seen = line[e.r.id]
    BY <1>0, <1>7, SeasonHeads
  <2>4. /\ Meant(e).r.from = IF e.r.from = Unset /\ e.seen # Unset THEN e.seen.from ELSE e.r.from
        /\ Meant(e).r.to = IF e.r.to = Unset /\ e.seen # Unset THEN e.seen.to ELSE e.r.to
    BY <1>1, MeantTells
  <2>5. ASSUME n # Unset PROVE SeasonKnows(n)'
    <3>1. Forward(Meant(e).r) /\ n.todo = Tail(e.todo) /\ n.r = e.r /\ line' = line
      BY <2>2, <2>5 DEF Untouched
    <3>2. CASE Tail(e.todo) = <<"next", "insert">> /\ e.seen = Unset
      <4>1. Forward(n.r)
        <5>1. Meant(e).r.from = e.r.from /\ Meant(e).r.to = e.r.to
          BY <2>4, <3>2
        <5> QED BY <3>1, <5>1 DEF Forward
      <4>2. n.todo = <<"next", "insert">> /\ Forward(n.r)
        BY <3>1, <3>2, <4>1
      <4> QED BY <4>2, Zenon DEF SeasonKnows
    <3>3. CASE Tail(e.todo) = <<"update">> /\ e.seen # Unset /\ e.seen = line[e.r.id]
      <4>1. PICK old : old = line[e.r.id]
        OBVIOUS
      <4>2. old # Unset /\ old = e.seen /\ DOMAIN old = RowFields
        BY <1>1, <3>3, <4>1 DEF EditTells, RowTells
      <4>3. PICK new : new = Changed(old, e.r)
        OBVIOUS
      <4>4. /\ new.from = IF e.r.from = Unset THEN old.from ELSE e.r.from
            /\ new.to = IF e.r.to = Unset THEN old.to ELSE e.r.to
        BY <4>2, <4>3 DEF Changed, RowFields
      <4>5. Forward(new)
        BY <2>4, <3>1, <3>3, <4>2, <4>4 DEF Forward
      <4>6. n.todo = <<"update">> /\ (line'[n.r.id] # Unset => Forward(Changed(line'[n.r.id], n.r)))
        BY <3>1, <3>3, <4>1, <4>3, <4>5
      <4> QED BY <4>6, Zenon DEF SeasonKnows, Changed
    <3> QED BY <2>3, <3>2, <3>3
  <2> QED BY <1>4, <2>2, <2>5 DEF Untouched
<1>8. CASE h = "next" /\ NextPlace(w)
  <2>1. Untouched /\ (n = Unset \/ (n.todo = Tail(e.todo) /\ n.r.from = e.r.from /\ n.r.to = e.r.to))
    BY <1>0, <1>8, NextGoes
  <2>2. Tail(e.todo) = <<"insert">> /\ Forward(e.r)
    BY <1>0, <1>8, SeasonHeads
  <2>3. ASSUME n # Unset PROVE SeasonKnows(n)'
    <3>1. n.todo = <<"insert">> /\ Forward(n.r)
      BY <2>1, <2>2, <2>3 DEF Forward
    <3> QED BY <3>1, Zenon DEF SeasonKnows
  <2> QED BY <1>4, <2>1, <2>3 DEF Untouched
<1>9. CASE h = "insert" /\ InsertRow(w)
  <2>1. Forward(e.r) /\ Len(e.todo) = 1
    BY <1>0, <1>9, SeasonHeads
  <2>2. /\ n = Unset
        /\ \/ line' = line
           \/ \E x \in Lines : \A y \in Lines : line'[y] = IF y = x THEN RowGiven(w) ELSE line[y]
    BY <1>0, <1>2, <1>9, <2>1, InsertGoes
  <2>3. Forward(RowGiven(w))
    <3>1. RowGiven(w).from = e.r.from /\ RowGiven(w).to = e.r.to
      BY <1>0 DEF RowGiven, Blank
    <3> QED BY <2>1, <3>1 DEF Forward
  <2>4. ASSUME NEW x \in Lines, \A y \in Lines : line'[y] = IF y = x THEN RowGiven(w) ELSE line[y]
        PROVE  AllForward'
    <3>1. ASSUME NEW y \in Lines, line'[y] # Unset PROVE Forward(line'[y])
      BY <2>3, <2>4, <3>1, Zenon DEF AllForward, Present
    <3> QED BY <3>1 DEF AllForward, Present, Forward
  <2> QED BY <1>4, <2>2, <2>4
<1>10. CASE h = "update" /\ UpdateRow(w)
  <2>1. Len(e.todo) = 1 /\ (line[e.r.id] # Unset => Forward(Changed(line[e.r.id], e.r)))
    BY <1>0, <1>10, SeasonHeads
  <2>2. /\ n = Unset
        /\ \/ line' = line
           \/ /\ e.r.id \in Lines /\ line[e.r.id] # Unset
              /\ \A y \in Lines : line'[y] = IF y = e.r.id THEN Changed(line[y], e.r) ELSE line[y]
    BY <1>0, <1>2, <1>10, <2>1, UpdateGoes
  <2>3. ASSUME e.r.id \in Lines, line[e.r.id] # Unset,
               \A y \in Lines : line'[y] = IF y = e.r.id THEN Changed(line[y], e.r) ELSE line[y]
        PROVE  AllForward'
    <3>1. ASSUME NEW y \in Lines, line'[y] # Unset PROVE Forward(line'[y])
      BY <2>1, <2>3, <3>1, Zenon DEF AllForward, Present
    <3> QED BY <3>1 DEF AllForward, Present, Forward
  <2> QED BY <1>4, <2>2, <2>3
<1>11. CASE h = "delete" /\ RemoveRow(w)
  <2>1. Len(e.todo) = 1
    BY <1>0, <1>11, SeasonHeads
  <2>2. n = Unset /\ \A y \in Lines : line'[y] = line[y] \/ line'[y] = Unset
    BY <1>0, <1>2, <1>11, <2>1, RemoveGoes
  <2>3. AllForward'
    <3>1. ASSUME NEW y \in Lines, line'[y] # Unset PROVE Forward(line'[y])
      BY <2>2, <3>1, Zenon DEF AllForward, Present
    <3> QED BY <3>1 DEF AllForward, Present, Forward
  <2> QED BY <2>2, <2>3
<1>12. CASE h = "begin" /\ BeginTransaction(w)
  <2>1. Untouched /\ (n = Unset \/ (n.todo = Tail(e.todo) /\ n.wrote = e.wrote))
    BY <1>0, <1>12, BeginGoes
  <2>2. Tail(e.todo) = <<"place", "commit">> /\ WroteForward(e)
    BY <1>0, <1>12, SeasonHeads DEF WroteForward
  <2>3. ASSUME n # Unset PROVE SeasonKnows(n)'
    <3>1. n.todo = <<"place", "commit">> /\ \A x \in DOMAIN n.wrote : n.wrote[x] # Unset => Forward(n.wrote[x])
      BY <2>1, <2>2, <2>3 DEF WroteForward
    <3> QED BY <3>1, Zenon DEF SeasonKnows
  <2> QED BY <1>4, <2>1, <2>3 DEF Untouched
<1>13. CASE h = "place" /\ PlaceRow(w)
  <2>1. e.todo = <<"place", "commit">> /\ WroteForward(e)
    BY <1>0, <1>13, SeasonHeads DEF WroteForward
  <2>2. /\ Untouched
        /\ \/ n = Unset
           \/ /\ n.todo = e.todo
              /\ \A x \in DOMAIN n.wrote :
                   \/ x \in DOMAIN e.wrote /\ n.wrote[x] = e.wrote[x]
                   \/ /\ x \in Lines /\ Sees(w)[x] # Unset
                      /\ n.wrote[x].from = Sees(w)[x].from /\ n.wrote[x].to = Sees(w)[x].to
    BY <1>0, <1>13, PlaceGoes
  <2>3. ASSUME n # Unset PROVE SeasonKnows(n)'
    <3>1. ASSUME NEW x \in DOMAIN n.wrote, n.wrote[x] # Unset PROVE Forward(n.wrote[x])
      <4>1. CASE x \in DOMAIN e.wrote /\ n.wrote[x] = e.wrote[x]
        BY <2>1, <3>1, <4>1 DEF WroteForward
      <4>2. CASE /\ x \in Lines /\ Sees(w)[x] # Unset
                 /\ n.wrote[x].from = Sees(w)[x].from /\ n.wrote[x].to = Sees(w)[x].to
        <5>1. Sees(w)[x] = IF x \in DOMAIN e.wrote THEN e.wrote[x] ELSE line[x]
          BY <1>0, <1>1, <4>2, SeesRows
        <5>2. Forward(Sees(w)[x])
          BY <2>1, <4>2, <5>1 DEF WroteForward, AllForward, Present
        <5> QED BY <4>2, <5>2 DEF Forward
      <4> QED BY <2>2, <2>3, <3>1, <4>1, <4>2
    <3>2. n.todo = <<"place", "commit">> /\ \A x \in DOMAIN n.wrote : n.wrote[x] # Unset => Forward(n.wrote[x])
      BY <2>1, <2>2, <2>3, <3>1
    <3> QED BY <3>2, Zenon DEF SeasonKnows
  <2> QED BY <1>4, <2>2, <2>3 DEF Untouched
<1>14. CASE h = "place" /\ AllPlaced(w)
  <2>1. Untouched /\ (n = Unset \/ (n.todo = Tail(e.todo) /\ n.wrote = e.wrote))
    BY <1>0, <1>14, PlacedGoes DEF Proceeds
  <2>2. Tail(e.todo) = <<"commit">> /\ WroteForward(e)
    BY <1>0, <1>14, SeasonHeads DEF WroteForward
  <2>3. ASSUME n # Unset PROVE SeasonKnows(n)'
    <3>1. n.todo = <<"commit">> /\ \A x \in DOMAIN n.wrote : n.wrote[x] # Unset => Forward(n.wrote[x])
      BY <2>1, <2>2, <2>3 DEF WroteForward
    <3> QED BY <3>1, Zenon DEF SeasonKnows
  <2> QED BY <1>4, <2>1, <2>3 DEF Untouched
<1>15. CASE h = "commit" /\ Commit(w)
  <2>1. Len(e.todo) = 1 /\ WroteForward(e)
    BY <1>0, <1>15, SeasonHeads DEF WroteForward
  <2>2. /\ n = Unset
        /\ \A x \in Lines : line'[x] = IF x \in DOMAIN e.wrote THEN e.wrote[x] ELSE line[x]
    BY <1>0, <1>15, <2>1, CommitGoes
  <2>3. AllForward'
    <3>1. ASSUME NEW y \in Lines, line'[y] # Unset PROVE Forward(line'[y])
      BY <2>1, <2>2, <3>1, Zenon DEF AllForward, Present, WroteForward
    <3> QED BY <3>1 DEF AllForward, Present, Forward
  <2> QED BY <2>2, <2>3
<1>16. h \in {"dates", "next", "insert", "find", "update", "delete", "begin", "place", "commit"}
  BY SeasonHeads
<1>17. \/ GoesDown(w)
       \/ h = "find" /\ FindRow(w)
       \/ h = "dates" /\ CheckDates(w)
       \/ h = "next" /\ NextPlace(w)
       \/ h = "insert" /\ InsertRow(w)
       \/ h = "update" /\ UpdateRow(w)
       \/ h = "delete" /\ RemoveRow(w)
       \/ h = "place" /\ (PlaceRow(w) \/ AllPlaced(w))
       \/ h = "begin" /\ BeginTransaction(w)
       \/ h = "commit" /\ Commit(w)
  <2> HIDE DEF h
  <2> QED BY <1>16, WhichStep, SMT DEF h
<1> QED
  BY <1>5, <1>6, <1>7, <1>8, <1>9, <1>10, <1>11, <1>12, <1>13, <1>14, <1>15, <1>17, Zenon

\* Where nothing can refer to a row, nothing does.
RefersNothing == table \notin Restricting \cup Losing => \A u \in Goods : refers[u] = Unset

\* Nothing refers to a row that will be deleted, once its uses are counted.
Keeping == (OtherSteps \ {"delete", "uses"}) \cup {"room", "place", "count", "keep"}
LossKnows(e) ==
  \/ e.todo \in {<<"find", "uses", "delete">>, <<"uses", "delete">>}
  \/ e.todo = <<"delete">> /\ \A u \in Goods : refers[u] # e.r.id
  \/ e.todo \in Seq(Keeping)

\* What is left to do of a request, if anything is deleted.
LEMMA LossHeads ==
  ASSUME NEW e, LossKnows(e), e.todo # <<>>
  PROVE  \/ e.todo = <<"find", "uses", "delete">> /\ Head(e.todo) = "find" /\ Tail(e.todo) = <<"uses", "delete">>
         \/ e.todo = <<"uses", "delete">> /\ Head(e.todo) = "uses" /\ Tail(e.todo) = <<"delete">>
         \/ /\ e.todo = <<"delete">> /\ Head(e.todo) = "delete" /\ Len(e.todo) = 1
            /\ \A u \in Goods : refers[u] # e.r.id
         \/ /\ e.todo \in Seq(Keeping) /\ Tail(e.todo) \in Seq(Keeping)
            /\ Head(e.todo) \notin {"delete", "uses"}
<1>1. CASE e.todo = <<"find", "uses", "delete">>
  <2>1. Head(<<"find", "uses", "delete">>) = "find" /\ Tail(<<"find", "uses", "delete">>) = <<"uses", "delete">>
    OBVIOUS
  <2> QED BY <1>1, <2>1
<1>2. CASE e.todo = <<"uses", "delete">>
  <2>1. Head(<<"uses", "delete">>) = "uses" /\ Tail(<<"uses", "delete">>) = <<"delete">>
    OBVIOUS
  <2> QED BY <1>2, <2>1
<1>3. CASE e.todo = <<"delete">> /\ \A u \in Goods : refers[u] # e.r.id
  <2>1. Head(<<"delete">>) = "delete" /\ Len(<<"delete">>) = 1
    OBVIOUS
  <2> QED BY <1>3, <2>1
<1>4. CASE e.todo \in Seq(Keeping)
  <2>1. Head(e.todo) \in Keeping /\ Tail(e.todo) \in Seq(Keeping)
    BY <1>4
  <2>2. "delete" \notin Keeping /\ "uses" \notin Keeping
    BY DEF Keeping, OtherSteps, PlainSteps
  <2> QED BY <1>4, <2>1, <2>2
<1> QED BY <1>1, <1>2, <1>3, <1>4, Zenon DEF LossKnows

\* What a deletion does to what refers to the row.
Loosens(id) ==
  /\ table \in Restricting => \A u \in Goods : refers[u] # id
  /\ lost' = lost \cup {u \in Goods : refers[u] = id}
  /\ refers' = [u \in Goods |-> IF refers[u] = id THEN Unset ELSE refers[u]]

LEMMA RemoveLoosens ==
  ASSUME ContentTells, NEW w \in Editors, RemoveRow(w)
  PROVE  UNCHANGED <<refers, lost>> \/ Loosens(editing[w].r.id)
  BY RemoveGoes, Zenon DEF Loosens

\* A step loses nothing, but where the orders of a district may be lost.
LEMMA LossStep ==
  ASSUME ContentTells, ContentAssumption, table # "districts", NEW w \in Editors, ContentStep(w),
         table \in Losing => LossKnows(editing[w]), RefersNothing, lost = {}, NEW n, n = editing'[w]
  PROVE  lost' = {} /\ RefersNothing' /\ (n = Unset \/ (table \in Losing => LossKnows(n)'))
<1> DEFINE h == Head(editing[w].todo)
<1>0. PICK e : e = editing[w]
  OBVIOUS
<1>1. Serving(w) /\ EditTells(e) /\ e.todo # <<>>
  <2>1. Serving(w) /\ EditTells(e)
    BY <1>0, StepKnown
  <2>2. e.todo # <<>>
    BY <2>1, EditSent
  <2> QED BY <2>1, <2>2
<1>2. /\ table' = table
      /\ n = Unset \/ (n.todo \in {Tail(e.todo), e.todo} /\ n.r.id = e.r.id)
      /\ RemoveRow(w) \/ UNCHANGED <<refers, lost>>
  BY <1>0, StepGoes
<1>3. CASE RemoveRow(w)
  <2>1. h = "delete" /\ e.r.id \in Lines
    <3>1. h = "delete"
      BY <1>3, Zenon DEF RemoveRow, Due
    <3> QED BY <1>0, <1>1, <3>1, FindsNamed
  <2>2. UNCHANGED <<refers, lost>> \/ Loosens(e.r.id)
    BY <1>0, <1>3, RemoveLoosens
  <2>3. table \in Losing => Len(e.todo) = 1 /\ \A u \in Goods : refers[u] # e.r.id
    BY <1>0, <1>1, <2>1, LossHeads
  <2>4. table \notin Restricting \cup Losing => \A u \in Goods : refers[u] # e.r.id
    BY <2>1 DEF RefersNothing, ContentAssumption
  <2>5. \/ UNCHANGED <<refers, lost>>
        \/ /\ \A u \in Goods : refers[u] # e.r.id
           /\ lost' = lost \cup {u \in Goods : refers[u] = e.r.id}
           /\ \A u \in Goods : refers'[u] = refers[u]
    <3>1. ASSUME refers' = [u \in Goods |-> IF refers[u] = e.r.id THEN Unset ELSE refers[u]],
                 \A u \in Goods : refers[u] # e.r.id
          PROVE  \A u \in Goods : refers'[u] = refers[u]
      BY <3>1
    <3> QED BY <2>2, <2>3, <2>4, <3>1 DEF Loosens
  <2>6. lost' = {} /\ RefersNothing'
    BY <1>2, <2>5 DEF RefersNothing
  <2>7. table \in Losing => n = Unset
    BY <1>0, <1>3, <2>3, RemoveGoes
  <2> QED BY <2>6, <2>7
<1>4. CASE ~RemoveRow(w)
  <2>1. UNCHANGED <<table, refers, lost>>
    BY <1>2, <1>4
  <2>2. lost' = {} /\ RefersNothing'
    BY <2>1 DEF RefersNothing
  <2>3. ASSUME table \in Losing, n # Unset PROVE LossKnows(n)'
    <3>1. n.todo \in {Tail(e.todo), e.todo} /\ n.r.id = e.r.id
      BY <1>2, <2>3
    <3>2. CASE e.todo = <<"find", "uses", "delete">> /\ h = "find" /\ Tail(e.todo) = <<"uses", "delete">>
      <4>1. n.todo \in {<<"find", "uses", "delete">>, <<"uses", "delete">>}
        BY <3>1, <3>2
      <4> QED BY <4>1, Zenon DEF LossKnows
    <3>3. CASE e.todo = <<"uses", "delete">> /\ h = "uses" /\ Tail(e.todo) = <<"delete">>
      <4>1. CheckUses(w)
        <5>1. GoesDown(w) \/ (h = "uses" /\ CheckUses(w))
          <6> HIDE DEF h
          <6> QED BY <3>3, WhichStep, SMT DEF h
        <5> QED BY <2>3, <5>1, StepKnown
      <4> DEFINE fine == \A u \in Goods : refers[u] # e.r.id
      <4>2. Checks(w, fine)
        BY <1>0, <4>1 DEF CheckUses
      <4> HIDE DEF fine
      <4>3. editing'[w] = Unset \/ (fine /\ Proceeds(editing[w], editing'[w]))
        BY <1>1, <4>2, ChecksGo
      <4>4. fine /\ n.todo = <<"delete">>
        BY <1>0, <2>3, <3>3, <4>3 DEF Proceeds
      <4>5. n.todo = <<"delete">> /\ \A u \in Goods : refers'[u] # n.r.id
        BY <2>1, <3>1, <4>4 DEF fine
      <4> QED BY <4>5, Zenon DEF LossKnows
    <3>4. CASE h = "delete"
      <4>1. GoesDown(w) \/ (h = "delete" /\ RemoveRow(w))
        <5> HIDE DEF h
        <5> QED BY <3>4, WhichStep, SMT DEF h
      <4> QED BY <1>4, <2>3, <4>1, StepKnown
    <3>5. CASE e.todo \in Seq(Keeping) /\ Tail(e.todo) \in Seq(Keeping)
      <4>1. n.todo \in Seq(Keeping)
        BY <3>1, <3>5
      <4> QED BY <4>1, Zenon DEF LossKnows
    <3> QED BY <1>0, <1>1, <2>3, <3>2, <3>3, <3>4, <3>5, LossHeads
  <2> QED BY <2>2, <2>3
<1> QED BY <1>3, <1>4

-----------------------------------------------------------------------------
(* Every table.                                                             *)

\* What the only request knows.
EditKnows(e) ==
  /\ table = "tiles" => TileKnows(e)
  /\ table = "labelSizes" => LabelKnows(e)
  /\ table = "reviews" => ReviewKnows(e)
  /\ table = "seasonals" => SeasonKnows(e)
  /\ table \in Losing \ {"districts"} => LossKnows(e)

LEMMA KeepingPrograms ==
  /\ AddMaterial \in Seq(Keeping) /\ UpdateMaterial \in Seq(Keeping)
  /\ CreateSeries \in Seq(Keeping) /\ UpdateSeries \in Seq(Keeping) /\ ReorderSeries \in Seq(Keeping)
  /\ CreateCategory \in Seq(Keeping) /\ UpdateCategory \in Seq(Keeping) /\ ReorderCategories \in Seq(Keeping)
  /\ CreateSubcategory \in Seq(Keeping) /\ ReorderSubcategories \in Seq(Keeping)
  BY SMT DEF Keeping, OtherSteps, PlainSteps, AddMaterial, UpdateMaterial, CreateSeries, UpdateSeries,
     ReorderSeries, CreateCategory, UpdateCategory, ReorderCategories, CreateSubcategory, ReorderSubcategories

\* What a request knows that comes in.
LEMMA SubmitKnows ==
  ASSUME ContentAssumption, NEW program \in Handlers[table], NEW r \in Requests(program),
         NEW e, e.todo = program, e.r = r, e.seen = Unset, e.opened = FALSE, e.wrote = <<>>
  PROVE  EditKnows(e)
<1>1. DOMAIN e.wrote = {}
  <2>1. DOMAIN <<>> = {}
    OBVIOUS
  <2> QED BY <2>1
<1>2. ASSUME table = "tiles" PROVE TileKnows(e)
  <2>1. e.todo \in {<<"room", "next", "insert">>, <<"find", "room", "update">>, <<"find", "delete">>,
                    <<"begin", "place", "commit">>}
    BY <1>2, HandlersOf, Zenon DEF CreateTile, UpdateTile, RemoveTile, ReorderTiles
  <2>2. KeepsShown(e)
    BY <1>1 DEF KeepsShown
  <2> QED BY <2>1, <2>2, Zenon DEF TileKnows
<1>3. ASSUME table = "labelSizes" PROVE LabelKnows(e)
  <2>1. e.todo \in {<<"hide", "insert">>, <<"find", "hide", "update">>, <<"find", "delete">>}
    BY <1>3, HandlersOf, Zenon DEF CreateLabelSize, UpdateLabelSize, RemoveLabelSize
  <2>2. e.todo = <<"hide", "insert">> => e.r.id = Unset
    <3>1. ~Does(<<"hide", "insert">>, "find")
      BY DEF Does
    <3> QED BY <3>1, RequestGiven
  <2> QED BY <1>1, <2>1, <2>2, Zenon DEF LabelKnows
<1>4. ASSUME table = "reviews" PROVE ReviewKnows(e)
  <2>1. e.todo = <<"find", "flags", "update">>
    BY <1>4, HandlersOf, Zenon DEF UpdateReview
  <2> QED BY <1>1, <2>1, Zenon DEF ReviewKnows
<1>5. ASSUME table = "seasonals" PROVE SeasonKnows(e)
  <2>1. e.todo \in {<<"dates", "next", "insert">>, <<"find", "find", "dates", "update">>, <<"find", "delete">>,
                    <<"begin", "place", "commit">>}
    BY <1>5, HandlersOf, Zenon DEF CreateSeasonal, UpdateSeasonal, RemoveSeasonal, ReorderSeasonal
  <2>2. \A x \in DOMAIN e.wrote : e.wrote[x] # Unset => Forward(e.wrote[x])
    BY <1>1
  <2> QED BY <2>1, <2>2, Zenon DEF SeasonKnows
<1>6. ASSUME table \in Losing \ {"districts"} PROVE LossKnows(e)
  <2>1. e.todo \in Seq(Keeping) \/ e.todo = <<"find", "uses", "delete">>
    <3>1. table \in {"materials", "series", "categories", "subcategories"}
      BY <1>6 DEF Losing
    <3>2. /\ Handlers["materials"] \subseteq Seq(Keeping) \cup {<<"find", "uses", "delete">>}
          /\ Handlers["series"] \subseteq Seq(Keeping) \cup {<<"find", "uses", "delete">>}
          /\ Handlers["categories"] \subseteq Seq(Keeping) \cup {<<"find", "uses", "delete">>}
          /\ Handlers["subcategories"] \subseteq Seq(Keeping) \cup {<<"find", "uses", "delete">>}
      BY HandlersOf, KeepingPrograms, Zenon DEF DeleteMaterial, DeleteSeries, DeleteCategory, DeleteSubcategory
    <3> QED BY <3>1, <3>2, Zenon
  <2> QED BY <2>1, Zenon DEF LossKnows
<1> QED BY <1>2, <1>3, <1>4, <1>5, <1>6 DEF EditKnows

\* What a request knows it knows until a row is written, or another request
\* changes what refers to one.
LEMMA StillKnows ==
  ASSUME NEW e, EditKnows(e), UNCHANGED <<table, line, refers>>
  PROVE  EditKnows(e)'
<1>1. TileKnows(e) => TileKnows(e)'
  BY Zenon DEF TileKnows, RoomToAdd, RoomToShow, KeepsShown, HasRoom, OnShow, Present
<1>2. LabelKnows(e) => LabelKnows(e)'
  BY Zenon DEF LabelKnows, OnShow, Present
<1>3. ReviewKnows(e) => ReviewKnows(e)'
  BY Zenon DEF ReviewKnows, Changed
<1>4. SeasonKnows(e) => SeasonKnows(e)'
  BY Zenon DEF SeasonKnows, Changed, Forward
<1>5. LossKnows(e) => LossKnows(e)'
  BY Zenon DEF LossKnows
<1> QED BY <1>1, <1>2, <1>3, <1>4, <1>5 DEF EditKnows

-----------------------------------------------------------------------------
(* The rows, one request at a time.                                         *)

RowsHold ==
  /\ table = "tiles" => Cardinality(OnShow) <= MaxShown
  /\ table = "labelSizes" => Cardinality(OnShow) <= 1
  /\ table = "reviews" => FlagsApart
  /\ table = "seasonals" => AllForward
  /\ table # "districts" => lost = {}
  /\ RefersNothing
AloneTells ==
  /\ ContentTells /\ RowsHold
  /\ \A v, w \in Edited : v = w
  /\ \A w \in Editors : \A e \in {editing[w]} : e = Unset \/ EditKnows(e)

\* A request comes in when none is served, and rows are taken and exchanged
\* between requests.
OneAtATime == (\A v, w \in Edited' : v = w) /\ (refers' = refers \/ line' # line \/ Edited = {})
ContentAlone == ContentInit /\ [][ContentNext /\ OneAtATime]_contentVars

LEMMA RowsStay == RowsHold /\ UNCHANGED <<table, line, refers, lost>> => RowsHold'
<1> SUFFICES ASSUME RowsHold, UNCHANGED <<table, line, refers, lost>> PROVE RowsHold'
  OBVIOUS
<1>1. OnShow' = OnShow
  BY OnShowRows
<1>2. /\ FlagsApart => FlagsApart'
      /\ AllForward => AllForward'
      /\ RefersNothing => RefersNothing'
  BY Zenon DEF FlagsApart, AllForward, RefersNothing, Present, Forward
<1> QED BY <1>1, <1>2 DEF RowsHold

LEMMA AloneStart == ContentAssumption /\ ContentInit => AloneTells
<1> SUFFICES ASSUME ContentAssumption, ContentInit PROVE AloneTells
  OBVIOUS
<1>1. /\ table \in DOMAIN Handlers /\ lost = {} /\ refers = [u \in Goods |-> Unset]
      /\ line = [x \in Lines |-> IF table = "reviews" THEN Blank ELSE Unset]
      /\ editing = [w \in Editors |-> Unset]
  BY DEF ContentInit
<1>2. table # "reviews" => Present(line) = {}
  BY <1>1 DEF Present
<1>3. table # "reviews" => Cardinality(OnShow) = 0
  <2>1. Cardinality({}) = 0
    BY FS_EmptySet
  <2> QED BY <1>2, <2>1 DEF OnShow
<1>4. table = "reviews" => FlagsApart
  BY <1>1 DEF FlagsApart, Present, Blank
<1>5. RefersNothing /\ (table = "seasonals" => AllForward)
  BY <1>1, <1>2 DEF RefersNothing, AllForward
<1>6. RowsHold
  BY <1>1, <1>3, <1>4, <1>5 DEF RowsHold, ContentAssumption
<1>7. /\ \A v, w \in Edited : v = w
      /\ \A w \in Editors : \A e \in {editing[w]} : e = Unset \/ EditKnows(e)
  BY <1>1 DEF Edited
<1> QED BY <1>6, <1>7, ContentStart DEF AloneTells

LEMMA AloneSubmits ==
  ASSUME AloneTells, ContentAssumption, NEW w \in Editors, NEW program \in Handlers[table],
         NEW r \in Requests(program), Submit(w, program, r), OneAtATime
  PROVE  AloneTells'
<1> DEFINE new == [todo |-> program, r |-> r, seen |-> Unset, opened |-> FALSE, wrote |-> <<>>, placed |-> 0]
<1>1. /\ UNCHANGED <<table, line, refers, lost>>
      /\ \A v \in Editors : editing'[v] = IF v = w THEN new ELSE editing[v]
  BY DEF Submit, AloneTells, ContentTells
<1>2. ContentTells'
  BY SubmitTells DEF AloneTells
<1>3. RowsHold'
  BY <1>1, RowsStay DEF AloneTells
<1>4. EditKnows(new)
  <2>1. /\ new.todo = program /\ new.r = r /\ new.seen = Unset /\ new.opened = FALSE /\ new.wrote = <<>>
    OBVIOUS
  <2> HIDE DEF new
  <2> QED BY <2>1, SubmitKnows
<1> HIDE DEF new
<1>5. ASSUME NEW v \in Editors, NEW n, n = editing'[v] PROVE n = Unset \/ EditKnows(n)'
  <2>1. n = Unset \/ EditKnows(n)
    BY <1>1, <1>4, <1>5 DEF AloneTells
  <2> QED BY <1>1, <2>1, StillKnows
<1> QED BY <1>2, <1>3, <1>5 DEF AloneTells, OneAtATime

LEMMA AloneSteps ==
  ASSUME AloneTells, ContentAssumption, NEW w \in Editors, ContentStep(w), ContentTells', OneAtATime
  PROVE  AloneTells'
<1>1. PICK e : e = editing[w]
  OBVIOUS
<1>2. PICK n : n = editing'[w]
  OBVIOUS
<1>3. Serving(w) /\ EditKnows(e) /\ e = editing[w]
  <2>1. Serving(w)
    BY WhichStep
  <2> QED BY <1>1, <2>1 DEF AloneTells, Serving
<1>4. /\ table' = table /\ \A v \in Editors \ {w} : editing'[v] = editing[v]
  BY StepGoes DEF AloneTells
<1>5. \A v \in Editors \ {w} : editing[v] = Unset
  BY <1>3 DEF AloneTells, Edited, Serving
<1>6. ASSUME table = "tiles" PROVE Cardinality(OnShow') <= MaxShown /\ (n = Unset \/ TileKnows(n)')
  <2>1. TileKnows(editing[w]) /\ Cardinality(OnShow) <= MaxShown
    BY <1>3, <1>6 DEF EditKnows, AloneTells, RowsHold
  <2>2. Cardinality(OnShow') <= MaxShown /\ (editing'[w] = Unset \/ (Untouched /\ TileKnows(editing'[w])))
    BY <1>6, <2>1, TileStep DEF AloneTells
  <2>3. n = Unset \/ (Untouched /\ TileKnows(n))
    BY <1>2, <2>2
  <2>4. Untouched /\ TileKnows(n) => TileKnows(n)'
    BY Zenon DEF Untouched, TileKnows, RoomToAdd, RoomToShow, KeepsShown, HasRoom, OnShow, Present
  <2> QED BY <2>2, <2>3, <2>4
<1>7. ASSUME table = "labelSizes" PROVE Cardinality(OnShow') <= 1 /\ (n = Unset \/ LabelKnows(n)')
  <2>1. LabelKnows(editing[w]) /\ Cardinality(OnShow) <= 1
    BY <1>3, <1>7 DEF EditKnows, AloneTells, RowsHold
  <2> QED BY <1>2, <1>7, <2>1, LabelStep DEF AloneTells
<1>8. ASSUME table = "reviews" PROVE FlagsApart' /\ (n = Unset \/ ReviewKnows(n)')
  <2>1. ReviewKnows(editing[w]) /\ FlagsApart
    BY <1>3, <1>8 DEF EditKnows, AloneTells, RowsHold
  <2> QED BY <1>2, <1>8, <2>1, ReviewStep DEF AloneTells
<1>9. ASSUME table = "seasonals" PROVE AllForward' /\ (n = Unset \/ SeasonKnows(n)')
  <2>1. SeasonKnows(editing[w]) /\ AllForward
    BY <1>3, <1>9 DEF EditKnows, AloneTells, RowsHold
  <2> QED BY <1>2, <1>9, <2>1, SeasonStep DEF AloneTells
<1>10. ASSUME table # "districts"
       PROVE  lost' = {} /\ RefersNothing' /\ (n = Unset \/ (table \in Losing => LossKnows(n)'))
  <2>1. (table \in Losing => LossKnows(editing[w])) /\ RefersNothing /\ lost = {}
    BY <1>3, <1>10 DEF EditKnows, AloneTells, RowsHold
  <2> QED BY <1>2, <1>10, <2>1, LossStep DEF AloneTells
<1>11. RowsHold'
  <2>1. table = "districts" => RefersNothing'
    BY <1>4 DEF RefersNothing, Losing
  <2> QED BY <1>4, <1>6, <1>7, <1>8, <1>9, <1>10, <2>1 DEF RowsHold
<1>12. n = Unset \/ EditKnows(n)'
  BY <1>4, <1>6, <1>7, <1>8, <1>9, <1>10 DEF EditKnows
<1>13. \A v \in Editors : \A u \in {editing'[v]} : u = Unset \/ EditKnows(u)'
  BY <1>2, <1>4, <1>5, <1>12
<1> QED BY <1>11, <1>13 DEF AloneTells, OneAtATime

LEMMA AloneGoesOn ==
  ASSUME AloneTells, ContentAssumption, [ContentNext /\ OneAtATime]_contentVars
  PROVE  AloneTells'
<1>1. CASE UNCHANGED contentVars
  <2>1. UNCHANGED <<table, line, refers, lost, arranged, editing>>
    BY <1>1 DEF contentVars
  <2>2. ContentTells' /\ RowsHold'
    BY <2>1, ContentSame, RowsStay DEF AloneTells
  <2>3. ASSUME NEW v \in Editors, NEW n, n = editing'[v] PROVE n = Unset \/ EditKnows(n)'
    <3>1. n = Unset \/ EditKnows(n)
      BY <2>1, <2>3 DEF AloneTells
    <3> QED BY <2>1, <3>1, StillKnows
  <2>4. Edited' = Edited
    BY <2>1 DEF Edited
  <2> QED BY <2>2, <2>3, <2>4 DEF AloneTells
<1>2. ASSUME NEW w \in Editors, NEW program \in Handlers[table], NEW r \in Requests(program),
             Submit(w, program, r), OneAtATime
      PROVE  AloneTells'
  BY <1>2, AloneSubmits
<1>3. ASSUME NEW w \in Editors, ContentStep(w), OneAtATime, ContentNext PROVE AloneTells'
  <2>1. ContentTells'
    BY <1>3, ContentStepTells DEF AloneTells
  <2> QED BY <1>3, <2>1, AloneSteps
<1>4. ASSUME NEW g_ \in Goods, NEW x \in Lines \cup {Unset}, Refer(g_, x), OneAtATime PROVE AloneTells'
  <2>1. UNCHANGED <<table, line, lost, arranged, editing>> /\ table \in Restricting \cup Losing
    BY <1>4 DEF Refer
  <2>2. ContentTells'
    BY <2>1, ContentSame DEF AloneTells
  <2>3. refers' = refers \/ Edited = {}
    BY <1>4, <2>1 DEF OneAtATime
  <2>4. RowsHold'
    <3>1. OnShow' = OnShow
      BY <2>1, OnShowRows
    <3>2. /\ FlagsApart => FlagsApart'
          /\ AllForward => AllForward'
      BY <2>1, Zenon DEF FlagsApart, AllForward, Present, Forward
    <3>3. RefersNothing'
      BY <2>1 DEF RefersNothing
    <3> QED BY <2>1, <3>1, <3>2, <3>3 DEF RowsHold, AloneTells
  <2>5. ASSUME NEW v \in Editors, NEW n, n = editing'[v] PROVE n = Unset \/ EditKnows(n)'
    <3>1. n = editing[v] /\ (n = Unset \/ EditKnows(n))
      BY <2>1, <2>5 DEF AloneTells
    <3>2. Edited = {} => n = Unset
      BY <3>1 DEF Edited
    <3> QED BY <2>1, <2>3, <3>1, <3>2, StillKnows
  <2>6. Edited' = Edited
    BY <2>1 DEF Edited
  <2> QED BY <2>2, <2>4, <2>5, <2>6 DEF AloneTells
<1> QED BY <1>1, <1>2, <1>3, <1>4, Zenon DEF ContentNext

LEMMA AloneSound == AloneTells => RowsAreSound
<1> SUFFICES ASSUME AloneTells PROVE RowsAreSound
  OBVIOUS
<1>1. ASSUME NEW x \in Present(line) PROVE Forward(line[x])
  <2>1. RowTells(line[x])
    BY DEF AloneTells, ContentTells, TableTells, Stored, Present
  <2>2. CASE table = "seasonals"
    BY <1>1, <2>2 DEF AloneTells, RowsHold, AllForward
  <2>3. CASE table \in Campaigns
    BY <2>1, <2>3 DEF RowTells, BothGiven, Forward
  <2>4. CASE table \notin Dated
    BY <2>1, <2>4 DEF RowTells, Forward
  <2> QED BY <2>2, <2>3, <2>4 DEF Campaigns
<1> QED BY <1>1 DEF AloneTells, RowsHold, RowsAreSound, OnShow, FlagsApart

\* One request at a time there are no more tiles than the page has room for and
\* one default label size, no review is both hidden and featured, seasons end
\* after they begin, and nothing in use is deleted where uses are counted
\* (cms.service.ts, review.service.ts, catalog services).
THEOREM RowsSound == ContentAlone => []RowsAreSound
  BY AloneStart, AloneGoesOn, AloneSound, ContentAssumption, PTL DEF ContentAlone

LEMMA ContentMovesOn ==
  ASSUME [MCNext]_<<browseVars, signInVars, visitorsVars, ticketsVars, contentVars, setting>>
  PROVE  /\ [ContentNext]_contentVars /\ overlap' = overlap
         /\ ~overlap => [ContentNext /\ OneAtATime]_contentVars
  BY Zenon DEF MCNext, ContentMoves, OneAtATime, setting

\* So it is in the run, when requests do not overlap.
THEOREM ContentSound == MCSpec => []ContentIsSoundAlone
<1> DEFINE Told_ == ContentTells /\ (overlap \/ AloneTells)
<1>1. MCInit => Told_
  BY ContentStart, AloneStart, ContentAssumption DEF MCInit
<1>2. Told_ /\ [MCNext]_<<browseVars, signInVars, visitorsVars, ticketsVars, contentVars, setting>> => Told_'
  <2>1. ContentTells /\ [ContentNext]_contentVars => ContentTells'
    BY ContentSame, ContentStepTells, ContentAssumption DEF contentVars
  <2> QED BY <2>1, ContentMovesOn, AloneGoesOn, ContentAssumption
<1>3. Told_ => ContentIsSoundAlone
  BY Campaigning, AloneSound DEF ContentIsSoundAlone
<1> HIDE DEF Told_
<1> QED BY <1>1, <1>2, <1>3, PTL DEF MCSpec

\* And reorders are whole in the run, however requests overlap.
THEOREM ReordersInRun == MCSpec => []ReordersAreWhole
<1>1. MCInit => ContentTells
  BY ContentStart, ContentAssumption DEF MCInit
<1>2. ContentTells /\ [MCNext]_<<browseVars, signInVars, visitorsVars, ticketsVars, contentVars, setting>>
        => ContentTells'
  BY ContentMovesOn, ContentSame, ContentStepTells, ContentAssumption DEF contentVars
<1>3. ContentTells => ReordersAreWhole
  BY DEF ContentTells, TableTells
<1> QED BY <1>1, <1>2, <1>3, PTL DEF MCSpec
=============================================================================
