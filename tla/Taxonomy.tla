------------------------------ MODULE Taxonomy ------------------------------
(***************************************************************************)
(* Categories and the products tagged with them: what staff save through   *)
(* apps/categories and apps/products, and the five commands of             *)
(* apps/core/management/commands that fill and normalise the same tables,  *)
(* on any database, any number of times, in any order.  A command is one   *)
(* transaction.  Names, texts, prices and sort orders of a row are words:  *)
(* who wrote them last.  The SKUs a seed lists for a product are handled   *)
(* one by one and alike: the product's name stands for each of them.       *)
(***************************************************************************)
EXTENDS Integers, FiniteSets

CONSTANTS
  EditSlugs,   \* category slugs staff create, edit, rename and delete
  EditTags,    \* category sets staff choose for a product
  EditProducts,\* products staff create, edit and delete
  MostEdits    \* bound on the edits of a behaviour

ASSUME EditAssumption ==
  EditSlugs \subseteq STRING /\ EditProducts \subseteq STRING /\ MostEdits \in Nat

VARIABLES
  shop,        \* the tables
  last,        \* the command that ran last, if nobody has edited since
  edits        \* edits so far

taxVars == <<shop, last, edits>>

-----------------------------------------------------------------------------
(* Tables, by key.                                                         *)

\* The rows of f, and those of g whose keys f does not have.
f ++ g == [x \in DOMAIN f \cup DOMAIN g |-> IF x \in DOMAIN f THEN f[x] ELSE g[x]]

\* The table of one row.
Only(key, row) == [x \in {key} |-> row]

-----------------------------------------------------------------------------
(* The tables of sync_sock_taxonomy and of the seeds.                      *)

Top == "none"

ROOT_CATEGORIES ==
  [socks |-> "product_family", women |-> "audience", men |-> "audience",
   kids |-> "audience", teens |-> "audience", unisex |-> "audience"]

\* SOCK_HEIGHTS and COLLECTIONS: each with the slugs it also goes by.
SOCK_HEIGHTS ==
  [h \in {"no-show", "ankle", "quarter", "half-calf", "calf", "knee-high"} |->
    CASE h = "ankle" -> {"ankel"}
      [] h = "calf" -> {"mid-calf", "crew", "crew-socks"}
      [] h = "knee-high" -> {"over-the-calf"}
      [] OTHER -> {}]

COLLECTIONS ==
  [c \in {"casual", "sport", "compression", "grippers", "dressy", "cozy"} |->
    CASE c = "casual" -> {"socks-casual", "socks-everyday", "caps-everyday", "caps-lifestyle",
                          "caps-travel"}
      [] c = "sport" -> {"sports", "socks-athletic", "socks-running", "socks-performance",
                         "caps-running", "caps-performance", "caps-outdoor"}
      [] c = "compression" -> {"socks-compression"}
      [] c = "dressy" -> {"formal", "formals", "socks-dress"}
      [] c = "cozy" -> {"socks-outdoor", "socks-merino-wool"}
      [] OTHER -> {}]

ALIASES == SOCK_HEIGHTS ++ COLLECTIONS

Canon == DOMAIN ALIASES

Aliases == UNION {ALIASES[c] : c \in Canon}

\* No slug is in the tables twice: the entries can be handled in any order.
ASSUME TablesAreDisjoint ==
  /\ DOMAIN SOCK_HEIGHTS \cap DOMAIN COLLECTIONS = {}
  /\ Aliases \cap (Canon \cup DOMAIN ROOT_CATEGORIES) = {}
  /\ \A c, d \in Canon : c # d => ALIASES[c] \cap ALIASES[d] = {}

Owner == [a \in Aliases |-> CHOOSE c \in Canon : a \in ALIASES[c]]

AUDIENCES == {"men", "women", "kids", "unisex"}

\* seed_socks: the categories it needs, and the tags of each product.
HEIGHT_CATEGORIES == {"no-show", "crew-socks", "knee-high"}
PURPOSE_CATEGORIES == {"casual", "compression"}
SOCK_PRODUCTS ==
  [NoShow |-> {"socks", "no-show", "casual", "men", "women", "unisex"},
   RibbedCrew |-> {"socks", "crew-socks", "casual", "women", "unisex"},
   KneeHigh |-> {"socks", "knee-high", "compression", "men"}]

\* seed_caps: the same.
CAP_STYLES == {"baseball", "snapback", "trucker", "dad-cap", "beanie", "bucket-hat"}
CAP_PRODUCTS ==
  [Classic |-> {"caps", "baseball", "men", "women", "unisex"},
   Snapback |-> {"caps", "snapback", "men", "women", "unisex"},
   Trucker |-> {"caps", "trucker", "men", "unisex"},
   DadCap |-> {"caps", "dad-cap", "men", "women", "unisex"},
   Beanie |-> {"caps", "beanie", "men", "women", "kids", "unisex"},
   BucketHat |-> {"caps", "bucket-hat", "women", "men", "unisex"}]

COLLAB_PRODUCTS == DOMAIN SOCK_PRODUCTS \cup DOMAIN CAP_PRODUCTS

\* The other rows of seed_data: who uses the shop, what it offers, what was
\* ordered, and what is recorded of it.
PeopleRows == {"admin", "staff", "customer", "profile", "otp", "reset token", "google", "address"}
OfferRows ==
  {"bundle", "bundle item", "collection", "attribute", "option", "zone", "method", "rate rule",
   "plan", "discount", "coupon", "rule", "cart", "cart item", "cart bundle"}
OrderRows ==
  {"order", "addresses", "item", "history", "refund", "return", "payment", "refund payment",
   "webhook event"}
RecordRows ==
  {"subscription", "event", "usage", "review", "adjustment", "alert", "customer event",
   "metric", "template", "notification", "query"}

-----------------------------------------------------------------------------
(* Rows.                                                                   *)

Category(parent, group, words) ==
  [parent |-> parent, group |-> group, active |-> TRUE, words |-> words, art |-> "none"]

Product(words) == [tags |-> {}, words |-> words, pictures |-> "none"]

VariantOf(product, words) == [product |-> product, words |-> words]

\* Faulty variant: update_or_create.
GetOrCreate_Update(table, new) == new ++ table

\* objects.get_or_create, of the rows of new: a row that is there is left as it is.
GetOrCreate(table, new) == table ++ new

Filled(old) == IF old = "none" THEN "seed" ELSE old

\* Products are created, tags added, and pictures if there are none.
SeedProducts(table, spec) ==
  LET t == GetOrCreate(table, [p \in DOMAIN spec |-> Product("seed")])
  IN  [p \in DOMAIN t |->
        IF p \in DOMAIN spec
        THEN [t[p] EXCEPT !.tags = @ \cup spec[p], !.pictures = Filled(@)]
        ELSE t[p]]

\* Variants are looked up by their SKU, whatever product they are of now.
SeedVariants(s, spec) ==
  [s EXCEPT !.variant = GetOrCreate(@, [p \in DOMAIN spec |-> VariantOf(p, "seed")])]

-----------------------------------------------------------------------------
(* The seeds.                                                              *)

Seeded(table, keys) == GetOrCreate(table, [k \in keys |-> "seed"])

\* seed_data: the people, whose passwords are set again in every run.
SeedPeople(s) == [s EXCEPT !.rows = Seeded(@, PeopleRows), !.passwords = "seed"]

DATA_PRODUCTS == Only("PremiumCrew", {"socks", "calf"})

\* seed_data: two categories and a product.
SeedCatalog(s) ==
  SeedVariants(
    [s EXCEPT !.cat = GetOrCreate(@, Only("socks", Category(Top, "product_family", "seed"))
                                     ++ Only("calf", Category("socks", "height", "seed"))),
              !.product = SeedProducts(@, DATA_PRODUCTS)],
    DATA_PRODUCTS)

\* seed_data: what the shop offers, and a cart.
SeedOffers(s) == [s EXCEPT !.rows = Seeded(@, OfferRows)]

\* seed_data: a paid order.
SeedOrder(s) == [s EXCEPT !.rows = Seeded(@, OrderRows)]

\* seed_data: what is recorded.
SeedRecords(s) == [s EXCEPT !.rows = Seeded(@, RecordRows)]

SeedData(s) == SeedRecords(SeedOrder(SeedOffers(SeedCatalog(SeedPeople(s)))))

Categories(slugs, parent, group) == [c \in slugs |-> Category(parent, group, "seed")]

\* seed_socks, which needs an admin and the socks category.
SeedSocks(s) ==
  LET root == [s.cat EXCEPT !["socks"].art = Filled(@)]
  IN  SeedVariants(
        [s EXCEPT !.cat = GetOrCreate(root, Categories(AUDIENCES, Top, "audience")
                                            ++ Categories(HEIGHT_CATEGORIES, "socks", "height")
                                            ++ Categories(PURPOSE_CATEGORIES, "socks", "purpose")),
                  !.product = SeedProducts(@, SOCK_PRODUCTS)],
        SOCK_PRODUCTS)

\* seed_caps, which needs an admin.
SeedCaps(s) ==
  LET caps == GetOrCreate(s.cat, Categories({"caps"}, Top, "product_family"))
      root == [caps EXCEPT !["caps"].art = Filled(@),
                           !["caps"].group = IF @ = "" THEN "product_family" ELSE @]
  IN  SeedVariants(
        [s EXCEPT !.cat = GetOrCreate(root, Categories(AUDIENCES, Top, "audience")
                                            ++ Categories(CAP_STYLES, "caps", "style")),
                  !.product = SeedProducts(@, CAP_PRODUCTS)],
        CAP_PRODUCTS)

\* seed_collab, with artwork: everything but artwork is written again.
SeedCollab(s) ==
  [s EXCEPT !.collab = [words |-> "seed", art |-> Filled(@.art),
                        products |-> COLLAB_PRODUCTS \cap DOMAIN s.product]]

-----------------------------------------------------------------------------
(* sync_sock_taxonomy.                                                     *)

\* Rows get new slugs; who refers to them refers to them still.
Renamed(s, new) ==
  LET New(x) == IF x \in DOMAIN new THEN new[x] ELSE x
      Old(x) == CHOOSE y \in DOMAIN s.cat : New(y) = x
  IN  [s EXCEPT
        !.cat = [x \in {New(y) : y \in DOMAIN s.cat} |-> [s.cat[Old(x)] EXCEPT !.parent = New(@)]],
        !.product = [p \in DOMAIN s.product |->
                      [s.product[p] EXCEPT !.tags = {New(t) : t \in s.product[p].tags}]]]

\* What sync makes of the row of a slug, and of none.
Normal(cat, slug, parent, group) ==
  [Category(parent, group, "sync") EXCEPT !.art = IF slug \in DOMAIN cat THEN cat[slug].art ELSE @]

\* Faulty variant: a root that is there is left.
EnsureRoots_Found(cat) ==
  cat ++ [r \in DOMAIN ROOT_CATEGORIES |-> Normal(cat, r, Top, ROOT_CATEGORIES[r])]

\* _ensure_root
EnsureRoots(cat) ==
  [r \in DOMAIN ROOT_CATEGORIES |-> Normal(cat, r, Top, ROOT_CATEGORIES[r])] ++ cat

\* _ensure_sock_child, first half: an entry that has no row takes an alias's.
AliasesToRename(cat) ==
  LET Named(c) == ALIASES[c] \cap DOMAIN cat
      bare == {c \in Canon \ DOMAIN cat : Named(c) # {}}
      taken == [c \in bare |-> CHOOSE a \in Named(c) : TRUE]
  IN  [a \in {taken[c] : c \in bare} |-> Owner[a]]

\* _ensure_sock_child, second half: the entry's row, old or new.
EnsureSockChildren(cat) ==
  [c \in Canon |-> Normal(cat, c, "socks", IF c \in DOMAIN SOCK_HEIGHTS THEN "height"
                                                                        ELSE "purpose")] ++ cat

\* _merge_alias: the products of an alias move; its row stays behind.
MergeAlias(tags) == {IF t \in Aliases THEN Owner[t] ELSE t : t \in tags}

\* The products of a height or a purpose are socks.
Tagged(tags) == tags \cup (IF tags \cap Canon = {} THEN {} ELSE {"socks"})

\* Faulty variant: products are tagged before the aliases are merged.
SyncTags_Early(tags) == MergeAlias(Tagged(tags))

SyncTags(tags) == Tagged(MergeAlias(tags))

\* handle: at its end, every other height or purpose is put away.
SyncSockTaxonomy(s) ==
  LET rooted == [s EXCEPT !.cat = EnsureRoots(@)]
      named == Renamed(rooted, AliasesToRename(rooted.cat))
      Away(x, row) == x \in Aliases \/ (row.group \in {"height", "purpose"} /\ x \notin Canon)
      full == EnsureSockChildren(named.cat)
  IN  [named EXCEPT
        !.cat = [x \in DOMAIN full |-> IF Away(x, full[x]) THEN [full[x] EXCEPT !.active = FALSE]
                                                           ELSE full[x]],
        !.product = [p \in DOMAIN named.product |->
                      [named.product[p] EXCEPT !.tags = SyncTags(@)]]]

-----------------------------------------------------------------------------
(* Commands as steps.                                                      *)

Run(command, s) == shop' = s /\ last' = command /\ UNCHANGED edits

HasAdmin == "admin" \in DOMAIN shop.rows

RunSeedData == Run("seed_data", SeedData(shop))
RunSeedSocks == HasAdmin /\ "socks" \in DOMAIN shop.cat /\ Run("seed_socks", SeedSocks(shop))
RunSeedCaps == HasAdmin /\ Run("seed_caps", SeedCaps(shop))
RunSeedCollab == Run("seed_collab", SeedCollab(shop))
RunSync == Run("sync", SyncSockTaxonomy(shop))

-----------------------------------------------------------------------------
(* Edits.                                                                  *)

Edit(s) == edits < MostEdits /\ edits' = edits + 1 /\ shop' = s /\ last' = "none"

\* CategorySerializer.validate
Placed(group, parent) ==
  /\ group \in {"product_family", "audience"} => parent = Top
  /\ group \in {"height", "purpose"} => parent = "socks"

SaveCategory(c) ==
  \E group \in {"", "product_family", "height"}, active \in BOOLEAN,
     parent \in {Top} \cup (EditSlugs \cap DOMAIN shop.cat) :
    /\ Placed(group, parent)
    /\ Edit([shop EXCEPT !.cat = Only(c, [parent |-> parent, group |-> group, active |-> active,
                                         words |-> "staff", art |-> "none"]) ++ @])

RenameCategory(c, d) ==
  /\ c \in DOMAIN shop.cat /\ d \notin DOMAIN shop.cat
  /\ Placed(shop.cat[c].group, shop.cat[c].parent)
  /\ Edit(Renamed(shop, Only(c, d)))

\* The category and what is below it, by on_delete=CASCADE.
Below(cat, c) ==
  LET b[n \in Nat] == IF n = 0 THEN {c}
                      ELSE LET above == b[n - 1]
                           IN  above \cup {x \in DOMAIN cat : cat[x].parent \in above}
  IN  b[Cardinality(EditSlugs) + 2]

DeleteCategory(c) ==
  /\ c \in DOMAIN shop.cat
  /\ LET gone == Below(shop.cat, c)
     IN  Edit([shop EXCEPT
                !.cat = [x \in DOMAIN shop.cat \ gone |-> shop.cat[x]],
                !.product = [p \in DOMAIN shop.product |->
                              [shop.product[p] EXCEPT !.tags = @ \ gone]]])

\* ProductSerializer.validate
Valid(cat, tags) ==
  LET groups == {cat[t].group : t \in tags}
  IN  /\ "product_family" \in groups \/ "socks" \in tags
      /\ "audience" \in groups \/ tags \cap AUDIENCES # {}
      /\ "socks" \in tags =>
           "height" \in groups \/ tags \cap {"no-show", "ankle", "ankel", "quarter", "crew",
                                             "crew-socks", "half-calf", "calf", "knee-high"} # {}

SaveProduct(p, tags) ==
  /\ tags \subseteq DOMAIN shop.cat /\ Valid(shop.cat, tags)
  /\ LET old == GetOrCreate(shop.product, Only(p, Product("staff")))
     IN  Edit([shop EXCEPT !.product = [old EXCEPT ![p].tags = tags, ![p].words = "staff"]])

\* The product, and its variants by on_delete=CASCADE.
DeleteProduct(p) ==
  /\ p \in DOMAIN shop.product
  /\ LET left == {k \in DOMAIN shop.variant : shop.variant[k].product # p}
     IN  Edit([shop EXCEPT !.product = [q \in DOMAIN @ \ {p} |-> @[q]],
                           !.variant = [k \in left |-> @[k]],
                           !.collab.products = @ \ {p}])

\* ProductVariantViewSet: any SKU, of any product.
SaveVariant(k, p) ==
  /\ p \in DOMAIN shop.product
  /\ Edit([shop EXCEPT !.variant = Only(k, VariantOf(p, "staff")) ++ @])

RemoveVariant(k) ==
  /\ k \in DOMAIN shop.variant
  /\ Edit([shop EXCEPT !.variant = [q \in DOMAIN @ \ {k} |-> @[q]]])

\* Everybody's rows: a cart is changed or emptied, a password changed, artwork uploaded.
ChangeRows ==
  \/ \E r \in {"cart item"} \cap DOMAIN shop.rows :
       \/ Edit([shop EXCEPT !.rows[r] = "staff"])
       \/ Edit([shop EXCEPT !.rows = [q \in DOMAIN @ \ {r} |-> @[q]]])
  \/ Edit([shop EXCEPT !.passwords = "own"])
  \/ Edit([shop EXCEPT !.collab.art = "staff", !.collab.words = "staff"])
  \/ \E p \in EditProducts \cap DOMAIN shop.product :
       Edit([shop EXCEPT !.product[p].words = "staff", !.product[p].pictures = "staff"])

-----------------------------------------------------------------------------

TaxInit ==
  /\ shop = [cat |-> <<>>, product |-> <<>>, variant |-> <<>>, rows |-> <<>>, passwords |-> "none",
             collab |-> [words |-> "none", art |-> "none", products |-> {}]]
  /\ last = "none"
  /\ edits = 0

Command == RunSeedData \/ RunSeedSocks \/ RunSeedCaps \/ RunSeedCollab \/ RunSync

TaxNext ==
  \/ Command
  \/ \E c \in EditSlugs :
       SaveCategory(c) \/ DeleteCategory(c) \/ \E d \in EditSlugs : RenameCategory(c, d)
  \/ \E p \in EditProducts : DeleteProduct(p) \/ \E tags \in EditTags : SaveProduct(p, tags)
  \/ \E k \in EditProducts : RemoveVariant(k) \/ \E p \in EditProducts : SaveVariant(k, p)
  \/ ChangeRows

TaxSpec == TaxInit /\ [][TaxNext]_taxVars

-----------------------------------------------------------------------------
(* Properties.                                                             *)

\* After sync_sock_taxonomy, whatever staff and seeds did before: Socks is a root,
\* every active height and purpose is one of the table's and a child of it, no
\* product is tagged with an alias, and every product of one is tagged as socks.
SyncRepairs ==
  last = "sync" =>
    /\ shop.cat["socks"].parent = Top
    /\ \A c \in DOMAIN shop.cat :
         shop.cat[c].group \in {"height", "purpose"} /\ shop.cat[c].active =>
           c \in Canon /\ shop.cat[c].parent = "socks"
    /\ \A p \in DOMAIN shop.product :
         LET tags == shop.product[p].tags
         IN  /\ tags \cap Aliases = {}
             /\ tags \cap Canon # {} => "socks" \in tags

\* A command that runs again, nobody having edited since, changes nothing.
CommandsRepeat == [][last' = last /\ last # "none" => UNCHANGED shop]_taxVars

\* A category whose blanks were filled in: artwork, and a group.
Completes(new, old) ==
  /\ new = [old EXCEPT !.art = new.art, !.group = new.group]
  /\ old.art # "none" => new.art = old.art
  /\ old.group # "" => new.group = old.group

\* What seeds find they leave as it was written: categories but for blanks, products but
\* for categories they gain and pictures they had none of, every variant, whatever
\* product it was moved to, and other rows.  The exception is written in: seed_data
\* sets the passwords of its three users again (seed_data.py:65, 79, 92).
SeedsOnlyAdd ==
  [][last' \in {"seed_data", "seed_socks", "seed_caps"} =>
       /\ \A c \in DOMAIN shop.cat : Completes(shop'.cat[c], shop.cat[c])
       /\ \A p \in DOMAIN shop.product :
            /\ shop'.product[p].words = shop.product[p].words
            /\ shop.product[p].pictures # "none" =>
                 shop'.product[p].pictures = shop.product[p].pictures
            /\ shop.product[p].tags \subseteq shop'.product[p].tags
       /\ \A k \in DOMAIN shop.variant : shop'.variant[k] = shop.variant[k]
       /\ \A r \in DOMAIN shop.rows : shop'.rows[r] = shop.rows[r]
       /\ shop'.collab = shop.collab
       /\ last' # "seed_data" => shop'.passwords = shop.passwords]_taxVars

-----------------------------------------------------------------------------
(* What the code sets out to keep and does not: see README.                *)

\* Children are shown by recursion over the tree, which need not be one.
NoCycle ==
  \A c \in DOMAIN shop.cat :
    c \notin UNION {Below(shop.cat, d) : d \in {x \in DOMAIN shop.cat : shop.cat[x].parent = c}}

\* A product staff could save can still be saved after a command.
ValidStaysValid ==
  [][last' # "none" => \A p \in DOMAIN shop.product :
       Valid(shop.cat, shop.product[p].tags) => Valid(shop'.cat, shop'.product[p].tags)]_taxVars

\* seed_data leaves the passwords of the users it finds.
SeedsKeepPasswords ==
  [][last' = "seed_data" /\ shop.passwords # "none" => shop'.passwords = shop.passwords]_taxVars

\* Variants that staff removed stay removed.
RemovedStayRemoved ==
  [][last' # "none" => \A p \in DOMAIN shop.product :
       p \notin DOMAIN shop.variant => p \notin DOMAIN shop'.variant]_taxVars

\* The seeds tag products with active categories only.
SeededAreShown ==
  last = "seed_socks" => \A t \in UNION {shop.product[p].tags : p \in DOMAIN SOCK_PRODUCTS} :
    shop.cat[t].active
=============================================================================
