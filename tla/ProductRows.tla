---------------------------- MODULE ProductRows ----------------------------
(***************************************************************************)
(* What the rows of one product say while staff, visitors and shipments    *)
(* write them.  Staff requests read a row, merge the fields they were sent *)
(* into it and save the whole of it; visitors and shipments count in it.   *)
(***************************************************************************)
EXTENDS Integers, FiniteSets

CONSTANTS
    Request,        \* requests in progress
    Visitor,        \* owners of wishlists, guests that view (a user id or a guest cookie)
    MaxImage,       \* images ever uploaded
    MaxSold         \* units ever shipped

ProductRowsAssumption ==
    IsFiniteSet(Visitor) /\ IsFiniteSet(Request) /\ MaxImage \in Nat /\ MaxSold \in Nat

Image == 1..MaxImage
Status == {"active", "draft"}

VARIABLES
    product,    \* the row of the product, or Gone
    variant,    \* the row of its variant, or NoVariant
    wishlists,  \* product_wishlists: who wishes for it
    views,      \* product_views: who has seen it
    objects,    \* the image store: images and their listing thumbnails
    req,        \* what each request does and has read
    shipped,    \* history: units committed while there was a product
    wanted,     \* history: what staff last made each field say
    excused     \* history: two staff requests overlapped on one row

history == <<shipped, wanted, excused>>
vars == <<product, variant, wishlists, views, objects, req, history>>

Gone == [there |-> FALSE, name |-> "none", status |-> "draft",
         wishlist |-> 0, views |-> 0, sold |-> 0]
NoVariant == [there |-> FALSE, color |-> "none", status |-> "draft", images |-> {}]
Idle == [pc |-> "idle", patch |-> [f \in {} |-> "none"], product |-> [f \in {} |-> "none"],
         variant |-> NoVariant, visitor |-> "none", image |-> 0]

Nothing == [name |-> "old", status |-> "active", color |-> "old", variant |-> "active",
            images |-> {}]

NewProduct == [Gone EXCEPT !.there = TRUE, !.name = "old", !.status = "active"]
NewVariant == [NoVariant EXCEPT !.there = TRUE, !.color = "old", !.status = "active"]

Init ==
    /\ product = NewProduct /\ variant = NewVariant
    /\ wishlists = {} /\ views = {} /\ objects = {}
    /\ req = [q \in Request |-> Idle]
    /\ shipped = 0 /\ excused = FALSE
    /\ wanted = Nothing

Step(q, r) == req' = [req EXCEPT ![q] = r]
Done(q) == Step(q, Idle)

\* MergeUpdate gone wrong: a field that is left out is emptied.
Blank(row, patch) ==
    [f \in DOMAIN row |-> CASE f \in DOMAIN patch -> patch[f]
                            [] f \in {"name", "color"} -> "none"
                            [] OTHER -> row[f]]

\* MergeUpdate: a field that the request leaves out keeps the value it had.
Merge(row, patch) == [f \in DOMAIN row |-> IF f \in DOMAIN patch THEN patch[f] ELSE row[f]]

-----------------------------------------------------------------------------
\* The columns gone wrong: the counters read are saved too.
AllColumns == {"name", "status", "wishlist", "views", "sold"}

\* The columns that UPDATE products sets: the counters are not among them.
Columns == {"name", "status"}

\* Staff: read ...
UpdateProduct(q) ==
    /\ req[q].pc = "idle" /\ product.there
    /\ \E patch \in [{"name"} -> {"new"}] \cup [{"status"} -> Status] :
          Step(q, [Idle EXCEPT !.pc = "update product", !.patch = patch,
                               !.product = [f \in Columns |-> product[f]]])
    /\ UNCHANGED <<product, variant, wishlists, views, objects, history>>

\* ... and write.
UpdateProductRow(q) ==
    /\ req[q].pc = "update product" /\ product.there
    /\ LET r == req[q]
           saved == Merge(r.product, r.patch)
       IN  /\ product' = [f \in DOMAIN product |-> IF f \in Columns THEN saved[f] ELSE product[f]]
           /\ excused' = (excused \/ \E f \in {"name", "status"} : product[f] # r.product[f])
           /\ wanted' = IF excused' THEN Nothing ELSE Merge(wanted, r.patch)
    /\ Done(q)
    /\ UNCHANGED <<variant, wishlists, views, objects, shipped>>

UpdateVariant(q) ==
    /\ req[q].pc = "idle" /\ variant.there
    /\ \E patch \in [{"color"} -> {"new"}] \cup [{"status"} -> Status] :
          Step(q, [Idle EXCEPT !.pc = "update variant", !.variant = variant,
                               !.patch = [f \in DOMAIN patch \cup {"images"} |->
                                  IF f = "images" THEN variant.images ELSE patch[f]]])
    /\ UNCHANGED <<product, variant, wishlists, views, objects, history>>

\* UploadVariantImage reads the variant first, then stores two objects.
UploadVariantImage(q) ==
    /\ req[q].pc = "idle" /\ variant.there
    /\ \E i \in Image :
          /\ \A o \in objects : o[1] # i
          /\ \A x \in Request : req[x].image # i
          /\ Step(q, [Idle EXCEPT !.pc = "upload", !.variant = variant, !.image = i])
    /\ UNCHANGED <<product, variant, wishlists, views, objects, history>>

\* The store may fail: then the request does, and what it has stored stays.
Upload(q) ==
    /\ req[q].pc = "upload"
    /\ objects' = objects \cup {<<req[q].image, "full">>}
    /\ Step(q, [req[q] EXCEPT !.pc = "upload thumb"])
    /\ UNCHANGED <<product, variant, wishlists, views, history>>

\* UploadThumb gone wrong: an image without a thumbnail will do.
UploadOrSkip(q) ==
    /\ req[q].pc = "upload thumb"
    /\ \E stored \in {{}, {<<req[q].image, "thumb">>}} : objects' = objects \cup stored
    /\ Step(q, [req[q] EXCEPT !.pc = "update variant",
                   !.patch = [f \in {"images"} |-> req[q].variant.images \cup {req[q].image}]])
    /\ UNCHANGED <<product, variant, wishlists, views, history>>

UploadThumb(q) ==
    /\ req[q].pc = "upload thumb"
    /\ objects' = objects \cup {<<req[q].image, "thumb">>}
    /\ Step(q, [req[q] EXCEPT !.pc = "update variant",
                   !.patch = [f \in {"images"} |-> req[q].variant.images \cup {req[q].image}]])
    /\ UNCHANGED <<product, variant, wishlists, views, history>>

UpdateVariantRow(q) ==
    /\ req[q].pc = "update variant" /\ variant.there
    /\ LET r == req[q]
           new == IF r.image = 0 THEN {} ELSE {r.image}
           says == IF "status" \in DOMAIN r.patch THEN r.patch.status ELSE wanted.variant
       IN  /\ variant' = Merge(r.variant, r.patch)
           /\ excused' = (excused \/ variant # r.variant)
           /\ wanted' = IF excused' THEN Nothing ELSE [wanted EXCEPT
                  !.color = IF "color" \in DOMAIN r.patch THEN "new" ELSE @,
                  !.variant = says, !.images = @ \cup new]
    /\ Done(q)
    /\ UNCHANGED <<product, wishlists, views, objects, shipped>>

\* One transaction; what referred to the product goes with it.
DeleteProduct ==
    /\ product.there
    /\ product' = Gone /\ variant' = NoVariant /\ wishlists' = {} /\ views' = {}
    /\ shipped' = 0 /\ wanted' = Nothing
    /\ UNCHANGED <<objects, req, excused>>

\* A row is gone when it is to be written, or a step fails.
Fail(q) ==
    /\ req[q].pc # "idle"
    /\ Done(q)
    /\ UNCHANGED <<product, variant, wishlists, views, objects, history>>

-----------------------------------------------------------------------------
\* A visitor reads a product that is active, then wishes for it or is counted.
Visit(q, pc) ==
    /\ req[q].pc = "idle" /\ product.there /\ product.status = "active"
    /\ \E v \in Visitor : Step(q, [Idle EXCEPT !.pc = pc, !.visitor = v])
    /\ UNCHANGED <<product, variant, wishlists, views, objects, history>>

GetProduct(q) == Visit(q, "view")
AddWishlist(q) == Visit(q, "wish")

\* RecordUniqueView gone wrong: it does not ask whether the row was new.
CountEveryView(q) ==
    /\ req[q].pc = "view" /\ product.there
    /\ views' = views \cup {req[q].visitor}
    /\ product' = [product EXCEPT !.views = IF @ > Cardinality(Visitor) THEN @ ELSE @ + 1]
    /\ Done(q)
    /\ UNCHANGED <<variant, wishlists, objects, history>>

\* The unique row decides whether the view counts.
RecordUniqueView(q) ==
    /\ req[q].pc = "view" /\ product.there
    /\ views' = views \cup {req[q].visitor}
    /\ product' = [product EXCEPT !.views = IF req[q].visitor \in views THEN @ ELSE @ + 1]
    /\ Done(q)
    /\ UNCHANGED <<variant, wishlists, objects, history>>

AddWishlistRow(q) ==
    /\ req[q].pc = "wish" /\ product.there
    /\ wishlists' = wishlists \cup {req[q].visitor}
    /\ product' = [product EXCEPT !.wishlist = IF req[q].visitor \in wishlists THEN @ ELSE @ + 1]
    /\ Done(q)
    /\ UNCHANGED <<variant, views, objects, history>>

RemoveWishlist(v) ==
    /\ v \in wishlists
    /\ wishlists' = wishlists \ {v}
    /\ product' = [product EXCEPT !.wishlist = IF @ > 0 THEN @ - 1 ELSE 0]
    /\ UNCHANGED <<variant, views, objects, req, history>>

\* FinalizeReservation counts a unit that ships, if its variant is still there.
CommitSale ==
    /\ variant.there /\ shipped < MaxSold
    /\ product' = [product EXCEPT !.sold = @ + 1]
    /\ shipped' = shipped + 1
    /\ UNCHANGED <<variant, wishlists, views, objects, req, wanted, excused>>

Next ==
    \/ \E q \in Request :
          \/ UpdateProduct(q) \/ UpdateProductRow(q) \/ UpdateVariant(q) \/ UpdateVariantRow(q)
          \/ UploadVariantImage(q) \/ Upload(q) \/ UploadThumb(q) \/ Fail(q)
          \/ GetProduct(q) \/ RecordUniqueView(q) \/ AddWishlist(q) \/ AddWishlistRow(q)
    \/ \E v \in Visitor : RemoveWishlist(v)
    \/ DeleteProduct \/ CommitSale

Spec == Init /\ [][Next]_vars

-----------------------------------------------------------------------------
TypeOK ==
    /\ product.there \in BOOLEAN /\ product.status \in Status
    /\ product.name \in {"none", "old", "new"}
    /\ variant.there \in BOOLEAN /\ variant.status \in Status /\ variant.images \subseteq Image
    /\ wishlists \subseteq Visitor /\ views \subseteq Visitor
    /\ objects \subseteq Image \X {"full", "thumb"}
    /\ product.views \in 0..Cardinality(Visitor) /\ product.wishlist \in 0..Cardinality(Visitor)
    /\ shipped \in 0..MaxSold

\* The counters that the listing sorts by are the number of rows they stand
\* for, though staff save the whole product around the transactions that count.
CountersMatchRows ==
    /\ product.wishlist = Cardinality(wishlists)
    /\ product.views = Cardinality(views)
    /\ product.sold = shipped

\* A field says what a request last made it say, and every image that was
\* uploaded is listed, as long as no two requests overlapped on one row: then
\* the later one writes back what it had read.
EditsStand ==
    ~excused =>
        /\ product.there => product.name = wanted.name /\ product.status = wanted.status
        /\ variant.there => /\ variant.color = wanted.color /\ variant.status = wanted.variant
                            /\ variant.images = wanted.images

\* A listed image can be shown: both its objects have been stored, whatever
\* failed on the way.
NoBrokenImage == \A i \in variant.images : {<<i, "full">>, <<i, "thumb">>} \subseteq objects

-----------------------------------------------------------------------------
\* The inductive invariant of the proofs, in parts.
ProductRow == [there : BOOLEAN, name : {"none", "old", "new"}, status : Status,
               wishlist : Nat, views : Nat, sold : Nat]

VariantRow == [there : BOOLEAN, color : {"none", "old", "new"}, status : Status,
               images : SUBSET Image]

Wanted == [name : {"old", "new"}, status : Status, color : {"old", "new"}, variant : Status,
           images : SUBSET Image]

RowTypes ==
    /\ product \in ProductRow /\ variant \in VariantRow /\ wanted \in Wanted
    /\ wishlists \subseteq Visitor /\ views \subseteq Visitor
    /\ objects \subseteq Image \X {"full", "thumb"}
    /\ shipped \in 0..MaxSold /\ excused \in BOOLEAN
    /\ DOMAIN req = Request

ShownWith(images) == \A i \in images : {<<i, "full">>, <<i, "thumb">>} \subseteq objects

\* What a request holds at each of its steps: the row it read, whose images could be
\* shown, and the fields to change.
Held(r) ==
    /\ DOMAIN r = DOMAIN Idle
    /\ r.pc \in {"view", "wish"} => r.visitor \in Visitor
    /\ r.pc = "update product" =>
          /\ DOMAIN r.product = Columns
          /\ r.product["name"] \in {"none", "old", "new"} /\ r.product["status"] \in Status
          /\ r.patch \in [{"name"} -> {"new"}] \cup [{"status"} -> Status]
    /\ r.pc \in {"upload", "upload thumb"} => r.variant \in VariantRow /\ r.image \in Image
    /\ r.pc = "upload thumb" => <<r.image, "full">> \in objects
    /\ r.pc = "update variant" =>
          /\ r.variant \in VariantRow /\ r.image \in Image \cup {0}
          /\ DOMAIN r.patch \subseteq {"color", "status", "images"} /\ "images" \in DOMAIN r.patch
          /\ "color" \in DOMAIN r.patch => r.patch["color"] = "new"
          /\ "status" \in DOMAIN r.patch => r.patch["status"] \in Status
          /\ r.patch["images"] = r.variant.images \cup (IF r.image = 0 THEN {} ELSE {r.image})
          /\ ShownWith(r.patch["images"])
    /\ r.pc \in {"upload", "upload thumb"} => ShownWith(r.variant.images)

RowsInv ==
    /\ RowTypes /\ CountersMatchRows /\ EditsStand /\ NoBrokenImage
    /\ \A q \in Request : Held(req[q])
=============================================================================
