------------------------------- MODULE Gallery -------------------------------
(***************************************************************************)
(* The images of one product: apps/products (models.py, serializers.py,    *)
(* views.py).  Images of variants of one colour form a group, those of no  *)
(* variant another, and a group shows its primary image first.             *)
(* ProductImage.save looks for a primary, writes the row and clears the    *)
(* other primaries in three statements that no transaction holds together: *)
(* a worker may die, or the database fail, between any two of them.        *)
(***************************************************************************)
EXTENDS Integers, FiniteSets

CONSTANTS
  Image,     \* ids of ProductImage rows
  Variant,   \* the product's variants
  Color,     \* their colours
  Editor,    \* staff sessions
  None       \* no variant, no row

ASSUME NothingAssumption == None \notin Image \cup Variant \cup Color

VARIABLES
  image,     \* ProductImage rows
  color,     \* colours of the variants, None of a deleted one
  mixed,     \* history: groups that images joined because their variant changed
  torn,      \* history: other groups that a save left uncleared, and none cleared since
  editor     \* what each session is in the middle of

galleryVars == <<image, color, mixed, torn, editor>>

Pictures == [variant : Variant \cup {None}, primary : BOOLEAN, active : BOOLEAN]

-----------------------------------------------------------------------------
(* Helpers.                                                                *)

NoWork == [step |-> "none"]

\* The group of the images of a variant: its colour, None for those of no variant.
Group(v) == IF v = None THEN None ELSE color[v]

Kept == {i \in Image : image[i] # None}

Primaries(g) == {i \in Kept : image[i].primary /\ Group(image[i].variant) = g}

\* Variants that can be named in a request.
Named == {None} \cup {v \in Variant : color[v] # None}

Open(e, j) == editor[e] = NoWork /\ editor' = [editor EXCEPT ![e] = j]

Close(e) == editor' = [editor EXCEPT ![e] = NoWork]

-----------------------------------------------------------------------------
(* ProductImage.save, from an upload or a PATCH.                           *)

\* ProductImageUploadView: an image that does not ask to be the primary becomes it
\* if its group shows none.
LookUpload(e, i) ==
  /\ image[i] = None /\ \A f \in Editor : editor[f].step # "none" => editor[f].image # i
  /\ \E v \in Named, p, a \in BOOLEAN :
       LET shown == \E j \in Primaries(Group(v)) : image[j].active
       IN  Open(e, [step |-> "save", image |-> i, group |-> Group(v),
                    row |-> [variant |-> v, primary |-> p \/ ~shown, active |-> a]])
  /\ UNCHANGED <<image, color, mixed, torn>>

\* ProductImageDetailView.patch: what is not in the request is saved as it was read.
LookPatch(e, i) ==
  /\ i \in Kept
  /\ \E v \in Named \cup {image[i].variant}, p, a \in BOOLEAN :
       Open(e, [step |-> "save", image |-> i, group |-> Group(v),
                row |-> [variant |-> v, primary |-> p, active |-> a]])
  /\ UNCHANGED <<image, color, mixed, torn>>

\* The row is written, a deleted one again; a variant deleted meanwhile is refused.
SaveImage(e) ==
  /\ editor[e].step = "save"
  /\ LET j == editor[e]
     IN  IF j.row.variant # None /\ Group(j.row.variant) = None
         THEN Close(e) /\ UNCHANGED image
         ELSE /\ image' = [image EXCEPT ![j.image] = j.row]
              /\ IF j.row.primary
                 THEN editor' = [editor EXCEPT ![e] = [step |-> "clear", image |-> j.image,
                                                       group |-> j.group]]
                 ELSE Close(e)
  /\ UNCHANGED <<color, mixed, torn>>

\* Faulty variant: only images of the same variant are cleared.
ClearOthers_Variant(e) ==
  /\ editor[e].step = "clear"
  /\ LET j == editor[e]
     IN  /\ image' = [i \in Image |->
              IF i # j.image /\ {i, j.image} \subseteq Kept /\ image[i].variant = image[j.image].variant
              THEN [image[i] EXCEPT !.primary = FALSE] ELSE image[i]]
         /\ torn' = torn \ {j.group}
  /\ Close(e)
  /\ UNCHANGED <<color, mixed>>

\* The other primaries of the group, for the colour that save has read.
ClearOthers(e) ==
  /\ editor[e].step = "clear"
  /\ LET j == editor[e]
     IN  /\ image' = [i \in Image |-> IF i \in Primaries(j.group) \ {j.image}
                                      THEN [image[i] EXCEPT !.primary = FALSE] ELSE image[i]]
         /\ torn' = torn \ {j.group}
  /\ Close(e)
  /\ UNCHANGED <<color, mixed>>

\* The worker dies or the statement fails: what was written stays written.
Abandon(e) ==
  /\ editor[e].step # "none"
  /\ torn' = IF editor[e].step = "clear" THEN torn \cup ({editor[e].group} \ mixed) ELSE torn
  /\ Close(e)
  /\ UNCHANGED <<image, color, mixed>>

DeleteImage(i) ==
  /\ i \in Kept
  /\ image' = [image EXCEPT ![i] = None]
  /\ UNCHANGED <<color, mixed, torn, editor>>

-----------------------------------------------------------------------------
(* Edits of a variant, which nobody checks against the images.             *)

\* The images of the variant join those of its new colour.
Recolor(v, c) ==
  /\ color[v] \notin {None, c}
  /\ color' = [color EXCEPT ![v] = c]
  /\ mixed' = mixed \cup {c} /\ torn' = torn \ {c}
  /\ UNCHANGED <<image, editor>>

\* on_delete=SET_NULL: the images join those of no variant.
DeleteVariant(v) ==
  /\ color[v] # None
  /\ color' = [color EXCEPT ![v] = None]
  /\ image' = [i \in Image |-> IF i \in Kept /\ image[i].variant = v
                               THEN [image[i] EXCEPT !.variant = None] ELSE image[i]]
  /\ mixed' = mixed \cup {None} /\ torn' = torn \ {None}
  /\ UNCHANGED editor

-----------------------------------------------------------------------------

\* mark_existing_primary_images, when the column was added: the first active
\* image of every group became its primary.
Marked(g) ==
  LET shown == {i \in Kept : image[i].active /\ Group(image[i].variant) = g}
  IN  /\ Primaries(g) \subseteq shown
      /\ shown # {} => \E i \in shown : Primaries(g) = {i}

GalleryInit ==
  /\ color \in [Variant -> Color]
  /\ image \in [Image -> Pictures \cup {None}]
  /\ \A g \in Color \cup {None} : Marked(g)
  /\ mixed = {} /\ torn = {}
  /\ editor = [e \in Editor |-> NoWork]

GalleryNext ==
  \/ \E e \in Editor, i \in Image : LookUpload(e, i) \/ LookPatch(e, i)
  \/ \E e \in Editor : SaveImage(e) \/ ClearOthers(e) \/ Abandon(e)
  \/ \E i \in Image : DeleteImage(i)
  \/ \E v \in Variant : DeleteVariant(v) \/ \E c \in Color : Recolor(v, c)

GallerySpec == GalleryInit /\ [][GalleryNext]_galleryVars

-----------------------------------------------------------------------------
(* Properties.                                                             *)

Works ==
  {NoWork}
  \cup [step : {"save"}, image : Image, group : Color \cup {None}, row : Pictures]
  \cup [step : {"clear"}, image : Image, group : Color \cup {None}]

\* Rows, colours and sessions have the shape the code gives them.
GalleryTypeOK ==
  /\ image \in [Image -> Pictures \cup {None}]
  /\ color \in [Variant -> Color \cup {None}]
  /\ mixed \subseteq Color \cup {None} /\ torn \subseteq Color \cup {None}
  /\ editor \in [Editor -> Works]

\* No request is about to clear primaries of a group.
Settled(g) == \A e \in Editor : editor[e].step = "clear" => editor[e].group # g

\* However uploads, edits, deletions and failed saves overlap, a group is left with
\* one primary image at most: the last of them to clear leaves its own, and only a
\* save that died before it cleared leaves more, until the next one of the group
\* (ProductImage.save, models.py:94-111).
OnePrimary ==
  \A g \in (Color \cup {None}) \ (mixed \cup torn) :
    Settled(g) => \A i, j \in Primaries(g) : i = j

-----------------------------------------------------------------------------
(* What the code sets out to keep and does not: see README.                *)

\* A group with a picture to show has a primary one.
SomePrimary ==
  \A i \in Kept : image[i].active /\ (\A e \in Editor : editor[e] = NoWork) =>
    \E j \in Primaries(Group(image[i].variant)) : image[j].active

\* The same of every group: of those of changed variants, and of those a save died in.
OnePrimaryEver ==
  \A g \in Color \cup {None} : Settled(g) => \A i, j \in Primaries(g) : i = j
=============================================================================
