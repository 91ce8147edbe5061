----------------------------- MODULE MCBackOffice -----------------------------
(* The three back-office modules share no table: a behaviour is one of       *)
(* Stockroom's, one of Gallery's or one of Taxonomy's.                       *)
EXTENDS Stockroom, Gallery, Taxonomy, TLC

VARIABLE part

Deltas == {-1, 1}
Slugs == {"socks", "calf", "crew-socks"}
Tags == {{"socks", "men", "calf"}, {"caps", "men", "crew-socks"}}
Products == {"RibbedCrew", "Other"}
Sym == Permutations(Desk) \cup Permutations(Editor) \cup Permutations(Image)
       \cup Permutations(Variant) \cup Permutations(Color)

Init ==
  /\ part \in {"stock", "gallery", "taxonomy"}
  /\ StockInit /\ GalleryInit /\ TaxInit
  /\ part # "stock" =>
       row = [v \in Item |-> [stock |-> 0, reserved |-> 0, threshold |-> CHOOSE t \in Limit : TRUE,
                              active |-> TRUE]]
  /\ part # "gallery" =>
       (\A v, w \in Variant : color[v] = color[w]) /\ \A i \in Image : image[i] = None

Next ==
  \/ part = "stock" /\ StockNext /\ UNCHANGED <<part, galleryVars, taxVars>>
  \/ part = "gallery" /\ GalleryNext /\ UNCHANGED <<part, stockVars, taxVars>>
  \/ part = "taxonomy" /\ TaxNext /\ UNCHANGED <<part, stockVars, galleryVars>>

Spec == Init /\ [][Next]_<<part, stockVars, galleryVars, taxVars>>
=============================================================================
