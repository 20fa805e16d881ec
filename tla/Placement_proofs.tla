-------------------------- MODULE Placement_proofs --------------------------
(***************************************************************************)
(* What holds of the items on the canvas, whoever places them.             *)
(*                                                                         *)
(* Of a phone that is turned, for any canvas and any phone: Remembered     *)
(* says when the four remembered fields can be trusted.  With nothing to   *)
(* excuse them they are those of the item that is in the scene, and its    *)
(* source has a picture; while a callback runs they are those of the turn  *)
(* before.  A turn replaces one fit by another, so that every scale goes   *)
(* back to one that the item was placed with, and stays positive.          *)
(*                                                                         *)
(* Of the mouse in the preview, for any items and any number of gestures   *)
(* and requests: what is under the mouse is an item of the scene, since    *)
(* the items are finitely many, and a gesture that was not disturbed knows *)
(* at each of its messages what it moved and what it selected.             *)
(***************************************************************************)
EXTENDS MCPlacement, FiniteSetTheorems, WellFoundedInduction, TLAPS

-----------------------------------------------------------------------------
(* The turns of a phone: its types.                                        *)
Transforms ==
  {Nowhere, Stretched} \cup [kind : {"at"}, scale : Int, x : Int, y : Int]
Callbacks ==
  [at : {"compute", "write"}, dir : Dirs, base : Sizes, was : Sizes,
   read : Transforms, new : Transforms, layout : BOOLEAN, gone : BOOLEAN]
Types ==
  /\ present \in BOOLEAN /\ phone_source_init_ \in BOOLEAN
  /\ base \in Sizes /\ last_phone_ \in Sizes
  /\ info \in Transforms
  /\ last_scale_ \in Nat \cup {Infinite}
  /\ plugin \in {Idle} \cup Callbacks

-----------------------------------------------------------------------------
(* The operators of a layout.                                              *)

LEMMA Lengths ==
  /\ CanvasCX \in Nat \ {0} /\ CanvasCY \in Nat \ {0}
  /\ PhoneCX \in Nat \ {0} /\ PhoneCY \in Nat \ {0}
BY SizeAssumption

Fits == Nat \cup {Infinite}

LEMMA QuotientIsFit == \A n, d \in Nat : Quotient(n, d) \in Fits
BY DEF Quotient, Infinite, Fits

LEMMA SizesArePairs ==
  \A size \in Sizes : size[1] \in Nat /\ size[2] \in Nat
BY Lengths DEF Sizes, NoPicture

LEMMA FitIsFit == \A dir, size : size \in Sizes => Fit(dir, size) \in Fits
BY Lengths, QuotientIsFit, SizesArePairs DEF Fit, Smaller

LEMMA FitsAreInts == Fits \subseteq Int
BY DEF Fits, Infinite

(* A picture fits with a scale that is neither zero nor infinite.          *)
LEMMA QuotientIsPositive ==
  \A n, d \in Nat \ {0} : d <= 2 * n => Quotient(n, d) \in Nat \ {0}
<1> SUFFICES ASSUME NEW n \in Nat \ {0}, NEW d \in Nat \ {0}, d <= 2 * n
             PROVE (2 * n) \div d \in Nat \ {0}
  BY DEF Quotient
<1> QED OBVIOUS

LEMMA FitIsPositive ==
  \A dir, size : size \in Sizes \ {NoPicture} => Fit(dir, size) \in Nat \ {0}
<1> SUFFICES ASSUME NEW dir, NEW size, size \in Sizes \ {NoPicture}
             PROVE Fit(dir, size) \in Nat \ {0}
  OBVIOUS
<1>1. size[1] \in {PhoneCX, PhoneCY} /\ size[2] \in {PhoneCX, PhoneCY}
  BY DEF Sizes
<1>2. size[1] \in Nat \ {0} /\ size[2] \in Nat \ {0}
  BY <1>1, Lengths
<1>3. size[1] <= 2 * CanvasCX /\ size[2] <= 2 * CanvasCY
  BY <1>1, FitAssumption
<1>4. Quotient(CanvasCX, size[1]) \in Nat \ {0} /\ Quotient(CanvasCY, size[2]) \in Nat \ {0}
  BY <1>2, <1>3, Lengths, QuotientIsPositive
<1> QED BY <1>4 DEF Fit, Smaller

LEMMA ProductIsInt == \A length, scale \in Int : HalfOf(length, scale) \in Int
BY DEF HalfOf

LEMMA AtIsTransform == \A scale, x, y \in Int : At(scale, x, y) \in Transforms
BY DEF At, Transforms

LEMMA CentredIsTransform ==
  \A scale, size : scale \in Int /\ size \in Sizes =>
    Centred(scale, size) \in Transforms /\ Centred(scale, size) # Nowhere
<1> SUFFICES ASSUME NEW scale \in Int, NEW size \in Sizes
             PROVE Centred(scale, size) \in Transforms /\ Centred(scale, size) # Nowhere
  OBVIOUS
<1>1. size[1] \in Int /\ size[2] \in Int
  BY SizesArePairs
<1>2. HalfOf(size[1], scale) \in Int /\ HalfOf(size[2], scale) \in Int
  BY <1>1, ProductIsInt
<1>3. 2 * CanvasCX - HalfOf(size[1], scale) \in Int /\ 2 * CanvasCY - HalfOf(size[2], scale) \in Int
  BY <1>2, Lengths
<1>4. Centred(scale, size) \in Transforms
  BY <1>3, AtIsTransform DEF Centred
<1>5. Centred(scale, size).kind = "at" /\ Nowhere.kind = "nowhere"
  BY DEF Centred, At, Nowhere
<1> QED BY <1>4, <1>5

LEMMA LayoutIsTransform ==
  \A dir, size, old : size \in Sizes =>
    Layout(dir, size, old) \in Transforms /\ Layout(dir, size, old) # Nowhere
<1>1. Stretched \in Transforms /\ Stretched # Nowhere
  BY DEF Transforms, Stretched, Nowhere
<1> QED BY <1>1, FitIsFit, FitsAreInts, CentredIsTransform DEF Layout

(* A transform that is a place has numbers.                                *)
LEMMA PlacesHaveNumbers ==
  \A t \in Transforms : t # Nowhere /\ t # Stretched =>
    t.kind = "at" /\ t.scale \in Int /\ t.x \in Int /\ t.y \in Int
BY DEF Transforms

LEMMA KindTellsPlaces ==
  \A t \in Transforms : t.kind = "at" =>
    t # Nowhere /\ t # Stretched /\ t.scale \in Int /\ t.x \in Int /\ t.y \in Int
<1>1. Nowhere.kind = "nowhere" /\ Stretched.kind = "stretched"
  BY DEF Nowhere, Stretched
<1> QED BY <1>1, PlacesHaveNumbers

-----------------------------------------------------------------------------
(* A turn writes a place, and not a lost one if neither fit is degenerate. *)
LEMMA TurnIsTransform ==
  ASSUME NEW fit \in Fits, Types, plugin \in Callbacks, plugin.read # Stretched
  PROVE  /\ TurnedOrLost(fit) \in Transforms
         /\ plugin.read # Nowhere /\ last_scale_ \in Nat \ {0} /\ fit \in Nat \ {0}
              => TurnedOrLost(fit) # Nowhere /\ TurnedOrLost(fit) = Turned(fit)
<1> DEFINE old == plugin.read
           scale == (old.scale * fit) \div last_scale_
<1>1. CASE old = Nowhere \/ {last_scale_, fit} \cap {0, Infinite} # {}
  <2>1. TurnedOrLost(fit) = Nowhere /\ Nowhere \in Transforms
    BY <1>1 DEF TurnedOrLost, Transforms
  <2>2. old = Nowhere \/ ~(last_scale_ \in Nat \ {0} /\ fit \in Nat \ {0})
    BY <1>1 DEF Infinite
  <2> QED BY <2>1, <2>2
<1>2. CASE old # Nowhere /\ {last_scale_, fit} \cap {0, Infinite} = {}
  <2>1. last_scale_ \in Nat \ {0} /\ fit \in Nat \ {0}
    BY <1>2 DEF Fits, Types
  <2>2. old \in Transforms
    BY DEF Callbacks
  <2>3. old.scale \in Int /\ old.x \in Int /\ old.y \in Int
    BY <1>2, <2>2, PlacesHaveNumbers
  <2>4. old.scale * fit \in Int
    BY <2>1, <2>3
  <2>5. scale \in Int
    BY <2>1, <2>4
  <2>6. last_phone_ \in Sizes /\ plugin.base \in Sizes
    BY DEF Types, Callbacks
  <2>7. /\ HalfOf(last_phone_[1], old.scale) \in Int /\ HalfOf(last_phone_[2], old.scale) \in Int
        /\ HalfOf(plugin.base[1], scale) \in Int /\ HalfOf(plugin.base[2], scale) \in Int
    <3> HIDE DEF scale
    <3>1. /\ last_phone_[1] \in Int /\ last_phone_[2] \in Int
          /\ plugin.base[1] \in Int /\ plugin.base[2] \in Int
      BY <2>6, SizesArePairs
    <3> QED BY <2>3, <2>5, <3>1, ProductIsInt
  <2>8. /\ old.x + HalfOf(last_phone_[1], old.scale) - HalfOf(plugin.base[1], scale) \in Int
        /\ old.y + HalfOf(last_phone_[2], old.scale) - HalfOf(plugin.base[2], scale) \in Int
    BY <2>3, <2>7
  <2>9. Turned(fit) \in Transforms
    BY <2>5, <2>8, AtIsTransform DEF Turned
  <2>10. Turned(fit).kind = "at" /\ Nowhere.kind = "nowhere"
    BY DEF Turned, At, Nowhere
  <2>11. TurnedOrLost(fit) = Turned(fit)
    BY <1>2 DEF TurnedOrLost
  <2> QED BY <2>9, <2>10, <2>11
<1> QED BY <1>1, <1>2

LEMMA TypesInit == Init => Types
<1>1. At(2, 0, 0) \in Transforms
  BY AtIsTransform
<1>2. NoPicture \in Sizes /\ 0 \in Nat \cup {Infinite} /\ Idle \in {Idle} \cup Callbacks
  BY DEF Sizes
<1> QED BY <1>1, <1>2 DEF Init, Types

LEMMA TypesStep == Types /\ [Next]_vars => Types'
<1> SUFFICES ASSUME Types, [Next]_vars PROVE Types'
  OBVIOUS
<1> USE DEF Types
<1>0. NoPicture \in Sizes /\ At(2, 0, 0) \in Transforms /\ 0 \in Nat
      /\ (\A dir : SizeOf(dir) \in Sizes) /\ Stretched \in Transforms
  BY AtIsTransform DEF Sizes, SizeOf, Transforms
<1>1. ASSUME NEW dir \in Dirs, DirChange(dir) PROVE Types'
  <2>1. base' \in Sizes
    BY <1>0, <1>1 DEF DirChange
  <2>2. plugin' \in Callbacks
    BY <1>1, <2>1 DEF DirChange, Callbacks
  <2> QED BY <1>1, <2>1, <2>2 DEF DirChange, fields
<1>2. ASSUME plugin.at = "compute" PROVE plugin \in Callbacks
  BY <1>2 DEF Idle
<1>3. ASSUME plugin.at = "write" PROVE plugin \in Callbacks
  BY <1>3 DEF Idle
<1>4. ASSUME NEW new \in Transforms, NEW layout \in BOOLEAN, plugin \in Callbacks,
             Write(new, layout)
      PROVE  plugin' \in Callbacks
  BY <1>4 DEF Write, Callbacks
<1>5. CASE FirstDirection
  <2>1. plugin \in Callbacks
    BY <1>2, <1>5 DEF FirstDirection, Computing
  <2>2. (plugin.dir # Default) \in BOOLEAN
    OBVIOUS
  <2>3. plugin.base \in Sizes /\ plugin.read \in Transforms
    BY <2>1 DEF Callbacks
  <2>4. CASE plugin.base # NoPicture
    <3>1. Layout(plugin.dir, plugin.base, plugin.read) \in Transforms
      BY <2>3, LayoutIsTransform
    <3>2. Write(Layout(plugin.dir, plugin.base, plugin.read), TRUE)
      BY <1>5, <2>4 DEF FirstDirection
    <3>3. plugin' \in Callbacks
      BY <1>4, <2>1, <3>1, <3>2
    <3>4. last_scale_' \in Fits /\ last_phone_' \in Sizes
      BY <1>5, <2>3, <2>4, FitIsFit DEF FirstDirection
    <3>5. phone_source_init_' \in BOOLEAN
      BY <1>5, <2>2, Zenon DEF FirstDirection
    <3> QED BY <1>5, <3>3, <3>4, <3>5 DEF FirstDirection, Fits
  <2>5. CASE plugin.base = NoPicture
    <3>1. Write(plugin.read, FALSE)
      BY <1>5, <2>5 DEF FirstDirection
    <3>2. plugin' \in Callbacks
      BY <1>4, <2>1, <2>3, <3>1
    <3>3. phone_source_init_' \in BOOLEAN
      BY <1>5, <2>2, Zenon DEF FirstDirection
    <3> QED BY <1>5, <2>5, <3>2, <3>3 DEF FirstDirection
  <2> QED BY <2>4, <2>5
<1>6. CASE KeepItem
  <2>1. plugin \in Callbacks
    BY <1>2, <1>6 DEF KeepItem, Computing
  <2>2. plugin' \in Callbacks
    BY <1>4, <1>6, <2>1 DEF KeepItem, Callbacks
  <2> QED BY <1>6, <2>2 DEF KeepItem, fields
<1>7. CASE TurnItem
  <2> DEFINE fit == Fit(plugin.dir, plugin.base)
  <2>1. plugin \in Callbacks /\ plugin.read # Stretched
    BY <1>2, <1>7 DEF TurnItem, Computing, Untouched
  <2>2. fit \in Fits /\ plugin.base \in Sizes
    BY <2>1, FitIsFit DEF Callbacks
  <2>3. TurnedOrLost(fit) \in Transforms
    BY <2>1, <2>2, TurnIsTransform
  <2>4. plugin' \in Callbacks
    BY <1>4, <1>7, <2>1, <2>3 DEF TurnItem
  <2> QED BY <1>7, <2>2, <2>4 DEF TurnItem, Fits
<1>8. CASE SetInfo
  <2>1. plugin \in Callbacks
    BY <1>3, <1>8 DEF SetInfo
  <2> QED BY <1>8, <2>1 DEF SetInfo, Callbacks, fields
<1>9. CASE AddPhone
  BY <1>0, <1>9 DEF AddPhone, fields
<1>10. ASSUME NEW new \in Transforms, Place(new) PROVE Types'
  BY <1>10 DEF Place, fields
<1>11. CASE MoveItem
  <2>1. PICK p \in Places : Place(At(info.scale, p[1], p[2]))
    BY <1>11 DEF MoveItem
  <2>2. info.scale \in Int
    BY <1>11, KindTellsPlaces DEF MoveItem
  <2>3. p[1] \in Int /\ p[2] \in Int
    BY PlaceAssumption
  <2> QED BY <1>10, <2>1, <2>2, <2>3, AtIsTransform
<1>12. CASE ResetItem
  BY <1>0, <1>10, <1>12 DEF ResetItem
<1>13. CASE SetSceneItemFullScreen
  <2>1. Centred(Fit("landscape", base), base) \in Transforms
    BY FitIsFit, FitsAreInts, CentredIsTransform
  <2> QED BY <1>0, <1>10, <1>13, <2>1 DEF SetSceneItemFullScreen
<1>14. CASE RemoveItem
  <2>1. plugin' \in {Idle} \cup Callbacks
    BY <1>14 DEF RemoveItem, Callbacks
  <2> QED BY <1>0, <1>14, <2>1 DEF RemoveItem
<1>15. CASE UNCHANGED vars
  BY <1>15 DEF vars, fields
<1> QED
  BY <1>1, <1>5, <1>6, <1>7, <1>8, <1>9, <1>11, <1>12, <1>13, <1>14, <1>15 DEF Next

-----------------------------------------------------------------------------
(* When the fields can be trusted.  The callback holds no lock: an item    *)
(* can be removed, and added again, while it runs (gone).                  *)
Trusted == phone_source_init_ /\ excuse \cap {"blind", "straddled"} = {}

Attached ==
  plugin # Idle /\ ~plugin.gone => present /\ base = plugin.base
Forgotten ==
  /\ plugin.at = "compute" /\ plugin.gone => ~phone_source_init_
  /\ ~present /\ "straddled" \notin excuse => ~phone_source_init_
  /\ (present /\ heard = "none" /\ "straddled" \notin excuse
        /\ (plugin = Idle \/ plugin.at = "compute" \/ plugin.gone)) => ~phone_source_init_
  /\ plugin # Idle /\ plugin.gone /\ "straddled" \notin excuse => ~phone_source_init_
Usable == Trusted => last_scale_ \in Nat \ {0} /\ base # NoPicture
Remembered ==
  Trusted /\ excuse = {} =>
    last_phone_ = IF plugin.at = "compute" THEN plugin.was ELSE base

Sound == Attached /\ Forgotten /\ Usable /\ Remembered

LEMMA SoundInit == Init => Sound
BY DEF Init, Sound, Attached, Forgotten, Usable, Remembered, Trusted, Idle

LEMMA SoundStep == Types /\ Sound /\ [Next]_vars => Sound'
<1> SUFFICES ASSUME Types, Sound, [Next]_vars PROVE Sound'
  OBVIOUS
<1> USE DEF Sound, Attached, Forgotten, Usable, Remembered, Trusted
<1>a. plugin.at \in {"compute", "write"} => plugin \in Callbacks
  BY DEF Idle, Types
<1>b. Idle.at = "idle" /\ \A c \in Callbacks : c # Idle
  BY DEF Idle, Callbacks
<1>1. ASSUME NEW dir \in Dirs, DirChange(dir) PROVE Sound'
  <2>1. /\ plugin'.at = "compute" /\ plugin'.base = base' /\ plugin'.was = base
        /\ plugin'.gone = FALSE
    BY <1>1 DEF DirChange
  <2>2. SizeOf(dir) # NoPicture
    BY Lengths DEF SizeOf, NoPicture
  <2>3. base # NoPicture => base' # NoPicture
    BY <1>1, <2>2 DEF DirChange
  <2> QED BY <1>1, <1>b, <2>1, <2>3 DEF DirChange, fields
<1>2. CASE FirstDirection
  <2>1. plugin \in Callbacks /\ plugin.at = "compute"
    BY <1>2, <1>a DEF FirstDirection, Computing
  <2>2. /\ plugin'.at = "write" /\ plugin'.base = plugin.base /\ plugin'.gone = plugin.gone
        /\ plugin' # Idle
    BY <1>2, <1>b, <2>1 DEF FirstDirection, Write, Callbacks
  <2>3. CASE plugin.base # NoPicture
    <3>1. plugin.base \in Sizes
      BY <2>1 DEF Callbacks
    <3>2. last_scale_' \in Nat \ {0} /\ last_phone_' = plugin.base
      BY <1>2, <2>3, <3>1, FitIsPositive DEF FirstDirection
    <3>3. excuse' = IF plugin.gone THEN excuse \cup {"straddled"} ELSE {}
      BY <1>2, <2>3 DEF FirstDirection
    <3> QED BY <1>2, <1>b, <2>1, <2>2, <2>3, <3>2, <3>3 DEF FirstDirection
  <2>4. CASE plugin.base = NoPicture
    <3>1. "blind" \in excuse' /\ (plugin.gone => "straddled" \in excuse')
      BY <1>2, <2>4 DEF FirstDirection
    <3> QED BY <1>2, <1>b, <2>1, <2>2, <3>1 DEF FirstDirection
  <2> QED BY <2>3, <2>4
<1>3. CASE KeepItem
  <2>1. plugin \in Callbacks /\ plugin.at = "compute"
    BY <1>3, <1>a DEF KeepItem, Computing
  <2>2. /\ plugin'.at = "write" /\ plugin'.base = plugin.base /\ plugin'.gone = plugin.gone
        /\ plugin' # Idle
    BY <1>3, <1>b, <2>1 DEF KeepItem, Write, Callbacks
  <2>3. phone_source_init_ /\ ~plugin.gone
    BY <1>3, <2>1 DEF KeepItem, First
  <2>4. Trusted => excuse' # {}
    BY <1>3 DEF KeepItem, Untouched
  <2>5. excuse' \cap {"blind", "straddled"} = excuse \cap {"blind", "straddled"}
    BY <1>3 DEF KeepItem
  <2> QED BY <1>3, <1>b, <2>1, <2>2, <2>3, <2>4, <2>5 DEF KeepItem, fields
<1>4. CASE TurnItem
  <2>1. plugin \in Callbacks /\ plugin.at = "compute"
    BY <1>4, <1>a DEF TurnItem, Computing
  <2>2. /\ plugin'.at = "write" /\ plugin'.base = plugin.base /\ plugin'.gone = plugin.gone
        /\ plugin' # Idle
    BY <1>4, <1>b, <2>1 DEF TurnItem, Write, Callbacks
  <2>3. phone_source_init_ /\ ~plugin.gone
    BY <1>4, <2>1 DEF TurnItem, First
  <2>4. plugin.base \in Sizes /\ plugin.base = base
    BY <1>b, <2>1, <2>3 DEF Callbacks
  <2>5. Trusted => last_scale_' \in Nat \ {0}
    BY <1>4, <2>4, FitIsPositive DEF TurnItem
  <2> QED BY <1>4, <1>b, <2>1, <2>2, <2>3, <2>4, <2>5 DEF TurnItem
<1>5. CASE SetInfo
  <2>1. plugin \in Callbacks /\ plugin.at = "write"
    BY <1>5, <1>a DEF SetInfo
  <2>2. plugin.dir # "none"
    BY <2>1 DEF Callbacks, Dirs, Default
  <2> QED BY <1>5, <1>b, <2>1, <2>2 DEF SetInfo, fields
<1>6. CASE AddPhone
  BY <1>6 DEF AddPhone, fields
<1>7. ASSUME NEW new, Place(new) PROVE Sound'
  BY <1>7 DEF Place, fields
<1>8. CASE MoveItem \/ ResetItem \/ SetSceneItemFullScreen
  BY <1>7, <1>8 DEF MoveItem, ResetItem, SetSceneItemFullScreen
<1>9. CASE RemoveItem
  <2>1. plugin # Idle => plugin'.gone = TRUE /\ plugin' # Idle
    BY <1>9, <1>b DEF RemoveItem, Types, Callbacks
  <2>2. plugin = Idle => plugin' = Idle
    BY <1>9 DEF RemoveItem
  <2> QED BY <1>9, <2>1, <2>2 DEF RemoveItem
<1>10. CASE UNCHANGED vars
  BY <1>10 DEF vars, fields
<1> QED BY <1>1, <1>2, <1>3, <1>4, <1>5, <1>6, <1>8, <1>9, <1>10 DEF Next

-----------------------------------------------------------------------------
(* The first direction of a new item lays it out.                          *)
THEOREM NewIsNew == Spec => []NewItemIsNew
<1>1. Sound => NewItemIsNew
  BY DEF Sound, Forgotten, NewItemIsNew
<1> QED
  BY TypesInit, TypesStep, SoundInit, SoundStep, <1>1, PTL DEF Spec

(* A transform is computed by one of the three steps of the callback.      *)
LEMMA OnlyTheCallbackComputes ==
  ASSUME Types, Next, Computed
  PROVE  plugin \in Callbacks /\ (FirstDirection \/ KeepItem \/ TurnItem)
<1>1. plugin \in Callbacks /\ plugin.at = "compute" /\ plugin # Idle
  BY DEF Computed, Idle, Types
<1>2. plugin' # plugin
  BY DEF Computed
<1>3. ~SetInfo /\ \A dir \in Dirs : ~DirChange(dir)
  BY <1>1 DEF SetInfo, DirChange
<1>4. ~RemoveItem
  <2> SUFFICES ASSUME RemoveItem PROVE FALSE
    OBVIOUS
  <2>1. plugin'.at = "compute"
    BY <1>1 DEF RemoveItem, Callbacks
  <2> QED BY <2>1 DEF Computed
<1>5. ~AddPhone /\ ~ResetItem /\ ~MoveItem /\ ~SetSceneItemFullScreen
  BY <1>2 DEF AddPhone, ResetItem, MoveItem, SetSceneItemFullScreen, Place
<1> QED BY <1>1, <1>3, <1>4, <1>5 DEF Next

LEMMA TurnIsNotLost ==
  ASSUME Types, Sound, Computed, TurnItem, plugin \in Callbacks, plugin.read # Nowhere, Trusted
  PROVE  LET fit == Fit(plugin.dir, plugin.base) IN
         plugin'.new = Turned(fit) /\ plugin'.new # Nowhere
<1> DEFINE fit == Fit(plugin.dir, plugin.base)
<1>1. ~plugin.gone /\ plugin # Idle
  BY DEF Sound, Forgotten, Computed, Trusted, Idle
<1>2. plugin.base = base /\ base # NoPicture /\ last_scale_ \in Nat \ {0}
  BY <1>1 DEF Sound, Attached, Usable
<1>3. fit \in Nat \ {0}
  BY <1>2, FitIsPositive DEF Types
<1>4. fit \in Fits /\ plugin.read # Stretched
  BY <1>3 DEF Fits, TurnItem, Untouched
<1>5. TurnedOrLost(fit) # Nowhere /\ TurnedOrLost(fit) = Turned(fit)
  BY <1>2, <1>3, <1>4, TurnIsTransform
<1>6. plugin'.new = TurnedOrLost(fit)
  BY DEF TurnItem, Write, Callbacks
<1> QED BY <1>5, <1>6

(* A turn keeps the centre, wherever the item is.                          *)
THEOREM CentreIsKept == Spec => TurnKeepsCentre
<1> DEFINE Kept == Computed /\ ~First /\ excuse = {} /\ plugin.read.kind = "at" =>
      CentreOf(plugin'.new, plugin.base) = CentreOf(plugin.read, plugin.was)
<1>1. Types /\ Sound /\ [Next]_vars => [Kept]_vars
  <2> SUFFICES ASSUME Types, Sound, Next, Computed, ~First, excuse = {}, plugin.read.kind = "at"
               PROVE  CentreOf(plugin'.new, plugin.base) = CentreOf(plugin.read, plugin.was)
    OBVIOUS
  <2> DEFINE old == plugin.read
             fit == Fit(plugin.dir, plugin.base)
             scale == (old.scale * fit) \div last_scale_
  <2>1. plugin \in Callbacks /\ phone_source_init_ /\ Trusted
    BY OnlyTheCallbackComputes DEF First, Trusted
  <2>2. old # Nowhere /\ old # Stretched
        /\ old.scale \in Int /\ old.x \in Int /\ old.y \in Int
    BY <2>1, KindTellsPlaces DEF Callbacks
  <2>3. last_scale_ \in Nat \ {0}
    BY <2>1 DEF Sound, Usable
  <2>4. TurnItem
    BY <2>2, <2>3, OnlyTheCallbackComputes DEF FirstDirection, KeepItem, Untouched
  <2>5. plugin'.new = Turned(fit)
    BY <2>1, <2>2, <2>4, TurnIsNotLost
  <2>6. last_phone_ = plugin.was
    BY <2>1 DEF Sound, Remembered, Computed
  <2>7. ~plugin.gone /\ plugin # Idle
    BY <2>1 DEF Sound, Forgotten, Computed, Idle
  <2>8. plugin.base = base /\ base # NoPicture /\ base \in Sizes /\ plugin.was \in Sizes
    BY <2>1, <2>7 DEF Sound, Attached, Usable, Types, Callbacks
  <2>9. fit \in Nat \ {0}
    BY <2>8, FitIsPositive
  <2>10. scale \in Int
    <3>1. old.scale * fit \in Int
      BY <2>2, <2>9
    <3> QED BY <2>3, <3>1
  <2>11. ASSUME NEW i \in {1, 2}
         PROVE  HalfOf(plugin.was[i], old.scale) \in Int /\ HalfOf(plugin.base[i], scale) \in Int
    <3> HIDE DEF scale, old
    <3>1. plugin.was[i] \in Int /\ plugin.base[i] \in Int
      BY <2>8, SizesArePairs
    <3> QED BY <2>2, <2>10, <3>1, ProductIsInt
  <2>12. /\ plugin'.new.scale = scale
         /\ plugin'.new.x = old.x + HalfOf(plugin.was[1], old.scale) - HalfOf(plugin.base[1], scale)
         /\ plugin'.new.y = old.y + HalfOf(plugin.was[2], old.scale) - HalfOf(plugin.base[2], scale)
    BY <2>5, <2>6 DEF Turned, At
  <2>13. /\ plugin'.new.x + HalfOf(plugin.base[1], scale) = old.x + HalfOf(plugin.was[1], old.scale)
         /\ plugin'.new.y + HalfOf(plugin.base[2], scale) = old.y + HalfOf(plugin.was[2], old.scale)
    <3> HIDE DEF scale, old
    <3> QED BY <2>2, <2>11, <2>12
  <2> QED BY <2>12, <2>13 DEF CentreOf
<1> QED
  BY TypesInit, TypesStep, SoundInit, SoundStep, <1>1, PTL DEF Spec, TurnKeepsCentre

(* No turn loses the item while the fields can be trusted.                 *)
THEOREM TrustedTurnIsNotLost == Spec => LostNeedsExcuse
<1> DEFINE Kept == Computed /\ plugin.read # Nowhere /\ excuse \subseteq {"stretched"} =>
      plugin'.new # Nowhere
<1>1. Types /\ Sound /\ [Next]_vars => [Kept]_vars
  <2> SUFFICES ASSUME Types, Sound, Next, Computed, plugin.read # Nowhere,
                      excuse \subseteq {"stretched"}
               PROVE  plugin'.new # Nowhere
    OBVIOUS
  <2>1. plugin \in Callbacks /\ plugin.base \in Sizes /\ plugin.at = "compute"
    BY OnlyTheCallbackComputes DEF Callbacks, Computed
  <2>2. CASE FirstDirection
    <3>1. Layout(plugin.dir, plugin.base, plugin.read) # Nowhere
      BY <2>1, LayoutIsTransform
    <3> QED BY <2>1, <2>2, <3>1 DEF FirstDirection, Write, Callbacks
  <2>3. CASE KeepItem
    BY <2>1, <2>3 DEF KeepItem, Write, Callbacks
  <2>4. CASE TurnItem
    <3>1. Trusted
      BY <2>4 DEF TurnItem, First, Trusted
    <3> QED BY <2>1, <2>4, <3>1, TurnIsNotLost
  <2> QED BY <2>2, <2>3, <2>4, OnlyTheCallbackComputes
<1> QED
  BY TypesInit, TypesStep, SoundInit, SoundStep, <1>1, PTL DEF Spec, LostNeedsExcuse

(* Both: a turn that can be trusted keeps the item.                        *)
THEOREM TurnsKeepTheItem == Spec => TurnKeepsItem
BY CentreIsKept, TrustedTurnIsNotLost DEF TurnKeepsItem

-----------------------------------------------------------------------------
(* The turns of an item that nobody else places.  Fitted follows a layout  *)
(* through the callback: the item stands where the last direction puts a   *)
(* picture of its size, the callback writes where the new one puts it, and *)
(* last_scale_ is the fit of the picture the item stands for.              *)
Stands(t, dir, size) ==
  t = Layout(dir, size, t) /\ (phone_source_init_ => last_scale_ = Fit(dir, size))

Fitted ==
  excuse = {} /\ present =>
    /\ plugin = Idle /\ laidOut => Stands(info, heard, base)
    /\ plugin.at = "compute" /\ ~plugin.gone /\ laidOut =>
         plugin.read = info /\ Stands(info, heard, plugin.was)
    /\ plugin.at = "write" /\ ~plugin.gone /\ (laidOut \/ plugin.layout) =>
         Stands(plugin.new, plugin.dir, plugin.base)
    /\ plugin # Idle /\ plugin.gone => ~laidOut

(* An item that is laid out stands where its layout puts it.               *)
LEMMA LayoutIsStable ==
  \A dir, size, old : Layout(dir, size, Layout(dir, size, old)) = Layout(dir, size, old)
<1>1. \A scale, size : Centred(scale, size) # Stretched
  <2>1. \A scale, size : Centred(scale, size).kind = "at"
    BY DEF Centred, At
  <2>2. Stretched.kind = "stretched"
    BY DEF Stretched
  <2> QED BY <2>1, <2>2
<1> QED BY <1>1 DEF Layout

LEMMA QuotientOfProduct ==
  ASSUME NEW a \in Nat \ {0}, NEW b \in Nat
  PROVE  (a * b) \div a = b
OBVIOUS

(* The fit of the turn replaces the fit the item had, and the centre is    *)
(* that of the canvas already.                                             *)
LEMMA TurnFits ==
  ASSUME Types, Sound, Fitted, TurnItem, laidOut, excuse = {}, present
  PROVE  plugin'.new = Layout(plugin.dir, plugin.base, plugin'.new)
<1> DEFINE fit == Fit(plugin.dir, plugin.base)
           old == plugin.read
<1>1. plugin \in Callbacks /\ plugin.at = "compute" /\ Computed /\ Trusted
  BY DEF TurnItem, Computing, First, Write, Types, Idle, Callbacks, Computed, Trusted
<1>2. ~plugin.gone /\ plugin # Idle
  BY <1>1 DEF Sound, Forgotten, Trusted, Idle
<1>3. /\ last_phone_ = plugin.was /\ last_scale_ \in Nat \ {0}
      /\ plugin.base \in Sizes \ {NoPicture} /\ plugin.was \in Sizes
  BY <1>1, <1>2 DEF Sound, Remembered, Usable, Attached, Callbacks
<1>4. fit \in Nat \ {0}
  BY <1>3, FitIsPositive
<1>5. old = Centred(last_scale_, plugin.was)
  <2>1. old = info /\ Stands(info, heard, plugin.was) /\ phone_source_init_
    BY <1>1, <1>2 DEF Fitted, Trusted
  <2>2. info # Stretched
    BY <2>1 DEF TurnItem, Untouched
  <2> QED BY <2>1, <2>2 DEF Stands, Layout
<1>6. old.scale = last_scale_ /\ old # Nowhere
      /\ old.x = 2 * CanvasCX - HalfOf(plugin.was[1], last_scale_)
      /\ old.y = 2 * CanvasCY - HalfOf(plugin.was[2], last_scale_)
  <2>1. old.kind = "at" /\ Nowhere.kind = "nowhere"
    BY <1>5 DEF Centred, At, Nowhere
  <2> QED BY <1>5, <2>1 DEF Centred, At
<1>7. plugin'.new = Turned(fit)
  BY <1>1, <1>6, TurnIsNotLost
<1>8. (old.scale * fit) \div last_scale_ = fit
  BY <1>3, <1>4, <1>6, QuotientOfProduct
<1>9. plugin'.new = Centred(fit, plugin.base)
  <2> DEFINE was(i) == HalfOf(plugin.was[i], last_scale_)
             new(i) == HalfOf(plugin.base[i], fit)
  <2>1. \A i \in {1, 2} : was(i) \in Int /\ new(i) \in Int
    <3>1. \A i \in {1, 2} : plugin.was[i] \in Int /\ plugin.base[i] \in Int
      BY <1>3, SizesArePairs
    <3>2. last_scale_ \in Int /\ fit \in Int
      BY <1>3, <1>4
    <3> QED BY <3>1, <3>2, ProductIsInt
  <2>2. Turned(fit) = At(fit, 2 * CanvasCX - was(1) + was(1) - new(1),
                              2 * CanvasCY - was(2) + was(2) - new(2))
    BY <1>3, <1>6, <1>8 DEF Turned
  <2> HIDE DEF was, new
  <2>3. /\ 2 * CanvasCX - was(1) + was(1) - new(1) = 2 * CanvasCX - new(1)
        /\ 2 * CanvasCY - was(2) + was(2) - new(2) = 2 * CanvasCY - new(2)
    BY <2>1, Lengths
  <2> QED BY <1>7, <2>2, <2>3 DEF Centred, new
<1>10. plugin'.new # Stretched
  <2>1. plugin'.new.kind = "at" /\ Stretched.kind = "stretched"
    BY <1>9 DEF Centred, At, Stretched
  <2> QED BY <2>1
<1> QED BY <1>9, <1>10 DEF Layout

LEMMA FittedStep == Types /\ Sound /\ Fitted /\ [Next]_vars => Fitted'
<1> SUFFICES ASSUME Types, Sound, Fitted, [Next]_vars PROVE Fitted'
  OBVIOUS
<1> USE DEF Fitted, Stands
<1>a. plugin.at \in {"compute", "write"} => plugin \in Callbacks
  BY DEF Idle, Types
<1>b. Idle.at = "idle" /\ \A c \in Callbacks : c # Idle
  BY DEF Idle, Callbacks
<1>1. ASSUME NEW dir \in Dirs, DirChange(dir) PROVE Fitted'
  <2>1. /\ plugin'.at = "compute" /\ plugin'.was = base /\ plugin'.read = info
        /\ plugin'.gone = FALSE /\ plugin' # Idle
    BY <1>1, <1>b DEF DirChange
  <2> QED BY <1>1, <1>b, <2>1 DEF DirChange, fields
<1>2. CASE FirstDirection
  <2>1. plugin \in Callbacks /\ plugin.at = "compute" /\ plugin # Idle
    BY <1>2, <1>a, <1>b DEF FirstDirection, Computing
  <2>2. /\ plugin'.at = "write" /\ plugin'.gone = plugin.gone /\ plugin'.dir = plugin.dir
        /\ plugin'.base = plugin.base /\ plugin' # Idle
    BY <1>2, <1>b, <2>1 DEF FirstDirection, Write, Callbacks
  <2>3. CASE plugin.base # NoPicture /\ ~plugin.gone
    <3>1. plugin'.new = Layout(plugin.dir, plugin.base, plugin.read)
          /\ last_scale_' = Fit(plugin.dir, plugin.base)
      BY <1>2, <2>1, <2>3 DEF FirstDirection, Write, Callbacks
    <3>2. plugin'.new = Layout(plugin.dir, plugin.base, plugin'.new)
      BY <3>1, LayoutIsStable
    <3> QED BY <2>2, <2>3, <3>1, <3>2
  <2>4. CASE plugin.base = NoPicture \/ plugin.gone
    <3>1. excuse' # {}
      BY <1>2, <2>4 DEF FirstDirection
    <3> QED BY <3>1
  <2> QED BY <2>3, <2>4
<1>3. CASE KeepItem
  <2>1. plugin \in Callbacks /\ plugin.at = "compute"
    BY <1>3, <1>a DEF KeepItem, Computing
  <2>2. excuse' # {}
    <3>1. CASE plugin.read = Stretched
      BY <1>3, <3>1 DEF KeepItem
    <3>2. CASE plugin.read # Stretched
      <4>1. last_scale_ = 0 /\ phone_source_init_
        BY <1>3, <3>2 DEF KeepItem, Untouched, First
      <4>2. excuse # {}
        BY <4>1 DEF Sound, Usable, Trusted
      <4> QED BY <1>3, <4>2 DEF KeepItem
    <3> QED BY <3>1, <3>2
  <2> QED BY <2>2
<1>4. CASE TurnItem
  <2>1. plugin \in Callbacks /\ plugin.at = "compute" /\ plugin # Idle /\ excuse' = excuse
    BY <1>4, <1>a, <1>b DEF TurnItem, Computing
  <2>2. /\ plugin'.at = "write" /\ plugin'.gone = plugin.gone /\ plugin'.dir = plugin.dir
        /\ plugin'.base = plugin.base /\ plugin' # Idle /\ plugin'.layout = FALSE
    BY <1>4, <1>b, <2>1 DEF TurnItem, Write, Callbacks
  <2>3. last_scale_' = Fit(plugin.dir, plugin.base) /\ laidOut' = laidOut /\ present' = present
    BY <1>4 DEF TurnItem
  <2>4. laidOut /\ present /\ excuse = {} => plugin'.new = Layout(plugin.dir, plugin.base, plugin'.new)
    BY <1>4, TurnFits
  <2> QED BY <2>1, <2>2, <2>3, <2>4
<1>5. CASE SetInfo
  <2>1. plugin \in Callbacks /\ plugin.at = "write" /\ plugin # Idle /\ plugin' = Idle
    BY <1>5, <1>a, <1>b DEF SetInfo
  <2>2. CASE plugin.gone
    BY <1>5, <1>b, <2>1, <2>2 DEF SetInfo, fields
  <2>3. CASE ~plugin.gone
    <3>1. base' = plugin.base
      BY <1>5, <2>1, <2>3 DEF SetInfo, Sound, Attached
    <3>2. info' = plugin.new /\ heard' = plugin.dir /\ laidOut' = (laidOut \/ plugin.layout)
      BY <1>5, <2>3 DEF SetInfo
    <3> QED BY <1>5, <1>b, <2>1, <2>3, <3>1, <3>2 DEF SetInfo, fields
  <2> QED BY <2>2, <2>3
<1>6. CASE AddPhone
  <2>1. plugin # Idle => plugin.gone
    BY <1>6, <1>a DEF AddPhone, Sound, Attached
  <2>2. plugin \in Callbacks \/ plugin.at = "idle"
    BY <1>b DEF Types
  <2> QED BY <1>6, <1>b, <2>1, <2>2 DEF AddPhone, fields
<1>7. ASSUME NEW new, Place(new) PROVE Fitted'
  <2>1. plugin.at = "write" /\ ~plugin.gone /\ plugin.layout /\ excuse = {} /\ present =>
          Stands(plugin.new, plugin.dir, plugin.base)'
    BY <1>7 DEF Place, fields
  <2> QED BY <1>7, <2>1 DEF Place, fields
<1>8. CASE MoveItem \/ ResetItem \/ SetSceneItemFullScreen
  BY <1>7, <1>8 DEF MoveItem, ResetItem, SetSceneItemFullScreen
<1>9. CASE RemoveItem
  BY <1>9 DEF RemoveItem
<1>10. CASE UNCHANGED vars
  BY <1>10 DEF vars, fields
<1> QED BY <1>1, <1>2, <1>3, <1>4, <1>5, <1>6, <1>8, <1>9, <1>10 DEF Next

(* However often the phone is turned, an item that was laid out and that   *)
(* nobody else placed stands where a layout for its direction puts it.     *)
THEOREM TurnsAddNoError == Spec => []FitsCanvas
<1>1. Init => Fitted
  BY DEF Init, Fitted
<1>2. Fitted => FitsCanvas
  BY DEF Fitted, FitsCanvas, Stands
<1> QED
  BY TypesInit, TypesStep, SoundInit, SoundStep, FittedStep, <1>1, <1>2, PTL DEF Spec

-----------------------------------------------------------------------------
(* The preview window.  What is under the mouse is an item of the scene:   *)
(* the topmost and the lowest of a finite set of items are among them.     *)
LEMMA MaxAndMinAreThere ==
  ASSUME NEW S \in SUBSET Int, IsFiniteSet(S), S # {}
  PROVE  Max(S) \in S /\ Min(S) \in S
<1> DEFINE HasMax(T) == \E x \in T : \A y \in T : x >= y
           HasMin(T) == \E x \in T : \A y \in T : x =< y
           Bad == {T \in SUBSET S : T # {} /\ ~(HasMax(T) /\ HasMin(T))}
<1>1. IsWellFoundedOn(StrictSubsetOrdering(S), SUBSET S)
  BY FS_StrictSubsetOrderingWellFounded, FS_FiniteSubsetsOfFinite
<1>2. Bad = {}
  <2> SUFFICES ASSUME Bad # {} PROVE FALSE
    OBVIOUS
  <2>1. PICK T \in Bad : \A U \in Bad : ~(<<U, T>> \in StrictSubsetOrdering(S))
    <3> Bad \subseteq SUBSET S
      OBVIOUS
    <3> HIDE DEF Bad
    <3> QED BY <1>1, WFMin
  <2>2. PICK x \in T : TRUE
    OBVIOUS
  <2> DEFINE U == T \ {x}
  <2>3. T \subseteq S /\ x \in Int /\ U \subseteq Int /\ U \in SUBSET S /\ U # T
    BY <2>2
  <2>4. <<U, T>> \in StrictSubsetOrdering(S)
    BY <2>3 DEF StrictSubsetOrdering
  <2>5. U = {} \/ (HasMax(U) /\ HasMin(U))
    BY <2>1, <2>3, <2>4
  <2>6. HasMax(T) /\ HasMin(T)
    <3>1. CASE U = {}
      <4>1. T = {x}
        BY <2>2, <3>1
      <4> QED BY <2>3, <4>1
    <3>2. CASE HasMax(U) /\ HasMin(U)
      <4>1. PICK m \in U : \A y \in U : m >= y
        BY <3>2
      <4>2. PICK n \in U : \A y \in U : n =< y
        BY <3>2
      <4>3. m \in Int /\ n \in Int /\ \A y \in T : y \in Int /\ (y = x \/ y \in U)
        BY <2>3
      <4>4. HasMax(T)
        <5>1. CASE m >= x
          BY <4>1, <4>3, <5>1
        <5>2. CASE ~(m >= x)
          <6>1. \A y \in T : x >= y
            BY <2>3, <4>1, <4>3, <5>2
          <6> QED BY <2>2, <6>1
        <5> QED BY <5>1, <5>2
      <4>5. HasMin(T)
        <5>1. CASE n =< x
          BY <4>2, <4>3, <5>1
        <5>2. CASE ~(n =< x)
          <6>1. \A y \in T : x =< y
            BY <2>3, <4>2, <4>3, <5>2
          <6> QED BY <2>2, <6>1
        <5> QED BY <5>1, <5>2
      <4> QED BY <4>4, <4>5
    <3> QED BY <2>5, <3>1, <3>2
  <2> QED BY <2>1, <2>6
<1>3. HasMax(S) /\ HasMin(S)
  BY <1>2
<1> QED BY <1>3 DEF Max, Min

LEMMA ItemSets ==
  /\ None \notin Items
  /\ \A S \in SUBSET Items : S # {} => Max(S) \in S /\ Min(S) \in S
<1>1. ASSUME NEW S \in SUBSET Items, S # {} PROVE Max(S) \in S /\ Min(S) \in S
  <2>1. IsFiniteSet(S)
    BY ItemsAssumption, FS_Subset, Zenon
  <2>2. S \in SUBSET Int
    BY ItemsAssumption
  <2> QED BY <1>1, <2>1, <2>2, MaxAndMinAreThere
<1>2. Items \subseteq Int
  BY ItemsAssumption
<1>3. None \notin Items
  BY <1>2, NoneAssumption, Zenon
<1> QED BY <1>1, <1>3

Hits(p) == {i \in scene \ locked : Covers(i, p)}

LEMMA HitsAreItems ==
  ASSUME scene \subseteq Items, NEW p, NEW button, NEW sel
  PROVE  GetItemAtPos(p, button, sel) \in IF Hits(p) = {} THEN {None} ELSE Hits(p)
<1> DEFINE hits == Hits(p)
           chosen == hits \cap sel
           below == {i \in hits : \A j \in chosen : i < j}
<1>1. GetItemAtPos(p, button, sel) =
        IF hits = {} THEN None
        ELSE IF chosen = {} THEN Max(hits)
        ELSE IF button = "right" THEN Min(chosen)
        ELSE IF below = {} THEN Max(hits) ELSE Max(below)
  BY DEF GetItemAtPos, Hits
<1>2. hits \in SUBSET Items /\ chosen \subseteq hits /\ below \subseteq hits
  BY DEF Hits
<1> HIDE DEF hits, chosen, below
<1>3. /\ hits # {} => Max(hits) \in hits
      /\ chosen # {} => Min(chosen) \in hits
      /\ below # {} => Max(below) \in hits
  BY <1>2, ItemSets
<1> QED BY <1>1, <1>3 DEF hits

(* A click selects what it hits and nothing else.                          *)
LEMMA ClicksSelectHits ==
  ASSUME scene \subseteq Items, NEW p, NEW button
  PROVE  \/ ProcessClick(p, button) = {} /\ Hits(p) = {}
         \/ \E i \in Hits(p) : ProcessClick(p, button) = {i}
         \/ ProcessClick(p, button) = selected /\ button = "right" /\ selected \cap Hits(p) # {}
<1>1. None \notin Hits(p)
  BY ItemSets DEF Hits
<1> QED BY <1>1, HitsAreItems DEF ProcessClick

Near == (-Width - SnapDist) .. (Width + SnapDist)
Stretches == [item : Items \cup {None}, handle : {"left", "right", "none"}, left : Int, right : Int]

ItemTypes ==
  /\ scene \subseteq Items /\ locked \subseteq Items /\ selected \subseteq Items
  /\ left \in [Items -> Int] /\ right \in [Items -> Int]
  /\ grabbed \in [Items -> Int] /\ touched \subseteq Items
GestureTypes ==
  /\ ptr \in Points /\ held \subseteq Buttons /\ startPos \in Points
  /\ mouseDown \in BOOLEAN /\ mouseMoved \in BOOLEAN
  /\ mouseOverItems \in BOOLEAN /\ selectionBox \in BOOLEAN
  /\ mouse_btn_type_ \in Buttons \cup {"none"}
  /\ lastMoveOffset \in Near
  /\ stretch \in Stretches
  /\ hoveredPreviewItem \in Items \cup {None} /\ pool \in Items \cup {None}
  /\ disturbed \in BOOLEAN /\ unseen \in BOOLEAN /\ crossed \in BOOLEAN
MouseTypes == ItemTypes /\ GestureTypes

LEMMA Bounds == Width \in Nat /\ Size \in Nat /\ SnapDist \in Nat \ {0} /\ Size <= Width
BY WidthAssumption

LEMMA PointsAreInts == Points \subseteq Int /\ \A p \in Points : 0 <= p /\ p <= Width
BY Bounds DEF Points

LEMMA HitIsItem ==
  ASSUME MouseTypes, NEW p, NEW button, NEW sel
  PROVE  /\ GetItemAtPos(p, button, sel) \in Items \cup {None}
         /\ GetItemAtPos(p, button, sel) \in scene \cup {None}
<1>1. Hits(p) \subseteq scene /\ scene \subseteq Items
  BY DEF Hits, MouseTypes, ItemTypes
<1> QED BY <1>1, HitsAreItems

LEMMA ClickTypes ==
  ASSUME MouseTypes, NEW p, NEW button
  PROVE  ProcessClick(p, button) \subseteq Items
<1>1. Hits(p) \subseteq Items /\ selected \subseteq Items /\ scene \subseteq Items
  BY DEF Hits, MouseTypes, ItemTypes
<1> QED BY <1>1, ClicksSelectHits

LEMMA HandleTypes ==
  ASSUME MouseTypes, NEW p
  PROVE  GetStretchHandleData(p) \in Stretches
<1> DEFINE near == {i \in scene \cap selected : p \in {left[i], right[i]}}
           i == Max(near)
<1>1. NoStretch \in Stretches
  BY DEF NoStretch, Stretches
<1>2. CASE near = {}
  BY <1>1, <1>2 DEF GetStretchHandleData
<1>3. CASE near # {}
  <2>1. near \in SUBSET Items
    BY DEF MouseTypes, ItemTypes
  <2>2. i \in Items
    <3> HIDE DEF near
    <3> QED BY <1>3, <2>1, ItemSets
  <2>3. left[i] \in Int /\ right[i] \in Int
    BY <2>2 DEF MouseTypes, ItemTypes
  <2>4. GetStretchHandleData(p) = [item |-> i, handle |-> IF p = left[i] THEN "left" ELSE "right",
                                   left |-> left[i], right |-> right[i]]
    BY <1>3 DEF GetStretchHandleData
  <2> HIDE DEF i
  <2> QED BY <2>2, <2>3, <2>4 DEF Stretches
<1> QED BY <1>2, <1>3

(* A snap is shorter than the distance at which things snap.               *)
Snaps == (1 - SnapDist) .. (SnapDist - 1)

LEMMA SnapIsShort == \A tl, br \in Int : GetSnapOffset(tl, br) \in Snaps
<1> SUFFICES ASSUME NEW tl \in Int, NEW br \in Int PROVE GetSnapOffset(tl, br) \in Snaps
  OBVIOUS
<1>1. \A x \in Int : Abs(x) < SnapDist => x \in Snaps /\ -x \in Snaps
  BY Bounds DEF Abs, Snaps
<1>2. 0 \in Snaps /\ Width - br \in Int /\ -tl \in Int
  BY Bounds DEF Snaps
<1> QED BY <1>1, <1>2 DEF GetSnapOffset

LEMMA SnapTypes ==
  ASSUME MouseTypes, NEW offset \in Int
  PROVE  SnapItemMovement(offset) \subseteq Snaps
<1> DEFINE sel == scene \cap Chosen
           tl == Min({left[i] : i \in sel})
           br == Max({right[i] : i \in sel})
<1>1. CASE sel = {}
  BY <1>1 DEF SnapItemMovement, Snaps
<1>2. CASE sel # {}
  <2>1. sel \subseteq Items /\ IsFiniteSet(sel)
    <3>1. sel \subseteq Items
      BY DEF MouseTypes, ItemTypes
    <3> QED BY <3>1, ItemsAssumption, FS_Subset, Zenon
  <2>2. IsFiniteSet({left[i] : i \in sel}) /\ IsFiniteSet({right[i] : i \in sel})
    <3>1. ASSUME NEW edge \in [Items -> Int] PROVE IsFiniteSet({edge[i] : i \in sel})
      <4>1. [i \in sel |-> edge[i]] \in Surjection(sel, {edge[i] : i \in sel})
        BY DEF Surjection
      <4> QED BY <2>1, <4>1, FS_Surjection
    <3> QED BY <3>1 DEF MouseTypes, ItemTypes
  <2>3. /\ {left[i] : i \in sel} \in SUBSET Int /\ {right[i] : i \in sel} \in SUBSET Int
        /\ {left[i] : i \in sel} # {} /\ {right[i] : i \in sel} # {}
    <3> HIDE DEF sel
    <3> QED BY <1>2, <2>1 DEF MouseTypes, ItemTypes
  <2>4. tl \in Int /\ br \in Int
    <3> HIDE DEF sel
    <3>1. tl \in {left[i] : i \in sel} /\ br \in {right[i] : i \in sel}
      BY <2>2, <2>3, MaxAndMinAreThere
    <3> QED BY <2>3, <3>1
  <2>5. SnapItemMovement(offset) = {GetSnapOffset(tl + offset, br + offset)}
    BY <1>2 DEF SnapItemMovement
  <2> HIDE DEF tl, br
  <2> QED BY <2>4, <2>5, SnapIsShort
<1> QED BY <1>1, <1>2

LEMMA MouseTypesInit == PreviewInit => MouseTypes
<1> SUFFICES ASSUME PreviewInit PROVE MouseTypes
  OBVIOUS
<1>1. left \in [Items -> Int]
  BY Bounds DEF PreviewInit
<1>2. right \in [Items -> Int]
  BY <1>1, Bounds DEF PreviewInit
<1>3. ItemTypes
  BY <1>1, <1>2 DEF PreviewInit, ItemTypes
<1>4. stretch \in Stretches /\ lastMoveOffset \in Near /\ ptr \in Points /\ startPos \in Points
  BY Bounds DEF PreviewInit, NoStretch, Stretches, Near, Points
<1> QED BY <1>3, <1>4 DEF PreviewInit, MouseTypes, GestureTypes

(* What a drag moves the items by, over a gesture and in one message.      *)
LEMMA MoveTypes ==
  ASSUME MouseTypes, NEW p \in Points, NEW snap \in Snaps
  PROVE  LET offset == p - startPos - lastMoveOffset
         IN  /\ offset \in Int /\ snap \in Int /\ offset + snap \in Int
             /\ Moved(offset, snap) = p - startPos + snap
             /\ Moved(offset, snap) \in Near
<1>1. /\ p \in Int /\ 0 <= p /\ p <= Width /\ startPos \in Int /\ 0 <= startPos /\ startPos <= Width
      /\ lastMoveOffset \in Int
  BY PointsAreInts, Bounds DEF MouseTypes, GestureTypes, Near
<1>2. snap \in Int /\ -SnapDist <= snap /\ snap <= SnapDist
  BY Bounds DEF Snaps
<1> QED BY <1>1, <1>2, Bounds DEF Moved, Near

LEMMA PressTypes ==
  ASSUME MouseTypes, NEW b \in Buttons, Press(b)
  PROVE  MouseTypes'
<1>1. GetStretchHandleData(ptr) \in Stretches /\ ProcessClick(ptr, "right") \subseteq Items
  BY HandleTypes, ClickTypes
<1>2. 0 \in Near /\ SelectedAtPos(ptr, selected) \in BOOLEAN /\ (b = "left") \in BOOLEAN
  BY Bounds DEF Near, SelectedAtPos
<1>3. ItemTypes'
  BY <1>1 DEF Press, MousePress, MouseTypes, ItemTypes
<1>4. mouseDown' \in BOOLEAN /\ mouseOverItems' \in BOOLEAN /\ disturbed' \in BOOLEAN
  BY <1>2, Zenon DEF Press, MousePress, MouseTypes, GestureTypes
<1>5. held' \subseteq Buttons /\ mouse_btn_type_' \in Buttons \cup {"none"}
  BY DEF Press, MousePress, MouseTypes, GestureTypes
<1>6. stretch' \in Stretches /\ startPos' \in Points /\ lastMoveOffset' \in Near
  BY <1>1, <1>2 DEF Press, MousePress, MouseTypes, GestureTypes
<1> QED BY <1>3, <1>4, <1>5, <1>6 DEF Press, MouseTypes, GestureTypes

LEMMA ReleaseTypes ==
  ASSUME MouseTypes, NEW b \in Buttons, Release(b)
  PROVE  MouseTypes'
<1>1. held' \subseteq Buttons /\ disturbed' \in BOOLEAN /\ crossed' \in BOOLEAN
  <2>1. held' \subseteq Buttons
    BY DEF Release, MouseTypes, GestureTypes
  <2>2. disturbed' \in BOOLEAN /\ crossed' \in BOOLEAN
    BY Zenon DEF Release, MouseTypes, GestureTypes
  <2> QED BY <2>1, <2>2
<1>2. CASE mouseDown
  <2> DEFINE clicked == IF mouseMoved THEN selected ELSE ProcessClick(ptr, mouse_btn_type_)
             boxed == IF selectionBox /\ hoveredPreviewItem # None
                        THEN {hoveredPreviewItem} ELSE {}
  <2>1. clicked \subseteq Items /\ boxed \subseteq Items
    BY ClickTypes DEF MouseTypes, ItemTypes, GestureTypes
  <2>2. selected' = clicked \cup boxed
        /\ hoveredPreviewItem' = GetItemAtPos(ptr, "none", selected')
    BY <1>2 DEF Release, MouseRelease
  <2>3. selected' \subseteq Items /\ hoveredPreviewItem' \in Items \cup {None}
    BY <2>1, <2>2, HitIsItem
  <2>4. stretch' \in Stretches
    BY <1>2 DEF Release, MouseRelease, Forget, MouseTypes, GestureTypes, Stretches
  <2> QED BY <1>1, <1>2, <2>3, <2>4 DEF Release, MouseRelease, Forget, MouseTypes,
     ItemTypes, GestureTypes
<1>3. CASE ~mouseDown
  BY <1>1, <1>3 DEF Release, MouseRelease, MouseTypes, ItemTypes, GestureTypes, bounds
<1> QED BY <1>2, <1>3

LEMMA LeaveTypes ==
  ASSUME MouseTypes, MouseLeave \/ \E b \in Buttons : LoseRelease(b)
  PROVE  MouseTypes'
<1>1. CASE MouseLeave
  BY <1>1 DEF MouseLeave, items, bounds, MouseTypes, ItemTypes, GestureTypes
<1>2. CASE \E b \in Buttons : LoseRelease(b)
  BY <1>2 DEF LoseRelease, items, bounds, gesture, MouseTypes, ItemTypes, GestureTypes
<1> QED BY <1>1, <1>2

LEMMA HoverTypes ==
  ASSUME MouseTypes, NEW p \in Points, MouseMove(p), Hover(p)
  PROVE  MouseTypes'
<1>1. GetStretchHandleData(p) \in Stretches /\ FindHovered(p) \in Items \cup {None}
  BY HandleTypes, HitIsItem DEF FindHovered
<1>2. stretch' \in Stretches /\ startPos' \in Points
  BY <1>1 DEF Hover, MouseTypes, GestureTypes
<1> QED BY <1>1, <1>2 DEF Hover, MouseMove, items, bounds, MouseTypes, ItemTypes, GestureTypes

(* What a drag selects, and whether it is a drag of items.                 *)
LEMMA DragChooses ==
  ASSUME MouseTypes
  PROVE  /\ Chosen \subseteq Items /\ Over \in BOOLEAN
         /\ ProcessClick(startPos, "none") \subseteq Items
<1>1. ProcessClick(startPos, mouse_btn_type_) \subseteq Items /\ ProcessClick(startPos, "none") \subseteq Items
  BY ClickTypes
<1>2. SelectedAtPos(startPos, Chosen) \in BOOLEAN
  BY Zenon DEF SelectedAtPos
<1> QED BY <1>1, <1>2 DEF Chosen, Over, MouseTypes, ItemTypes, GestureTypes

LEMMA DragTypes ==
  ASSUME MouseTypes, NEW p \in Points, MouseMove(p), Drag(p)
  PROVE  MouseTypes'
<1>p. p \in Int /\ mouseDown' \in BOOLEAN /\ Over \in BOOLEAN
  BY PointsAreInts, DragChooses DEF Drag, MouseTypes, GestureTypes
<1> DEFINE Changed ==
      /\ selected' \subseteq Items /\ lastMoveOffset' \in Near /\ selectionBox' \in BOOLEAN
      /\ left' \in [Items -> Int] /\ right' \in [Items -> Int]
<1>1. ASSUME StretchItem(p) PROVE Changed
  <2> DEFINE tl == IF stretch.handle = "left" THEN p ELSE stretch.left
             br == IF stretch.handle = "left" THEN stretch.right ELSE p
             o == GetSnapOffset(tl, br)
             l == IF stretch.handle = "left" THEN p + o ELSE tl
             r == IF stretch.handle = "left" THEN br ELSE p + o
  <2>1. tl \in Int /\ br \in Int
    BY <1>p DEF MouseTypes, GestureTypes, Stretches
  <2>2. o \in Int
    <3> HIDE DEF tl, br
    <3> QED BY <2>1, SnapIsShort, Bounds DEF Snaps
  <2>3. l \in Int /\ r \in Int
    <3> HIDE DEF o
    <3> QED BY <1>p, <2>1, <2>2
  <2>4. left' = [left EXCEPT ![stretch.item] = l] /\ right' = [right EXCEPT ![stretch.item] = r]
    BY <1>1 DEF StretchItem
  <2>5. left' \in [Items -> Int] /\ right' \in [Items -> Int]
    <3> HIDE DEF l, r
    <3> QED BY <2>3, <2>4 DEF MouseTypes, ItemTypes
  <2> QED BY <1>1, <2>5 DEF StretchItem, MouseTypes, ItemTypes, GestureTypes
<1>2. ASSUME MoveItems(p) PROVE Changed
  <2> DEFINE offset == p - startPos - lastMoveOffset
  <2>1. PICK snap \in SnapItemMovement(offset) :
          /\ lastMoveOffset' = Moved(offset, snap)
          /\ left' = [i \in Items |-> left[i] + IF i \in Movable THEN offset + snap ELSE 0]
          /\ right' = [i \in Items |-> right[i] + IF i \in Movable THEN offset + snap ELSE 0]
    BY <1>2 DEF MoveItems
  <2>2. offset \in Int
    BY <1>p, PointsAreInts, Bounds DEF MouseTypes, GestureTypes, Near
  <2>3. snap \in Snaps
    <3> HIDE DEF offset
    <3> QED BY <2>2, SnapTypes
  <2>4. offset + snap \in Int /\ Moved(offset, snap) \in Near
    BY <2>3, MoveTypes
  <2>5. left' \in [Items -> Int] /\ right' \in [Items -> Int]
    <3> DEFINE by == offset + snap
    <3>1. by \in Int /\ left' = [i \in Items |-> left[i] + IF i \in Movable THEN by ELSE 0]
          /\ right' = [i \in Items |-> right[i] + IF i \in Movable THEN by ELSE 0]
      BY <2>1, <2>4
    <3> HIDE DEF by
    <3> QED BY <3>1 DEF MouseTypes, ItemTypes
  <2> QED BY <1>2, <2>1, <2>4, <2>5, DragChooses DEF MoveItems
<1>3. ASSUME SelectionBox PROVE Changed
  <2>1. selected' \subseteq Items
    BY <1>3, DragChooses DEF SelectionBox, MouseTypes, ItemTypes
  <2> QED BY <1>3, <2>1 DEF SelectionBox, MouseTypes, ItemTypes, GestureTypes
<1>4. Changed
  BY <1>1, <1>2, <1>3 DEF Drag
<1>5. mouseMoved' \in BOOLEAN /\ mouseOverItems' \in BOOLEAN
  BY <1>p, Zenon DEF Drag
<1> QED BY <1>4, <1>5 DEF Drag, MouseMove, bounds, MouseTypes, ItemTypes, GestureTypes

LEMMA HostTypes ==
  ASSUME MouseTypes, Host
  PROVE  MouseTypes'
<1> USE DEF MouseTypes, ItemTypes, GestureTypes
<1>1. ASSUME NEW i \in Items, Remove(i) PROVE MouseTypes'
  <2>1. unseen' \in BOOLEAN
    BY <1>1, Zenon DEF Remove
  <2> QED BY <1>1, <2>1 DEF Remove, Request, gesture
<1>2. ASSUME NEW i \in Items, SetLocked(i) PROVE MouseTypes'
  BY <1>2 DEF SetLocked, Request, gesture
<1>3. ASSUME NEW i \in Items, Reset(i) PROVE MouseTypes'
  BY <1>3, Bounds DEF Reset, Request, gesture
<1>4. ASSUME NEW i \in Items, Unselect(i) PROVE MouseTypes'
  BY <1>4 DEF Unselect, Request, gesture
<1>5. CASE Select
  <2>1. crossed' \in BOOLEAN
    BY <1>5, Zenon DEF Select
  <2> QED BY <1>5, <2>1 DEF Select, gesture, bounds
<1>6. CASE SetAllSourceDataUnselect
  BY <1>6 DEF SetAllSourceDataUnselect, gesture
<1> QED BY <1>1, <1>2, <1>3, <1>4, <1>5, <1>6 DEF Host

LEMMA MouseTypesStep == MouseTypes /\ [PreviewNext]_previewVars => MouseTypes'
<1>1. MouseTypes /\ UNCHANGED previewVars => MouseTypes'
  BY DEF previewVars, items, gesture, bounds, MouseTypes, ItemTypes, GestureTypes
<1>2. MouseTypes /\ Mouse => MouseTypes'
  BY PressTypes, ReleaseTypes, LeaveTypes, HoverTypes, DragTypes DEF Mouse, MouseMove
<1> QED BY <1>1, <1>2, HostTypes DEF PreviewNext

(* The items and the state of a gesture keep their types, whatever the     *)
(* mouse and the host do and in whatever order.                            *)
THEOREM PreviewTypesHold == PreviewSpec => []PreviewTypeOK
<1>1. MouseTypes => PreviewTypeOK
  BY DEF MouseTypes, ItemTypes, GestureTypes, PreviewTypeOK, Near, Stretches
<1> QED BY MouseTypesInit, MouseTypesStep, <1>1, PTL DEF PreviewSpec

-----------------------------------------------------------------------------
(* What a gesture leaves behind.  Unless it was disturbed, the left button *)
(* is the only one that drags, and it drags exactly while it is held.      *)
Undisturbed ==
  ~disturbed =>
    /\ \A b, c \in held : b = c
    /\ mouseDown <=> "left" \in held
    /\ mouseMoved => mouseDown
    /\ mouseMoved /\ stretch.handle = "none" /\ ~mouseOverItems => selectionBox
BoxMoves == selectionBox => mouseMoved

GestureInv == Undisturbed /\ BoxMoves /\ FreedHoverIsFresh

LEMMA GestureInit == PreviewInit => GestureInv
BY DEF PreviewInit, GestureInv, Undisturbed, BoxMoves, FreedHoverIsFresh

LEMMA GestureStep == MouseTypes /\ GestureInv /\ [PreviewNext]_previewVars => GestureInv'
<1> SUFFICES ASSUME MouseTypes, GestureInv, [PreviewNext]_previewVars PROVE GestureInv'
  OBVIOUS
<1> USE DEF GestureInv, Undisturbed, BoxMoves, FreedHoverIsFresh
<1>1. ASSUME NEW b \in Buttons, Press(b) PROVE GestureInv'
  BY <1>1 DEF Press, MousePress, Buttons, MouseTypes, GestureTypes
<1>2. ASSUME NEW b \in Buttons, Release(b) PROVE GestureInv'
  <2>1. CASE mouseDown
    <3>1. /\ mouseDown' = FALSE /\ mouseMoved' = FALSE /\ selectionBox' = FALSE
          /\ held' = held \ {b} /\ scene' = scene
          /\ hoveredPreviewItem' = GetItemAtPos(ptr, "none", selected')
      BY <1>2, <2>1 DEF Release, MouseRelease, Forget
    <3>2. hoveredPreviewItem' \in scene' \cup {None}
      BY <3>1, HitIsItem
    <3>3. ~disturbed' => held' = {} \/ ~disturbed
      BY <1>2, <2>1, Zenon DEF Release
    <3>4. ~disturbed' => held' = {}
      BY <1>2, <2>1, <3>1, <3>3 DEF Release, Buttons, MouseTypes, GestureTypes
    <3> QED BY <3>1, <3>2, <3>4
  <2>2. CASE ~mouseDown
    <3>1. ~disturbed' => ~disturbed
      BY <1>2, <2>2, Zenon DEF Release
    <3> QED BY <1>2, <2>2, <3>1 DEF Release, MouseRelease
  <2> QED BY <2>1, <2>2
<1>3. ASSUME NEW b \in Buttons, LoseRelease(b) PROVE GestureInv'
  BY <1>3 DEF LoseRelease, items, gesture
<1>4. CASE MouseLeave
  BY <1>4 DEF MouseLeave, items
<1>5. ASSUME NEW p \in Points, MouseMove(p) PROVE GestureInv'
  <2>1. CASE Hover(p)
    <3>1. hoveredPreviewItem' \in scene \cup {None}
      BY <2>1, HitIsItem DEF Hover, FindHovered
    <3> QED BY <1>5, <2>1, <3>1 DEF MouseMove, Hover, items
  <2>2. CASE Drag(p)
    <3>1. mouseDown /\ mouseMoved' = TRUE
      BY <2>2 DEF Drag, StretchItem, MoveItems, SelectionBox
    <3>2. stretch' = stretch /\ mouseOverItems' = Over
      BY <2>2 DEF Drag
    <3>3. (stretch.handle = "none" /\ ~Over) => selectionBox' = TRUE
      BY <2>2 DEF Drag, StretchItem, MoveItems, SelectionBox
    <3>4. (stretch.handle = "none" /\ ~mouseOverItems)' => selectionBox'
      BY <3>2, <3>3
    <3> QED BY <1>5, <2>2, <3>1, <3>4 DEF MouseMove, Drag
  <2> QED BY <1>5, <2>1, <2>2 DEF MouseMove
<1>6. ASSUME NEW i \in Items, Remove(i) PROVE GestureInv'
  <2>1. unseen' \/ (~unseen /\ hoveredPreviewItem # i)
    BY <1>6, Zenon DEF Remove
  <2> QED BY <1>6, <2>1 DEF Remove, Request, gesture
<1>7. ASSUME NEW i \in Items, SetLocked(i) \/ Reset(i) \/ Unselect(i) PROVE GestureInv'
  BY <1>7 DEF SetLocked, Reset, Unselect, Request, gesture
<1>8. CASE Select \/ SetAllSourceDataUnselect
  BY <1>8 DEF Select, SetAllSourceDataUnselect, gesture
<1>9. CASE UNCHANGED previewVars
  BY <1>9 DEF previewVars, items, gesture
<1> QED BY <1>1, <1>2, <1>3, <1>4, <1>5, <1>6, <1>7, <1>8, <1>9 DEF PreviewNext, Mouse, Host

(* With no button down nothing of a gesture is left, and the pointer to    *)
(* the hovered item outlives the item only until the mouse is next seen.   *)
THEOREM GesturesEndClean == PreviewSpec => []NothingIsLeft
<1>1. GestureInv => NothingIsLeft
  BY DEF GestureInv, Undisturbed, BoxMoves, NothingIsLeft, IdleIsClean
<1> QED BY MouseTypesInit, MouseTypesStep, GestureInit, GestureStep, <1>1, PTL DEF PreviewSpec

-----------------------------------------------------------------------------
(* What is selected.  A selection box is drawn only over nothing: a drag   *)
(* that begins on an item selects it first and then moves it.              *)
SelectionInv ==
  ~crossed =>
    /\ \A i, j \in selected \cap scene : i = j
    /\ selectionBox /\ ~disturbed => selected \cap scene = {}

LEMMA ClickSelectsOne ==
  ASSUME MouseTypes, NEW p, NEW button, \A i, j \in selected \cap scene : i = j
  PROVE  \A i, j \in ProcessClick(p, button) \cap scene : i = j
BY ClicksSelectHits DEF MouseTypes, ItemTypes

LEMMA BoxBeginsOnNothing ==
  ASSUME MouseTypes, SelectionBox, ~mouseMoved
  PROVE  selected' = {}
<1>1. ~Over /\ stretch.handle = "none" /\ selected' = ProcessClick(startPos, "none")
  BY DEF SelectionBox
<1>2. ~mouseOverItems /\ SelectFirst
  BY <1>1 DEF Over, SelectFirst
<1>3. ~SelectedAtPos(startPos, Chosen) /\ Chosen = ProcessClick(startPos, mouse_btn_type_)
  BY <1>1, <1>2 DEF Over, Chosen
<1>4. \A i \in Hits(startPos) : i \in scene /\ Covers(i, startPos)
  BY DEF Hits
<1>5. Chosen \cap Hits(startPos) = {}
  BY <1>3, <1>4 DEF SelectedAtPos
<1>6. Hits(startPos) = {}
  BY <1>3, <1>5, ClicksSelectHits DEF MouseTypes, ItemTypes
<1> QED BY <1>1, <1>6, ClicksSelectHits DEF MouseTypes, ItemTypes

LEMMA SelectionInit == PreviewInit => SelectionInv
BY DEF PreviewInit, SelectionInv

LEMMA SelectionStep ==
  ASSUME MouseTypes, GestureInv, SelectionInv, [PreviewNext]_previewVars
  PROVE  SelectionInv'
<1> USE DEF SelectionInv
<1>1. ASSUME NEW b \in Buttons, Press(b) PROVE SelectionInv'
  <2>1. scene' = scene /\ crossed' = crossed /\ selectionBox' = selectionBox
        /\ (selected' = selected \/ selected' = ProcessClick(ptr, "right"))
    BY <1>1 DEF Press
  <2>2. ~disturbed' => ~disturbed /\ held = {}
    BY <1>1, Zenon DEF Press
  <2>3. ~disturbed' => ~selectionBox
    BY <2>2 DEF GestureInv, Undisturbed, BoxMoves
  <2> QED BY <2>1, <2>3, ClickSelectsOne
<1>2. ASSUME NEW b \in Buttons, Release(b) PROVE SelectionInv'
  <2>1. scene' = scene /\ (~crossed' => ~crossed /\ ~(disturbed /\ mouseDown /\ selectionBox))
    BY <1>2, Zenon DEF Release
  <2>2. CASE mouseDown
    <3> DEFINE clicked == IF mouseMoved THEN selected ELSE ProcessClick(ptr, mouse_btn_type_)
               boxed == IF selectionBox /\ hoveredPreviewItem # None
                          THEN {hoveredPreviewItem} ELSE {}
    <3>1. selected' = clicked \cup boxed /\ selectionBox' = FALSE
      BY <1>2, <2>2 DEF Release, MouseRelease, Forget
    <3>2. CASE selectionBox
      <4>1. mouseMoved
        BY <3>2 DEF GestureInv, BoxMoves
      <4>2. ~crossed' => selected \cap scene = {}
        BY <2>1, <2>2, <3>2
      <4> QED BY <2>1, <3>1, <4>1, <4>2
    <3>3. CASE ~selectionBox
      BY <2>1, <3>1, <3>3, ClickSelectsOne
    <3> QED BY <3>2, <3>3
  <2>3. CASE ~mouseDown
    <3>1. ~disturbed' => ~disturbed
      BY <1>2, <2>3, Zenon DEF Release
    <3> QED BY <1>2, <2>1, <2>3, <3>1 DEF Release, MouseRelease
  <2> QED BY <2>2, <2>3
<1>3. ASSUME NEW b \in Buttons, LoseRelease(b) PROVE SelectionInv'
  BY <1>3 DEF LoseRelease, items, gesture
<1>4. CASE MouseLeave
  BY <1>4 DEF MouseLeave, items
<1>5. ASSUME NEW p \in Points, MouseMove(p) PROVE SelectionInv'
  <2>1. CASE Hover(p)
    BY <1>5, <2>1 DEF MouseMove, Hover, items
  <2>2. CASE Drag(p)
    <3>1. scene' = scene /\ crossed' = crossed /\ disturbed' = disturbed
      BY <1>5, <2>2 DEF MouseMove, Drag
    <3>2. CASE StretchItem(p)
      BY <3>1, <3>2 DEF StretchItem
    <3>3. CASE MoveItems(p)
      <4>1. selectionBox' = FALSE /\ (selected' = selected \/ selected' = ProcessClick(startPos, mouse_btn_type_))
        BY <3>3 DEF MoveItems, Chosen
      <4> QED BY <3>1, <4>1, ClickSelectsOne
    <3>4. CASE SelectionBox
      <4>1. CASE mouseMoved
        <5>1. selected' = selected
          BY <3>4, <4>1 DEF SelectionBox
        <5>2. CASE selectionBox
          BY <3>1, <5>1, <5>2
        <5>3. CASE ~selectionBox
          <6>1. disturbed \/ mouseOverItems
            BY <3>4, <4>1, <5>3 DEF GestureInv, Undisturbed, SelectionBox
          <6>2. Over = mouseOverItems
            BY <4>1 DEF Over, SelectFirst
          <6> QED BY <3>1, <3>4, <5>1, <6>1, <6>2 DEF SelectionBox
        <5> QED BY <5>2, <5>3
      <4>2. CASE ~mouseMoved
        BY <3>1, <3>4, <4>2, BoxBeginsOnNothing
      <4> QED BY <4>1, <4>2
    <3> QED BY <2>2, <3>2, <3>3, <3>4 DEF Drag
  <2> QED BY <1>5, <2>1, <2>2 DEF MouseMove
<1>6. ASSUME NEW i \in Items, Remove(i) \/ SetLocked(i) \/ Reset(i) \/ Unselect(i) PROVE SelectionInv'
  BY <1>6 DEF Remove, SetLocked, Reset, Unselect, Request, gesture
<1>7. CASE Select
  <2>1. ~crossed' => ~crossed /\ ~selectionBox /\ selected = {}
    BY <1>7, Zenon DEF Select
  <2> QED BY <1>7, <2>1 DEF Select, gesture
<1>8. CASE SetAllSourceDataUnselect
  BY <1>8 DEF SetAllSourceDataUnselect, gesture
<1>9. CASE UNCHANGED previewVars
  BY <1>9 DEF previewVars, items, gesture
<1> QED BY <1>1, <1>2, <1>3, <1>4, <1>5, <1>6, <1>7, <1>8, <1>9 DEF PreviewNext, Mouse, Host

(* At most one item is selected, unless a request met the mouse in the     *)
(* middle or a box was drawn after a gesture that was left half done.      *)
THEOREM AtMostOneSelected == PreviewSpec => []OneSelected
<1>1. MouseTypes /\ SelectionInv => OneSelected
  <2> SUFFICES ASSUME SelectionInv, ~crossed PROVE Cardinality(selected \cap scene) <= 1
    BY DEF OneSelected
  <2> DEFINE S == selected \cap scene
  <2>1. S = {} \/ \E i \in S : S = {i}
    BY DEF SelectionInv
  <2> HIDE DEF S
  <2>2. Cardinality(S) = 0 \/ Cardinality(S) = 1
    BY <2>1, FS_EmptySet, FS_Singleton
  <2> QED BY <2>2 DEF S
<1>2. GestureInv /\ SelectionInv /\ MouseTypes /\ [PreviewNext]_previewVars
        => GestureInv' /\ SelectionInv'
  BY GestureStep, SelectionStep
<1> QED
  BY MouseTypesInit, MouseTypesStep, GestureInit, SelectionInit, <1>1, <1>2, PTL DEF PreviewSpec

-----------------------------------------------------------------------------
(* What a drag moves.  Until it moves, the items are where they were       *)
(* grabbed, but for those a request touched.                               *)
Begun ==
  mouseDown /\ ~mouseMoved /\ ~disturbed =>
    lastMoveOffset = 0 /\ \A i \in scene \ touched : left[i] = grabbed[i]

DragInv == Begun /\ DragFollowsPointer

LEMMA DragInit == PreviewInit => DragInv
BY DEF PreviewInit, DragInv, Begun, DragFollowsPointer

LEMMA MoveStep ==
  ASSUME MouseTypes, GestureInv, DragInv, NEW p \in Points, MouseMove(p), Drag(p), MoveItems(p)
  PROVE  DragFollowsPointer'
<1> DEFINE offset == p - startPos - lastMoveOffset
<1>1. PICK snap \in SnapItemMovement(offset) :
        /\ lastMoveOffset' = Moved(offset, snap)
        /\ left' = [i \in Items |-> left[i] + IF i \in Movable THEN offset + snap ELSE 0]
  BY DEF MoveItems
<1>2. offset \in Int /\ lastMoveOffset \in Int /\ p \in Int /\ startPos \in Int
  BY PointsAreInts, Bounds DEF MouseTypes, GestureTypes, Near
<1>3. snap \in Snaps
  <2> HIDE DEF offset
  <2> QED BY <1>2, SnapTypes
<1> DEFINE by == offset + snap
<1>4. by \in Int /\ lastMoveOffset' = p - startPos + snap /\ lastMoveOffset' = lastMoveOffset + by
  BY <1>1, <1>2, <1>3, MoveTypes DEF Moved, Snaps
<1>5. ptr' = p /\ startPos' = startPos /\ scene' = scene /\ locked' = locked
      /\ touched' = touched /\ grabbed' = grabbed /\ disturbed' = disturbed
      /\ selected' = Chosen /\ mouseOverItems' = Over /\ stretch' = stretch /\ mouseDown' = mouseDown
  BY DEF MouseMove, Drag, MoveItems
<1>6. Abs(lastMoveOffset' - (ptr' - startPos')) < SnapDist
  <2>1. lastMoveOffset' - (ptr' - startPos') = snap
    BY <1>2, <1>3, <1>4, <1>5 DEF Snaps
  <2> QED BY <1>3, <2>1, Bounds DEF Abs, Snaps
<1>7. ASSUME ~disturbed, NEW i \in (scene \cap Chosen) \ (locked \cup touched)
      PROVE  left'[i] = grabbed[i] + lastMoveOffset'
  <2>1. i \in Items /\ i \in Movable /\ left[i] \in Int /\ grabbed[i] \in Int
    BY <1>7 DEF Movable, MouseTypes, ItemTypes
  <2>2. left[i] = grabbed[i] + lastMoveOffset
    <3>1. CASE ~mouseMoved
      <4>1. mouseDown
        BY DEF MoveItems
      <4> QED BY <1>7, <2>1, <3>1, <4>1 DEF DragInv, Begun
    <3>2. CASE mouseMoved
      <4>1. Chosen = selected /\ Over = mouseOverItems
        BY <3>2 DEF Chosen, Over, SelectFirst
      <4>2. mouseDown /\ mouseOverItems /\ stretch.handle = "none"
        BY <4>1 DEF MoveItems
      <4> QED BY <1>7, <3>2, <4>1, <4>2 DEF DragInv, DragFollowsPointer
    <3> QED BY <3>1, <3>2
  <2>3. left'[i] = left[i] + by
    <3> HIDE DEF by
    <3>1. left' = [j \in Items |-> left[j] + IF j \in Movable THEN by ELSE 0]
      BY <1>1 DEF by
    <3> QED BY <2>1, <3>1
  <2> HIDE DEF by
  <2> QED BY <1>2, <1>4, <2>1, <2>2, <2>3
<1> QED BY <1>5, <1>6, <1>7 DEF DragFollowsPointer

LEMMA DragStep ==
  ASSUME MouseTypes, GestureInv, DragInv, [PreviewNext]_previewVars
  PROVE  DragInv'
<1> USE DEF DragInv, Begun
<1>1. ASSUME NEW b \in Buttons, Press(b) PROVE DragInv'
  <2>1. ~disturbed' => ~disturbed /\ held = {}
    BY <1>1, Zenon DEF Press
  <2>2. ~disturbed' => ~mouseMoved /\ ~mouseMoved'
    BY <1>1, <2>1 DEF GestureInv, Undisturbed, Press
  <2>3. lastMoveOffset' = 0 /\ grabbed' = left /\ left' = left
    BY <1>1 DEF Press, MousePress
  <2> QED BY <2>2, <2>3 DEF DragFollowsPointer
<1>2. ASSUME NEW b \in Buttons, Release(b) PROVE DragInv'
  <2>1. ~mouseDown'
    BY <1>2 DEF Release, MouseRelease, Forget
  <2> QED BY <2>1 DEF DragFollowsPointer
<1>3. ASSUME NEW b \in Buttons, LoseRelease(b) PROVE DragInv'
  BY <1>3 DEF LoseRelease, DragFollowsPointer
<1>4. CASE MouseLeave
  BY <1>4 DEF MouseLeave, items, DragFollowsPointer
<1>5. ASSUME NEW p \in Points, MouseMove(p) PROVE DragInv'
  <2>1. CASE Hover(p)
    BY <2>1 DEF Hover, DragFollowsPointer
  <2>2. CASE Drag(p)
    <3>1. mouseMoved' = TRUE /\ stretch' = stretch /\ mouseOverItems' = Over
      BY <2>2 DEF Drag
    <3>2. CASE MoveItems(p)
      BY <1>5, <2>2, <3>1, <3>2, MoveStep
    <3>3. CASE StretchItem(p) \/ SelectionBox
      <4>1. ~(mouseOverItems /\ stretch.handle = "none")'
        BY <3>1, <3>3 DEF StretchItem, SelectionBox
      <4> QED BY <3>1, <4>1 DEF DragFollowsPointer
    <3> QED BY <2>2, <3>2, <3>3 DEF Drag
  <2> QED BY <1>5, <2>1, <2>2 DEF MouseMove
<1>6. ASSUME NEW i \in Items, Remove(i) \/ SetLocked(i) PROVE DragInv'
  BY <1>6 DEF Remove, SetLocked, Request, gesture, DragFollowsPointer
<1>7. ASSUME NEW i \in Items, Reset(i) PROVE DragInv'
  <2>1. \A j \in Items : j # i => left'[j] = left[j]
    BY <1>7 DEF Reset, MouseTypes, ItemTypes
  <2>2. touched' = touched \cup {i} /\ scene \subseteq Items
    BY <1>7 DEF Reset, Request, MouseTypes, ItemTypes
  <2> QED BY <1>7, <2>1, <2>2 DEF Reset, Request, gesture, DragFollowsPointer
<1>8. ASSUME NEW i \in Items, Unselect(i) PROVE DragInv'
  BY <1>8 DEF Unselect, Request, gesture, DragFollowsPointer
<1>9. CASE Select
  BY <1>9 DEF Select, gesture, DragFollowsPointer
<1>10. CASE SetAllSourceDataUnselect
  BY <1>10 DEF SetAllSourceDataUnselect, gesture, DragFollowsPointer
<1>11. CASE UNCHANGED previewVars
  BY <1>11 DEF previewVars, items, gesture, DragFollowsPointer
<1> QED BY <1>1, <1>2, <1>3, <1>4, <1>5, <1>6, <1>7, <1>8, <1>9, <1>10,
   <1>11 DEF PreviewNext, Mouse, Host

(* The mouse moves a locked item only by a handle it holds.                *)
LockedStays ==
  \A i \in scene \cap locked :
    left'[i] # left[i] /\ Mouse => stretch.handle # "none" /\ stretch.item = i

LEMMA LockedStaysStep == MouseTypes => [LockedStays]_previewVars
<1> SUFFICES ASSUME MouseTypes, NEW i \in scene \cap locked, left'[i] # left[i], Mouse
             PROVE  stretch.handle # "none" /\ stretch.item = i
  BY DEF LockedStays
<1>1. i \in Items /\ left \in [Items -> Int]
  BY DEF MouseTypes, ItemTypes
<1>2. PICK p \in Points : Drag(p)
  BY DEF Mouse, Press, Release, LoseRelease, MouseLeave, MouseMove, Hover, items
<1>3. ~SelectionBox
  BY DEF SelectionBox
<1>4. ~MoveItems(p)
  <2> SUFFICES ASSUME MoveItems(p) PROVE left'[i] = left[i]
    OBVIOUS
  <2>1. PICK by : left' = [j \in Items |-> left[j] + IF j \in Movable THEN by ELSE 0]
    BY DEF MoveItems
  <2>2. i \notin Movable
    BY DEF Movable
  <2> QED BY <1>1, <2>1, <2>2
<1>5. StretchItem(p)
  BY <1>2, <1>3, <1>4 DEF Drag
<1>6. PICK l : left' = [left EXCEPT ![stretch.item] = l]
  BY <1>5 DEF StretchItem
<1> QED BY <1>1, <1>5, <1>6 DEF StretchItem

(* A drag keeps the items it moves where they were grabbed plus what it    *)
(* moved by, within a snap of the mouse, and moves nothing that is locked. *)
THEOREM DragsHold == PreviewSpec => DragsMoveWhatTheyHold
<1>1. DragInv => DragFollowsPointer
  BY DEF DragInv
<1>2. MouseTypes /\ GestureInv /\ DragInv /\ [PreviewNext]_previewVars => GestureInv' /\ DragInv'
  BY GestureStep, DragStep
<1>3. PreviewSpec => [][DragFollowsPointer']_previewVars
  BY MouseTypesInit, MouseTypesStep, GestureInit, DragInit, <1>1, <1>2, PTL DEF PreviewSpec
<1>4. PreviewSpec => LockedMovesByHandle
  <2>1. LockedStays <=> \A i \in scene \cap locked :
          left'[i] # left[i] /\ Mouse => stretch.handle # "none" /\ stretch.item = i
    BY DEF LockedStays
  <2> QED BY MouseTypesInit, MouseTypesStep, LockedStaysStep, <2>1, PTL DEF PreviewSpec,
     LockedMovesByHandle
<1> QED BY <1>3, <1>4 DEF DragsMoveWhatTheyHold

-----------------------------------------------------------------------------
(* The scales of a phone that is turned.  What it was placed with is its   *)
(* first scale, and a turn replaces the fit of the turn before.            *)
Positive(t) == t.kind = "at" => t.scale \in Nat \ {0}
Fresh(t) == t.kind = "at" => t.scale \in FirstScales
Scaled(t) ==
  t.kind = "at" /\ last_scale_ \notin {0, Infinite} =>
    \E first \in FirstScales, fit \in Turns : t.scale * fit = first * last_scale_

BaseOfTurn == plugin.base \in {NoPicture, SizeOf(plugin.dir)}
ScalesOfTurn ==
  /\ BaseOfTurn /\ Positive(plugin.read) /\ Positive(plugin.new)
  /\ plugin.gone /\ present => Fresh(info)
  /\ plugin.gone /\ plugin.at = "compute" => ~phone_source_init_
  /\ ~plugin.gone /\ plugin.at = "compute" => Scaled(plugin.read)
  /\ ~plugin.gone /\ plugin.at = "write" => Scaled(plugin.new)
ScaleInv ==
  /\ last_scale_ \in {0, Infinite} \cup Turns
  /\ Positive(info)
  /\ plugin = Idle /\ present => Scaled(info)
  /\ plugin # Idle => ScalesOfTurn

(* Fits of a picture are positive, and so is every first scale.            *)
LEMMA ScalesArePositive ==
  /\ Turns \subseteq Nat \ {0} /\ FirstScales \subseteq Nat \ {0}
  /\ Turns \subseteq FirstScales /\ 2 \in FirstScales
  /\ \A size \in Sizes \ {NoPicture} : Fit("landscape", size) \in FirstScales
  /\ \A dir \in Dirs : Fit(dir, SizeOf(dir)) \in Turns
<1>1. \A dir \in Dirs : SizeOf(dir) \in Sizes \ {NoPicture}
  BY Lengths DEF SizeOf, Sizes, NoPicture
<1>2. Turns \subseteq Nat \ {0}
  BY <1>1, FitIsPositive DEF Turns
<1>3. \A size \in Sizes \ {NoPicture} : Fit("landscape", size) \in Nat \ {0}
  BY FitIsPositive
<1>4. 2 \in Nat \ {0}
  OBVIOUS
<1>5. FirstScales \subseteq Nat \ {0}
  BY <1>2, <1>3, <1>4 DEF FirstScales
<1> QED BY <1>2, <1>5 DEF FirstScales, Turns

(* Dividing what divides without a rest.                                   *)
LEMMA NoRest ==
  ASSUME NEW a \in Nat, NEW b \in Nat \ {0}, a % b = 0
  PROVE  (a \div b) \in Nat /\ (a \div b) * b = a
OBVIOUS

LEMMA Cancel ==
  ASSUME NEW a \in Nat, NEW b \in Nat, NEW c \in Nat \ {0}, a * c = b * c
  PROVE  a = b
OBVIOUS

LEMMA ProductsAreNat ==
  \A a, b \in Nat : a * b \in Nat
OBVIOUS

(* The scale after a turn is a whole number, and comes from the same first *)
(* scale: it is that, times the new fit, by the same old fit.              *)
LEMMA TurnIsExact ==
  ASSUME NEW scale \in Nat \ {0}, NEW last \in Turns, NEW fit \in Turns,
         NEW first \in FirstScales, NEW old \in Turns, scale * old = first * last
  PROVE  /\ (scale * fit) \div last \in Nat \ {0}
         /\ ((scale * fit) \div last) * old = first * fit
<1>1. /\ last \in Nat \ {0} /\ fit \in Nat \ {0} /\ old \in Nat \ {0} /\ first \in Nat \ {0}
  BY ScalesArePositive
<1>2. (first * fit) % old = 0
  BY ExactAssumption
<1> DEFINE new == (first * fit) \div old
<1>3. first * fit \in Nat /\ scale * fit \in Nat /\ first * last \in Nat
  BY <1>1, ProductsAreNat
<1>4. new \in Nat /\ new * old = first * fit
  BY <1>1, <1>2, <1>3, NoRest
<1> HIDE DEF new
<1>5. scale * fit = last * new
  <2>1. last * new \in Nat
    BY <1>1, <1>4, ProductsAreNat
  <2>2. (scale * fit) * old = (scale * old) * fit
    BY <1>1
  <2>3. (first * last) * fit = last * (first * fit)
    BY <1>1
  <2>4. last * (new * old) = (last * new) * old
    BY <1>1, <1>4
  <2>5. (scale * fit) * old = (last * new) * old
    BY <1>4, <2>2, <2>3, <2>4
  <2> QED BY <1>1, <1>3, <2>1, <2>5, Cancel
<1>6. (scale * fit) \div last = new
  BY <1>1, <1>4, <1>5, QuotientOfProduct
<1>7. new # 0
  <2>1. first * fit # 0
    BY <1>1
  <2> QED BY <1>1, <1>4, <2>1
<1> QED BY <1>4, <1>6, <1>7

LEMMA KindsDiffer ==
  /\ Nowhere.kind # "at" /\ Stretched.kind # "at"
  /\ \A scale, x, y : At(scale, x, y).kind = "at" /\ At(scale, x, y).scale = scale
BY DEF Nowhere, Stretched, At

(* What is placed anew has a first scale, and what has one is scaled for   *)
(* any turn that the fields remember.                                      *)
LEMMA FreshIsScaled ==
  ASSUME NEW t, Fresh(t), last_scale_ \in {0, Infinite} \cup Turns
  PROVE  Scaled(t) /\ Positive(t)
<1>1. Positive(t)
  BY ScalesArePositive DEF Fresh, Positive
<1>2. ASSUME t.kind = "at", last_scale_ \in Turns
      PROVE  \E first \in FirstScales, fit \in Turns : t.scale * fit = first * last_scale_
  BY <1>2 DEF Fresh
<1> QED BY <1>1, <1>2 DEF Scaled

LEMMA LayoutIsFresh ==
  ASSUME NEW dir \in Dirs, NEW old PROVE Fresh(Layout(dir, SizeOf(dir), old))
<1>1. Fit(dir, SizeOf(dir)) \in FirstScales
  BY ScalesArePositive
<1> QED BY <1>1, KindsDiffer DEF Layout, Centred, Fresh

LEMMA FullScreenIsFresh ==
  ASSUME base \in Sizes \ {NoPicture}
  PROVE  Fresh(Centred(Fit("landscape", base), base)) /\ Fresh(Stretched) /\ Fresh(At(2, 0, 0))
BY ScalesArePositive, KindsDiffer DEF Centred, Fresh

(* A picture of no size fits with no number.                               *)
LEMMA FitOfNothing == \A dir : Fit(dir, NoPicture) = Infinite
BY DEF Fit, NoPicture, Quotient, Smaller, Infinite

LEMMA ScalesInit == Init => ScaleInv
BY ScalesArePositive, KindsDiffer DEF Init, ScaleInv, Positive, Scaled

(* The turn itself.                                                        *)
LEMMA ScalesTurn ==
  ASSUME Types, ScaleInv, TurnItem
  PROVE  /\ last_scale_' \in {0, Infinite} \cup Turns
         /\ Positive(plugin.new)' /\ Scaled(plugin.new)'
<1> DEFINE fit == Fit(plugin.dir, plugin.base)
<1>1. plugin \in Callbacks /\ plugin.at = "compute" /\ phone_source_init_
  BY DEF TurnItem, Computing, First, Types, Idle
<1>2. plugin # Idle /\ ~plugin.gone /\ BaseOfTurn
      /\ Positive(plugin.read) /\ Scaled(plugin.read)
  BY <1>1 DEF ScaleInv, ScalesOfTurn, Idle, Callbacks
<1>3. fit \in {Infinite} \cup Turns /\ last_scale_' = fit
  BY <1>1, <1>2, FitOfNothing, ScalesArePositive DEF BaseOfTurn, TurnItem, Callbacks
<1>4. plugin'.new = TurnedOrLost(fit)
  BY <1>1 DEF TurnItem, Write, Callbacks
<1>5. last_scale_ \in {0, Infinite} \cup Turns
  BY DEF ScaleInv
<1>6. CASE plugin.read = Nowhere \/ {last_scale_, fit} \cap {0, Infinite} # {}
  <2>1. plugin'.new = Nowhere
    BY <1>4, <1>6 DEF TurnedOrLost
  <2> QED BY <1>3, <2>1, KindsDiffer DEF Positive, Scaled
<1>7. CASE ~(plugin.read = Nowhere \/ {last_scale_, fit} \cap {0, Infinite} # {})
  <2> DEFINE scale == (plugin.read.scale * fit) \div last_scale_
  <2>1. last_scale_ \in Turns /\ fit \in Turns /\ last_scale_ \notin {0, Infinite}
    BY <1>3, <1>5, <1>7
  <2>2. plugin.read # Stretched /\ plugin.read \in Transforms
    BY <1>1 DEF TurnItem, Untouched, Callbacks
  <2>3. plugin.read.kind = "at"
    BY <1>7, <2>2, PlacesHaveNumbers
  <2>4. plugin.read.scale \in Nat \ {0}
    BY <1>2, <2>3 DEF Positive
  <2>5. PICK first \in FirstScales, old \in Turns : plugin.read.scale * old = first * last_scale_
    BY <1>2, <2>1, <2>3 DEF Scaled
  <2>6. scale \in Nat \ {0} /\ scale * old = first * fit
    BY <2>1, <2>4, <2>5, TurnIsExact
  <2> HIDE DEF scale
  <2>7. plugin'.new.kind = "at" /\ plugin'.new.scale = scale
    BY <1>4, <1>7, KindsDiffer DEF TurnedOrLost, Turned, scale
  <2> QED BY <1>3, <2>5, <2>6, <2>7 DEF Positive, Scaled
<1> QED BY <1>6, <1>7

(* What places the item beside the callback.                               *)
LEMMA ScalesPlace ==
  ASSUME Types, ScaleInv, NEW new, Place(new), Fresh(new) \/ (MoveItem /\ new.kind = "at"
                                                             /\ new.scale = info.scale)
  PROVE  ScaleInv'
<1> USE DEF ScaleInv
<1>1. info' = new /\ UNCHANGED <<present, base, last_scale_, phone_source_init_, plugin>> /\ present
  BY DEF Place, fields
<1>2. CASE Fresh(new)
  <2>1. Fresh(info)' /\ Positive(info)'
    BY <1>1, <1>2, FreshIsScaled DEF Fresh, Positive
  <2>2. Scaled(info)'
    BY <1>1, <1>2, FreshIsScaled DEF Scaled
  <2>3. plugin # Idle => ScalesOfTurn'
    BY <1>1, <2>1 DEF ScalesOfTurn, BaseOfTurn, Positive, Scaled, Fresh
  <2> QED BY <1>1, <2>1, <2>2, <2>3
<1>3. CASE MoveItem /\ new.kind = "at" /\ new.scale = info.scale
  <2>1. info.kind = "at"
    BY <1>3 DEF MoveItem
  <2>2. /\ Positive(info)' /\ (Fresh(info) => Fresh(info)')
        /\ (Scaled(info) => Scaled(info)')
    BY <1>1, <1>3, <2>1 DEF Positive, Fresh, Scaled
  <2>3. plugin # Idle => ScalesOfTurn'
    BY <1>1, <2>2 DEF ScalesOfTurn, BaseOfTurn, Positive, Scaled
  <2> QED BY <1>1, <2>2, <2>3
<1> QED BY <1>2, <1>3

LEMMA ScalesStep == Types /\ ScaleInv /\ [Next]_vars => ScaleInv'
<1> SUFFICES ASSUME Types, ScaleInv, [Next]_vars PROVE ScaleInv'
  OBVIOUS
<1>a. plugin.at \in {"compute", "write"} => plugin \in Callbacks /\ plugin # Idle
  BY DEF Idle, Types
<1>b. Idle.at = "idle" /\ \A c \in Callbacks : c # Idle /\ c.at \in {"compute", "write"}
  BY DEF Idle, Callbacks
<1>c. last_scale_ \in {0, Infinite} \cup Turns /\ Positive(info)
  BY DEF ScaleInv
<1>1. ASSUME NEW dir \in Dirs, DirChange(dir) PROVE ScaleInv'
  <2>1. /\ plugin = Idle /\ present /\ UNCHANGED <<present, info, last_scale_>>
        /\ base' \in {SizeOf(dir), NoPicture}
        /\ plugin' = [at |-> "compute", dir |-> dir, base |-> base', was |-> base,
                      read |-> info, new |-> info, layout |-> FALSE, gone |-> FALSE]
    BY <1>1 DEF DirChange, fields
  <2>2. Scaled(info)
    BY <2>1 DEF ScaleInv
  <2>3. Scaled(plugin.read)' /\ Positive(plugin.read)' /\ Positive(plugin.new)' /\ Positive(info)'
    BY <1>c, <2>1, <2>2 DEF Scaled, Positive
  <2>4. ScalesOfTurn'
    BY <2>1, <2>3 DEF ScalesOfTurn, BaseOfTurn
  <2>5. plugin' # Idle
    BY <1>b, <2>1
  <2> QED BY <1>c, <2>1, <2>3, <2>4, <2>5 DEF ScaleInv
<1>2. ASSUME plugin.at = "compute",
             NEW new, NEW layout, Write(new, layout), UNCHANGED <<present, info>>,
             last_scale_' \in {0, Infinite} \cup Turns,
             Positive(plugin.new)', ~plugin.gone => Scaled(plugin.new)'
      PROVE  ScaleInv'
  <2>1. ScalesOfTurn /\ plugin \in Callbacks
    BY <1>a, <1>2 DEF ScaleInv
  <2>2. /\ plugin'.at = "write" /\ plugin'.read = plugin.read /\ plugin'.gone = plugin.gone
        /\ plugin'.base = plugin.base /\ plugin'.dir = plugin.dir
    BY <1>2, <2>1 DEF Write, Callbacks
  <2>3. ScalesOfTurn'
    BY <1>2, <2>1, <2>2 DEF ScalesOfTurn, BaseOfTurn, Positive, Fresh
  <2>4. plugin' # Idle
    BY <1>b, <2>2
  <2> QED BY <1>c, <1>2, <2>3, <2>4 DEF ScaleInv, Positive
<1>3. CASE FirstDirection
  <2>1. plugin.at = "compute" /\ plugin \in Callbacks /\ plugin # Idle /\ ScalesOfTurn
    BY <1>3, <1>a DEF FirstDirection, Computing, ScaleInv
  <2>2. CASE plugin.base # NoPicture
    <3> DEFINE new == Layout(plugin.dir, plugin.base, plugin.read)
    <3>1. plugin.base = SizeOf(plugin.dir) /\ plugin.dir \in Dirs
      BY <2>1, <2>2 DEF ScalesOfTurn, BaseOfTurn, Callbacks
    <3>2. last_scale_' \in {0, Infinite} \cup Turns
      BY <1>3, <2>2, <3>1, ScalesArePositive DEF FirstDirection
    <3>3. Write(new, TRUE) /\ UNCHANGED <<present, info>>
      BY <1>3, <2>2 DEF FirstDirection
    <3>4. plugin'.new = new
      BY <2>1, <3>3 DEF Write, Callbacks
    <3>5. Fresh(new)
      BY <3>1, LayoutIsFresh
    <3> HIDE DEF new
    <3>6. Fresh(plugin.new)'
      BY <3>4, <3>5 DEF Fresh
    <3>7. Positive(plugin.new)' /\ Scaled(plugin.new)'
      BY <3>2, <3>6, ScalesArePositive DEF Fresh, Positive, Scaled
    <3> QED BY <1>2, <2>1, <3>2, <3>3, <3>7
  <2>3. CASE plugin.base = NoPicture
    <3>1. Write(plugin.read, FALSE) /\ UNCHANGED <<present, info, last_scale_>>
      BY <1>3, <2>3 DEF FirstDirection
    <3>2. plugin'.new = plugin.read /\ Positive(plugin.new)'
      BY <2>1, <3>1 DEF Write, Callbacks, ScalesOfTurn, Positive
    <3>3. ~plugin.gone => Scaled(plugin.new)'
      BY <2>1, <3>1, <3>2 DEF ScalesOfTurn, Scaled
    <3> QED BY <1>2, <1>c, <2>1, <3>1, <3>2, <3>3
  <2> QED BY <2>2, <2>3
<1>4. CASE KeepItem
  <2>1. plugin.at = "compute" /\ plugin \in Callbacks /\ plugin # Idle /\ ScalesOfTurn
    BY <1>4, <1>a DEF KeepItem, Computing, ScaleInv
  <2>2. Write(plugin.read, FALSE) /\ UNCHANGED <<present, info, last_scale_>>
    BY <1>4 DEF KeepItem, fields
  <2>3. plugin'.new = plugin.read /\ Positive(plugin.new)'
    BY <2>1, <2>2 DEF Write, Callbacks, ScalesOfTurn, Positive
  <2>4. ~plugin.gone => Scaled(plugin.new)'
    BY <2>1, <2>2, <2>3 DEF ScalesOfTurn, Scaled
  <2> QED BY <1>2, <1>c, <2>1, <2>2, <2>3, <2>4
<1>5. CASE TurnItem
  <2>1. plugin.at = "compute"
    BY <1>5 DEF TurnItem, Computing
  <2>2. /\ Write(TurnedOrLost(Fit(plugin.dir, plugin.base)), FALSE)
        /\ UNCHANGED <<present, info>>
    BY <1>5 DEF TurnItem
  <2> QED BY <1>2, <1>5, <2>1, <2>2, ScalesTurn
<1>6. CASE SetInfo
  <2>1. plugin.at = "write" /\ plugin \in Callbacks /\ plugin # Idle /\ ScalesOfTurn
    BY <1>6, <1>a DEF SetInfo, ScaleInv
  <2>2. plugin' = Idle /\ UNCHANGED <<present, last_scale_>>
    BY <1>6 DEF SetInfo, fields
  <2>3. CASE plugin.gone
    <3>1. info' = info
      BY <1>6, <2>3 DEF SetInfo
    <3>2. present => Scaled(info)
      BY <1>c, <2>1, <2>3, FreshIsScaled DEF ScalesOfTurn
    <3>3. Positive(info)' /\ (present => Scaled(info)')
      BY <1>c, <2>2, <3>1, <3>2 DEF Positive, Scaled
    <3> QED BY <1>c, <2>2, <3>3 DEF ScaleInv
  <2>4. CASE ~plugin.gone
    <3>1. info' = plugin.new
      BY <1>6, <2>4 DEF SetInfo
    <3>2. Positive(info)' /\ Scaled(info)'
      BY <2>1, <2>2, <2>4, <3>1 DEF ScalesOfTurn, Positive, Scaled
    <3> QED BY <1>c, <2>2, <3>2 DEF ScaleInv
  <2> QED BY <2>3, <2>4
<1>7. Fresh(At(2, 0, 0))
  BY ScalesArePositive, KindsDiffer DEF Fresh
<1>8. CASE AddPhone
  <2>1. /\ info' = At(2, 0, 0) /\ present' /\ ~present
        /\ UNCHANGED <<last_scale_, phone_source_init_, plugin>>
    BY <1>8 DEF AddPhone, fields
  <2>2. Fresh(info)'
    BY <1>7, <2>1 DEF Fresh
  <2>3. Positive(info)' /\ Scaled(info)'
    BY <1>c, <2>1, <2>2, ScalesArePositive DEF Fresh, Positive, Scaled
  <2>4. plugin # Idle => ScalesOfTurn'
    BY <2>1, <2>2 DEF ScaleInv, ScalesOfTurn, BaseOfTurn, Positive, Scaled
  <2> QED BY <1>c, <2>1, <2>3, <2>4 DEF ScaleInv
<1>9. CASE MoveItem
  <2>1. PICK p \in Places : Place(At(info.scale, p[1], p[2]))
    BY <1>9 DEF MoveItem
  <2> QED BY <1>9, <2>1, KindsDiffer, ScalesPlace
<1>10. CASE ResetItem
  BY <1>7, <1>10, ScalesPlace DEF ResetItem
<1>11. CASE SetSceneItemFullScreen
  <2>1. base \in Sizes \ {NoPicture}
    BY <1>11 DEF SetSceneItemFullScreen, Types
  <2> QED BY <1>11, <2>1, FullScreenIsFresh, ScalesPlace DEF SetSceneItemFullScreen
<1>12. CASE RemoveItem
  <2>1. /\ ~present' /\ last_scale_' = 0 /\ ~phone_source_init_' /\ info' = info
        /\ plugin' = IF plugin = Idle THEN Idle ELSE [plugin EXCEPT !.gone = TRUE]
    BY <1>12 DEF RemoveItem
  <2>2. Positive(info)'
    BY <1>c, <2>1 DEF Positive
  <2>3. ASSUME plugin # Idle PROVE ScalesOfTurn'
    <3>1. plugin \in Callbacks /\ ScalesOfTurn
      BY <2>3 DEF Types, ScaleInv
    <3>2. /\ plugin'.gone /\ plugin'.base = plugin.base /\ plugin'.dir = plugin.dir
          /\ plugin'.read = plugin.read /\ plugin'.new = plugin.new
      BY <2>1, <2>3, <3>1 DEF Callbacks
    <3> QED BY <2>1, <3>1, <3>2 DEF ScalesOfTurn, BaseOfTurn, Positive
  <2> QED BY <2>1, <2>2, <2>3 DEF ScaleInv
<1>13. CASE UNCHANGED vars
  BY <1>13 DEF vars, fields, ScaleInv, ScalesOfTurn, BaseOfTurn, Positive, Fresh, Scaled
<1> QED
  BY <1>1, <1>3, <1>4, <1>5, <1>6, <1>8, <1>9, <1>10, <1>11, <1>12, <1>13 DEF Next

(* The histories.                                                          *)
Histories ==
  /\ heard \in Dirs \cup {"none"} /\ laidOut \in BOOLEAN
  /\ excuse \subseteq {"blind", "straddled", "stretched"}

LEMMA HistoriesStep == Types /\ Histories /\ [Next]_vars => Histories'
<1> SUFFICES ASSUME Types, Histories, [Next]_vars PROVE Histories'
  OBVIOUS
<1>1. CASE (\E dir \in Dirs : DirChange(dir)) \/ TurnItem \/ UNCHANGED vars
  BY <1>1 DEF DirChange, TurnItem, vars, Histories
<1>2. CASE FirstDirection \/ KeepItem
  BY <1>2 DEF FirstDirection, KeepItem, Histories, fields
<1>3. CASE SetInfo
  <2>1. plugin \in Callbacks
    BY <1>3 DEF SetInfo, Types, Idle
  <2>2. plugin.dir \in Dirs /\ plugin.layout \in BOOLEAN
    BY <2>1 DEF Callbacks
  <2>3. heard' \in {heard, plugin.dir} /\ excuse' = excuse
    BY <1>3 DEF SetInfo
  <2>4. laidOut' = laidOut \/ laidOut' = (laidOut \/ plugin.layout)
    BY <1>3, Zenon DEF SetInfo
  <2>5. laidOut' \in BOOLEAN
    BY <2>2, <2>4 DEF Histories
  <2> QED BY <2>2, <2>3, <2>5 DEF Histories
<1>4. CASE AddPhone \/ RemoveItem
  BY <1>4 DEF AddPhone, RemoveItem, Histories
<1>5. CASE MoveItem \/ ResetItem \/ SetSceneItemFullScreen
  <2>1. \E new : Place(new)
    BY <1>5 DEF MoveItem, ResetItem, SetSceneItemFullScreen
  <2> QED BY <2>1 DEF Place, Histories
<1> QED BY <1>1, <1>2, <1>3, <1>4, <1>5 DEF Next

LEMMA PhoneTypes == Types /\ ScaleInv /\ Histories => TypeOK
<1> SUFFICES ASSUME Types, ScaleInv, Histories PROVE TypeOK
  OBVIOUS
<1>1. ASSUME NEW t \in Transforms, Positive(t) PROVE IsTransform(t)
  <2>1. t \in {Nowhere, Stretched} \/ (t.kind = "at" /\ t.x \in Int /\ t.y \in Int)
    BY PlacesHaveNumbers
  <2> QED BY <1>1, <2>1 DEF IsTransform, Positive
<1>2. IsTransform(info)
  BY <1>1 DEF Types, ScaleInv
<1>3. ASSUME plugin # Idle
      PROVE  /\ plugin.at \in {"compute", "write"} /\ plugin.dir \in Dirs
             /\ {plugin.layout, plugin.gone} \subseteq BOOLEAN
             /\ {plugin.base, plugin.was} \subseteq Sizes
             /\ IsTransform(plugin.read) /\ IsTransform(plugin.new)
  <2>1. plugin \in Callbacks
    BY <1>3 DEF Types
  <2>2. Positive(plugin.read) /\ Positive(plugin.new)
    BY <1>3 DEF ScaleInv, ScalesOfTurn
  <2>3. plugin.read \in Transforms /\ plugin.new \in Transforms
    BY <2>1 DEF Callbacks
  <2> QED BY <1>1, <2>1, <2>2, <2>3 DEF Callbacks
<1> QED BY <1>2, <1>3 DEF Types, Histories, TypeOK

(* The transform of a phone's item stays one that can be drawn: however it *)
(* is turned, placed, removed and added, its scale stays a positive number *)
(* (OnPhoneCastingDirChange), for any canvas and phone with exact turns.   *)
THEOREM ScalesStayPositive == Spec => []TypeOK
<1>1. Init => Histories
  BY DEF Init, Histories
<1> QED
  BY TypesInit, TypesStep, ScalesInit, ScalesStep, <1>1, HistoriesStep, PhoneTypes, PTL DEF Spec

(* In the instance of MCPlacement, where the mouse and the phone take      *)
(* turns, each behaves as it does alone: what is proved of one holds.      *)
LEMMA BothAreThere == PlacementSpec => Spec /\ PreviewSpec
<1>1. PlacementInit => Init /\ PreviewInit
  BY DEF PlacementInit
<1>2. [PlacementNext]_<<vars, previewVars>> => [Next]_vars /\ [PreviewNext]_previewVars
  BY DEF PlacementNext
<1> QED BY <1>1, <1>2, PTL DEF PlacementSpec, Spec, PreviewSpec

(* The types of all that places items on the canvas (PlacementTypes): of   *)
(* the mouse messages, the host's requests and the turns of a phone.       *)
THEOREM PlacementTypesHold == PlacementSpec => []PlacementTypes
BY BothAreThere, PreviewTypesHold, ScalesStayPositive, PTL DEF PlacementTypes
=============================================================================
