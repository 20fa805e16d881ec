---------------------------- MODULE PhoneCasting ----------------------------
(***************************************************************************)
(* The layout of a mirrored phone: OnPhoneCastingDirChange, which a thread *)
(* of the casting plugin calls when the phone is turned, against the       *)
(* removal of its item by the pool worker and the edits of the host and    *)
(* the mouse.                                                              *)
(*                                                                         *)
(* The code remembers four fields of the last layout outside the item.     *)
(* Lengths are whole quarters of a pixel and scales whole halves, and      *)
(* ExactAssumption lets the turns divide without a rest.  Left out: crop   *)
(* and rotation, which a layout clears or ignores; a scale that differs    *)
(* between the axes, which only the mouse makes; bounds, which no turn     *)
(* changes; a change of the canvas (VideoSettings).  The four fields have  *)
(* no lock; each use of them is taken whole.                               *)
(***************************************************************************)
EXTENDS Integers

CONSTANTS
  CanvasCX, CanvasCY,   \* base_window_size_, and canvas_size_
  PhoneCX, PhoneCY,     \* the upright phone's picture
  Places                \* where the mouse drops the item

ASSUME SizeAssumption == {CanvasCX, CanvasCY, PhoneCX, PhoneCY} \subseteq Nat \ {0}
ASSUME PlaceAssumption == Places \subseteq Int \X Int
(* No fit is less than the smallest scale there is here.                   *)
ASSUME FitAssumption ==
  \A length \in {PhoneCX, PhoneCY}, edge \in {CanvasCX, CanvasCY} : length <= 2 * edge

Infinite == -1          \* a quotient by zero
Default == "default"    \* INT_MAX: the phone's picture is gone
Dirs == {"portrait", "landscape", Default}

(* Transforms that are no longer numbers, and stretched items.             *)
Nowhere == [kind |-> "nowhere"]
Stretched == [kind |-> "stretched"]
At(scale, x, y) == [kind |-> "at", scale |-> scale, x |-> x, y |-> y]

VARIABLES
  present,              \* the scene has an item of the phone
  base,                 \* the source's size
  info,                 \* the item's transform
  phone_source_init_, last_scale_, last_phone_,
  plugin,               \* the callback: the direction, the transform read and to write
  heard,    \* history: the last direction the item heard of, if any
  laidOut,  \* history: nobody else has placed the item since it was laid out
  excuse    \* history: what spoiled the fields since they were last filled

fields == <<phone_source_init_, last_scale_, last_phone_>>
vars == <<present, base, info, fields, plugin, heard, laidOut, excuse>>

NoPicture == <<0, 0>>
SizeOf(dir) == IF dir = "landscape" THEN <<PhoneCY, PhoneCX>> ELSE <<PhoneCX, PhoneCY>>
Sizes == {NoPicture, <<PhoneCX, PhoneCY>>, <<PhoneCY, PhoneCX>>}
Upright(dir) == dir # "landscape"

Quotient(n, d) == IF d = 0 THEN Infinite ELSE (2 * n) \div d
Smaller(a, b) == IF a < b THEN a ELSE b
HalfOf(length, scale) == length * scale

Fit(dir, size) ==
  IF Upright(dir) THEN Quotient(CanvasCY, size[2])
  ELSE Smaller(Quotient(CanvasCX, size[1]), Quotient(CanvasCY, size[2]))

(* The scales of the host, of a layout and of the full screen, and those   *)
(* of the turns: the turn of an item that has one of the first is exact.   *)
Turns == {Fit(dir, SizeOf(dir)) : dir \in Dirs}
FirstScales == {2} \cup Turns \cup {Fit("landscape", size) : size \in Sizes \ {NoPicture}}
ASSUME ExactAssumption ==
  \A scale \in FirstScales, last, fit \in Turns : (scale * fit) % last = 0

(* Centred in the canvas; a stretched item keeps its mode.                 *)
Centred(scale, size) ==
  At(scale, 2 * CanvasCX - HalfOf(size[1], scale), 2 * CanvasCY - HalfOf(size[2], scale))

Layout(dir, size, old) ==
  IF old = Stretched THEN Stretched ELSE Centred(Fit(dir, size), size)

Idle == [at |-> "idle"]

Init ==
  /\ present = FALSE /\ base = NoPicture
  /\ info = At(2, 0, 0)
  /\ phone_source_init_ = FALSE /\ last_scale_ = 0 /\ last_phone_ = NoPicture
  /\ plugin = Idle
  /\ heard = "none" /\ laidOut = FALSE /\ excuse = {}

-----------------------------------------------------------------------------
(* The plugin's thread.                                                    *)

(* The phone is turned: the source has its new size when the callback runs *)
(* and finds the item, or has no picture yet.  Without an item it returns. *)
DirChange(dir) ==
  /\ plugin = Idle /\ present
  /\ base' \in {SizeOf(dir)} \cup (IF base = NoPicture THEN {NoPicture} ELSE {})
  /\ plugin' = [at |-> "compute", dir |-> dir, base |-> base', was |-> base,
               read |-> info, new |-> info, layout |-> FALSE, gone |-> FALSE]
  /\ UNCHANGED <<present, info, fields, heard, laidOut, excuse>>

Computing == plugin.at = "compute"
First == ~phone_source_init_ \/ plugin.dir = Default
Write(new, layout) ==
  plugin' = [plugin EXCEPT !.at = "write", !.new = new, !.layout = layout]

(* The first direction, or the default picture, lays the item out; without *)
(* a picture nothing is laid out or remembered but that it happened.       *)
FirstDirection ==
  /\ Computing /\ First
  /\ phone_source_init_' = (plugin.dir # Default)
  /\ IF plugin.base # NoPicture
     THEN /\ last_scale_' = Fit(plugin.dir, plugin.base) /\ last_phone_' = plugin.base
          /\ Write(Layout(plugin.dir, plugin.base, plugin.read), TRUE)
          /\ excuse' = IF plugin.gone THEN excuse \cup {"straddled"} ELSE {}
     ELSE /\ Write(plugin.read, FALSE)
          /\ excuse' = excuse \cup {"blind"} \cup IF plugin.gone THEN {"straddled"} ELSE {}
          /\ UNCHANGED <<last_scale_, last_phone_>>
  /\ UNCHANGED <<present, base, info, heard, laidOut>>

(* The item keeps its centre and is scaled by the change of the fit.       *)
Turned(fit) ==
  LET old == plugin.read
      scale == (old.scale * fit) \div last_scale_
  IN  At(scale,
         old.x + HalfOf(last_phone_[1], old.scale) - HalfOf(plugin.base[1], scale),
         old.y + HalfOf(last_phone_[2], old.scale) - HalfOf(plugin.base[2], scale))

(* A turn divides by the last fit, or by the new one.                      *)
TurnedOrLost(fit) ==
  IF plugin.read = Nowhere \/ {last_scale_, fit} \cap {0, Infinite} # {} THEN Nowhere
  ELSE Turned(fit)

(* Only the turn upright looks at last_scale_ first.                       *)
Untouched == plugin.read = Stretched \/ (Upright(plugin.dir) /\ last_scale_ = 0)

KeepItem ==
  /\ Computing /\ ~First /\ Untouched
  /\ Write(plugin.read, FALSE)
  /\ excuse' = excuse \cup IF plugin.read = Stretched THEN {"stretched"} ELSE {}
  /\ UNCHANGED <<present, base, info, fields, heard, laidOut>>

(* Mutant of TurnItem: the scale of the first layout is kept.              *)
TurnFromFirst ==
  /\ Computing /\ ~First /\ ~Untouched
  /\ Write(TurnedOrLost(Fit(plugin.dir, plugin.base)), FALSE)
  /\ last_phone_' = plugin.base
  /\ UNCHANGED <<present, base, info, phone_source_init_, last_scale_, heard, laidOut, excuse>>

(* Mutant of TurnItem: the size of the first layout is kept.               *)
TurnFirstSize ==
  /\ Computing /\ ~First /\ ~Untouched
  /\ Write(TurnedOrLost(Fit(plugin.dir, plugin.base)), FALSE)
  /\ last_scale_' = Fit(plugin.dir, plugin.base)
  /\ UNCHANGED <<present, base, info, phone_source_init_, last_phone_, heard, laidOut, excuse>>

TurnItem ==
  /\ Computing /\ ~First /\ ~Untouched
  /\ Write(TurnedOrLost(Fit(plugin.dir, plugin.base)), FALSE)
  /\ last_scale_' = Fit(plugin.dir, plugin.base) /\ last_phone_' = plugin.base
  /\ UNCHANGED <<present, base, info, phone_source_init_, heard, laidOut, excuse>>

(* obs_sceneitem_set_info: an edit made since the transform was read is    *)
(* undone.                                                                 *)
SetInfo ==
  /\ plugin.at = "write"
  /\ plugin' = Idle
  /\ IF plugin.gone THEN UNCHANGED <<info, heard, laidOut>>
     ELSE /\ info' = plugin.new
          /\ heard' = plugin.dir
          /\ laidOut' = (laidOut \/ plugin.layout)
  /\ UNCHANGED <<present, base, fields, excuse>>

-----------------------------------------------------------------------------
(* The UI thread.                                                          *)

(* AddPhoneCastingSourceData.                                              *)
AddPhone ==
  /\ ~present /\ present' = TRUE
  /\ info' = At(2, 0, 0) /\ base' = NoPicture
  /\ heard' = "none" /\ laidOut' = FALSE
  /\ UNCHANGED <<fields, plugin, excuse>>

Place(new) ==
  /\ present
  /\ info' = new /\ laidOut' = FALSE
  /\ UNCHANGED <<present, base, fields, plugin, heard, excuse>>

(* The mouse drops it.                                                     *)
MoveItem == info.kind = "at" /\ \E p \in Places : Place(At(info.scale, p[1], p[2]))

-----------------------------------------------------------------------------
(* The pool worker.                                                        *)

ResetItem == Place(At(2, 0, 0))

(* Full, with the scale or by stretching.                                  *)
SetSceneItemFullScreen ==
  /\ base # NoPicture
  /\ \/ Place(Centred(Fit("landscape", base), base))
     \/ Place(Stretched)

(* Mutant of RemoveItem: that there was a first direction is not forgotten. *)
RemoveForgetSizes ==
  /\ present /\ present' = FALSE
  /\ plugin' = IF plugin = Idle THEN Idle ELSE [plugin EXCEPT !.gone = TRUE]
  /\ last_scale_' = 0 /\ last_phone_' = NoPicture
  /\ excuse' = {}
  /\ UNCHANGED <<base, info, phone_source_init_, heard, laidOut>>

(* obs_sceneitem_remove, whose signal calls OnPhoneCastingDelete: under the *)
(* scene's lock, which the callback gave back when it had found the item.  *)
RemoveItem ==
  /\ present /\ present' = FALSE
  /\ plugin' = IF plugin = Idle THEN Idle ELSE [plugin EXCEPT !.gone = TRUE]
  /\ phone_source_init_' = FALSE /\ last_scale_' = 0 /\ last_phone_' = NoPicture
  /\ excuse' = {}
  /\ UNCHANGED <<base, info, heard, laidOut>>

Next ==
  \/ \E dir \in Dirs : DirChange(dir)
  \/ FirstDirection \/ KeepItem \/ TurnItem \/ SetInfo
  \/ AddPhone \/ MoveItem
  \/ ResetItem \/ SetSceneItemFullScreen \/ RemoveItem

Spec == Init /\ [][Next]_vars

-----------------------------------------------------------------------------
(* What must hold.                                                         *)

(* A transform that can be drawn, or one of the two that are told apart.   *)
IsTransform(t) ==
  \/ t \in {Nowhere, Stretched}
  \/ t.kind = "at" /\ t.scale \in Nat \ {0} /\ {t.x, t.y} \subseteq Int

TypeOK ==
  /\ {present, phone_source_init_, laidOut} \subseteq BOOLEAN
  /\ {base, last_phone_} \subseteq Sizes
  /\ IsTransform(info)
  /\ last_scale_ \in Nat \cup {Infinite}
  /\ plugin # Idle =>
       /\ plugin.at \in {"compute", "write"} /\ plugin.dir \in Dirs
       /\ {plugin.layout, plugin.gone} \subseteq BOOLEAN /\ {plugin.base, plugin.was} \subseteq Sizes
       /\ IsTransform(plugin.read) /\ IsTransform(plugin.new)
  /\ heard \in Dirs \cup {"none"}
  /\ excuse \subseteq {"blind", "straddled", "stretched"}

(* A new item is not taken for the one before: its first direction lays it *)
(* out, unless a direction straddled the removal (OnPhoneCastingDelete).   *)
NewItemIsNew ==
  plugin = Idle /\ present /\ heard = "none" /\ "straddled" \notin excuse =>
    ~phone_source_init_

(* After its layout and any number of turns the item, if nobody else       *)
(* placed it, stands where a layout for the present direction puts it: the *)
(* turns add no error and need no memory but the four fields.              *)
FitsCanvas ==
  present /\ plugin = Idle /\ laidOut /\ excuse = {} =>
    info = Layout(heard, base, info)

CentreOf(t, size) == <<t.x + HalfOf(size[1], t.scale), t.y + HalfOf(size[2], t.scale)>>
Computed == plugin.at = "compute" /\ plugin'.at = "write"

(* A turn leaves the centre of the item where it was, wherever the user    *)
(* had put it.                                                             *)
TurnKeepsCentre ==
  [][Computed /\ ~First /\ excuse = {} /\ plugin.read.kind = "at" =>
       CentreOf(plugin'.new, plugin.base) = CentreOf(plugin.read, plugin.was)]_vars

(* No turn divides by zero and loses the item, unless the first direction  *)
(* came before the first picture or straddled a removal.                   *)
LostNeedsExcuse ==
  [][Computed /\ plugin.read # Nowhere /\ excuse \subseteq {"stretched"} =>
       plugin'.new # Nowhere]_vars

(* A turn keeps the item: in its place, and at all.                        *)
TurnKeepsItem == TurnKeepsCentre /\ LostNeedsExcuse
=============================================================================
