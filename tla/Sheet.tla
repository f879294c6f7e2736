------------------------------- MODULE Sheet -------------------------------
(***************************************************************************)
(* The sheets of harib27f (sheet.c): the stack of background, windows and   *)
(* mouse, map[], which remembers the sheet that shows at each pixel, and    *)
(* the video memory, which is painted in the smallest parts that the code   *)
(* believes it must; with what HariMain, consoles and applications do to    *)
(* them.                                                                    *)
(*                                                                          *)
(* The screen has one row: both directions are clipped alike.  Every call   *)
(* into sheet.c is one step.                                                *)
(***************************************************************************)
EXTENDS Integers, FiniteSets

CONSTANTS
    MAX_SHEETS,     \* 256
    XSize,          \* ctl->xsize
    Colors,         \* what windows are drawn with
    MouseImage,     \* buf_mouse; an image is a function on 0 .. bxsize-1
    WindowImages,   \* what windows show when they are opened
    Places          \* where windows are moved, in part beyond the left edge

CLEAR == -1         \* a pixel of colour col_inv
NO_IMAGE == [x \in {} |-> CLEAR]

ASSUME SheetAssumption ==
    /\ MAX_SHEETS \in Nat /\ MAX_SHEETS >= 3
    /\ XSize \in Nat \ {0}
    /\ Colors \subseteq Nat
    /\ Places \subseteq Int
    /\ \A image \in WindowImages \cup {MouseImage} : image \in [DOMAIN image -> Int]

VARIABLES
    stack,      \* top and sheets[] of SHTCTL, and the height of each sheet
    sheet,      \* of each sheet: flags (only whether it is in use), vx0, buf
    map, vram,
    booted      \* how many sheets HariMain has put up

vars == <<stack, sheet, map, vram, booted>>

Sids == 0 .. (MAX_SHEETS - 1)
Pixels == 0 .. (XSize - 1)
SHT_BACK == 0       \* in the order HariMain allocates them
CONSOLE == 1
SHT_MOUSE == 2
Windows == Sids \ {SHT_BACK, SHT_MOUSE}

-----------------------------------------------------------------------------
(* Painting *)

\* The pixels of a sheet on the screen, and the ones it does not let through.
Area(s) == {p \in Pixels : p - s.vx0 \in DOMAIN s.buf}
Opaque(s) == {p \in Area(s) : s.buf[p - s.vx0] # CLEAR}

\* mutant: starts above the given height
RefreshmapAbove(st, sh, m, area, h0) ==
    [p \in Pixels |->
        LET here == {h \in (h0 + 1) .. st.top : p \in Opaque(sh[st.sheets[h]])}
        IN  IF p \in area /\ here # {}
            THEN st.sheets[CHOOSE h \in here : \A k \in here : k <= h]
            ELSE m[p]]

\* sheet_refreshmap: paints sheet numbers, from height h0 to the top.
Refreshmap(st, sh, m, area, h0) ==
    [p \in Pixels |->
        LET here == {h \in h0 .. st.top : p \in Opaque(sh[st.sheets[h]])}
        IN  IF p \in area /\ here # {}
            THEN st.sheets[CHOOSE h \in here : \A k \in here : k <= h]
            ELSE m[p]]

\* sheet_refreshsub: copies what the map gives to the sheets from h0 to h1.
Refreshsub(st, sh, m, v, area, h0, h1) ==
    [p \in Pixels |->
        LET s == sh[m[p]] IN
        IF /\ p \in area \cap Area(s)
           /\ \E h \in h0 .. h1 : st.sheets[h] = m[p]
        THEN s.buf[p - s.vx0]
        ELSE v[p]]

-----------------------------------------------------------------------------
(* sheet_updown *)

Clipped(height) ==
    IF height > stack.top + 1 THEN stack.top + 1
    ELSE IF height < -1 THEN -1 ELSE height

\* The sheets at heights hs change place with their neighbours at distance d.
Shift(hs, d) ==
    [stack EXCEPT
        !.sheets = [h \in Sids |-> IF h \in hs THEN @[h + d] ELSE @[h]],
        !.height = [s \in Sids |->
            IF \E h \in hs : stack.sheets[h + d] = s
            THEN CHOOSE h \in hs : stack.sheets[h + d] = s
            ELSE @[s]]]

Put(st, s, h) == [st EXCEPT !.sheets[h] = s, !.height[s] = h]

Repaint(st, s, low, h0, h1) ==
    /\ stack' = st
    /\ map' = Refreshmap(st, sheet', map, Area(sheet'[s]), low)
    /\ vram' = Refreshsub(st, sheet', map', vram, Area(sheet'[s]), h0, h1)

Lower(s, h) ==
    LET old == stack.height[s] IN
    /\ old > h /\ h >= 0
    /\ Repaint(Put(Shift((h + 1) .. old, -1), s, h), s, h + 1, h + 1, old)

Unstack(s) ==
    LET old == stack.height[s] IN
    Repaint([Shift(old .. (stack.top - 1), 1) EXCEPT !.height[s] = -1, !.top = @ - 1],
            s, 0, 0, old - 1)

Hide(s, h) == stack.height[s] > h /\ h = -1 /\ Unstack(s)

\* mutant: the sheet below the new height is not pushed down
RaiseShort(s, h) ==
    LET old == stack.height[s] IN
    /\ 0 <= old /\ old < h
    /\ Repaint(Put(Shift(old .. (h - 2), 1), s, h), s, h, h, h)

Raise(s, h) ==
    LET old == stack.height[s] IN
    /\ 0 <= old /\ old < h
    /\ Repaint(Put(Shift(old .. (h - 1), 1), s, h), s, h, h, h)

Show(s, h) ==
    /\ stack.height[s] = -1 /\ h >= 0
    /\ Repaint([Put(Shift((h + 1) .. (stack.top + 1), -1), s, h) EXCEPT !.top = @ + 1], s, h, h, h)

SheetUpdown(s, height) ==
    LET h == Clipped(height) IN
    \/ Lower(s, h) \/ Hide(s, h) \/ Raise(s, h) \/ Show(s, h)
    \/ stack.height[s] = h /\ UNCHANGED <<stack, map, vram>>

\* mutant: what the sheet covered is not painted again
SheetSlideTrail(s, x) ==
    LET h == stack.height[s]
        old == Area(sheet[s])
        new == Area(sheet'[s])
    IN  /\ sheet' = [sheet EXCEPT ![s].vx0 = x]
        /\ IF h = -1 THEN UNCHANGED <<map, vram>>
           ELSE /\ map' = Refreshmap(stack, sheet', Refreshmap(stack, sheet', map, old, 0), new, h)
                /\ vram' = Refreshsub(stack, sheet', map', vram, new, h, h)
        /\ UNCHANGED stack

SheetSlide(s, x) ==
    LET h == stack.height[s]
        old == Area(sheet[s])
        new == Area(sheet'[s])
    IN  /\ sheet' = [sheet EXCEPT ![s].vx0 = x]
        /\ IF h = -1 THEN UNCHANGED <<map, vram>>
           ELSE /\ map' = Refreshmap(stack, sheet', Refreshmap(stack, sheet', map, old, 0), new, h)
                /\ vram' = Refreshsub(stack, sheet', map',
                               Refreshsub(stack, sheet', map', vram, old, 0, h - 1), new, h, h)
        /\ UNCHANGED stack

\* sheet_refresh of the pixel x of a sheet.
SheetRefresh(s, x) ==
    LET h == stack.height[s] IN
    /\ vram' = IF h = -1 THEN vram
               ELSE Refreshsub(stack, sheet', map, vram, {sheet'[s].vx0 + x}, h, h)
    /\ UNCHANGED <<stack, map>>

\* mutant: a sheet that is hidden already is taken from the stack again
SheetFreeAgain(s) ==
    /\ sheet' = [sheet EXCEPT ![s].used = FALSE]
    /\ Unstack(s)

SheetFree(s) ==
    /\ sheet' = [sheet EXCEPT ![s].used = FALSE]
    /\ IF stack.height[s] = -1 THEN UNCHANGED <<stack, map, vram>> ELSE SheetUpdown(s, -1)

-----------------------------------------------------------------------------
(* HariMain, consoles and applications *)

\* Background, a console and the mouse are allocated, and in place, but not yet
\* shown.  What map[] and the video memory hold does not matter: the background
\* goes over all of it.
Init ==
    /\ stack = [top |-> -1, sheets |-> [h \in Sids |-> SHT_BACK], height |-> [s \in Sids |-> -1]]
    /\ \E image \in WindowImages, w, m \in Pixels :
          /\ \A x \in DOMAIN image : image[x] # CLEAR
          /\ sheet = [s \in Sids |->
                 CASE s = SHT_BACK -> [used |-> TRUE, vx0 |-> 0, buf |-> [x \in Pixels |-> 0]]
                   [] s = CONSOLE -> [used |-> TRUE, vx0 |-> w, buf |-> image]
                   [] s = SHT_MOUSE -> [used |-> TRUE, vx0 |-> m, buf |-> MouseImage]
                   [] OTHER -> [used |-> FALSE, vx0 |-> 0, buf |-> NO_IMAGE]]
    /\ map = [p \in Pixels |-> SHT_MOUSE]
    /\ vram = [p \in Pixels |-> CLEAR]
    /\ booted = 0

Boot ==
    /\ booted <= SHT_MOUSE
    /\ UNCHANGED sheet
    /\ SheetUpdown(booted, booted)
    /\ booted' = booted + 1

Ready == booted > SHT_MOUSE /\ UNCHANGED booted

MoveMouse(x) == Ready /\ x \in Pixels /\ SheetSlide(SHT_MOUSE, x)

\* The sheet that was clicked may be gone when the drag ends.
DragWindow(s, x) ==
    /\ Ready
    /\ s \in Windows /\ sheet[s].buf # NO_IMAGE
    /\ SheetSlide(s, x)

\* The uppermost sheet below the top one at the pixel that was clicked comes up.
Hit(p, h) ==
    /\ 0 < h /\ h < stack.top
    /\ p \in Opaque(sheet[stack.sheets[h]])
    /\ \A k \in (h + 1) .. (stack.top - 1) : p \notin Opaque(sheet[stack.sheets[k]])

Click(p) ==
    /\ Ready /\ UNCHANGED sheet
    /\ \E h \in Sids : Hit(p, h) /\ SheetUpdown(stack.sheets[h], stack.top - 1)

\* The close button of a console, which a click has brought to the top.  Windows
\* of applications, which are broken instead, are not told apart.
CloseButton(s) ==
    /\ Ready /\ UNCHANGED sheet
    /\ s \in Windows /\ stack.height[s] = stack.top - 1 /\ stack.top > 1
    /\ SheetUpdown(s, -1)

F11 ==
    /\ Ready /\ UNCHANGED sheet
    /\ SheetUpdown(stack.sheets[1], stack.top - 1)

\* A new console, or api_openwin: sheet_alloc, sheet_setbuf, sheet_slide,
\* sheet_updown.  The height -1 that sheet_alloc writes is there already.
OpenWindow(image, x) ==
    /\ Ready
    /\ \E s \in Sids :
          /\ ~sheet[s].used /\ \A t \in 0 .. (s - 1) : sheet[t].used
          /\ sheet' = [sheet EXCEPT ![s] = [used |-> TRUE, vx0 |-> x, buf |-> image]]
          /\ SheetUpdown(s, stack.top)

CloseWindow(s) == Ready /\ s \in Windows /\ sheet[s].used /\ SheetFree(s)

\* Drawing, followed by sheet_refresh.  Nobody draws over col_inv.  Colors leaves it
\* out too, and with it the application notrec, which draws in it.
Draw(s, x, color) ==
    /\ Ready
    /\ s \in Windows /\ sheet[s].used
    /\ x \in DOMAIN sheet[s].buf /\ sheet[s].buf[x] # CLEAR
    /\ sheet' = [sheet EXCEPT ![s].buf[x] = color]
    /\ SheetRefresh(s, x)

Next ==
    \/ Boot \/ F11
    \/ \E p \in Pixels : MoveMouse(p) \/ Click(p)
    \/ \E s \in Sids : CloseButton(s) \/ CloseWindow(s)
    \/ \E s \in Sids, x \in Places : DragWindow(s, x)
    \/ \E image \in WindowImages, x \in Places : OpenWindow(image, x)
    \/ \E s \in Sids, x \in Pixels, color \in Colors : Draw(s, x, color)

Spec == Init /\ [][Next]_vars

-----------------------------------------------------------------------------
(* Properties *)

Paints(image) == Colors \cup {image[x] : x \in DOMAIN image}
Images == [Pixels -> {0}] \cup {MouseImage, NO_IMAGE}
             \cup UNION {[DOMAIN image -> Paints(image)] : image \in WindowImages}

\* The variables keep their types.
TypeOK ==
    /\ stack \in [top : -1 .. (MAX_SHEETS - 1), sheets : [Sids -> Sids],
                  height : [Sids -> -1 .. (MAX_SHEETS - 1)]]
    /\ sheet \in [Sids -> [used : BOOLEAN, vx0 : Int, buf : Images]]
    /\ map \in [Pixels -> Sids]
    /\ vram \in [Pixels -> {0, CLEAR} \cup UNION {Paints(image) : image \in WindowImages \cup {MouseImage}}]
    /\ booted \in 0 .. 3

\* The stack and the heights in the sheets agree, whatever comes up, goes down,
\* appears or vanishes: each sheet is in the stack once, at its height, or not
\* at all, and nothing in the stack has been given back.
StackSound ==
    /\ \A h \in 0 .. stack.top : stack.height[stack.sheets[h]] = h
    /\ \A s \in Sids : stack.height[s] # -1 =>
          stack.height[s] <= stack.top /\ stack.sheets[stack.height[s]] = s /\ sheet[s].used

\* The heights at which a sheet shows something at a pixel.
Covering(p) == {h \in 0 .. stack.top : p \in Opaque(sheet[stack.sheets[h]])}

\* map[] names the uppermost sheet at each pixel, though it is brought up to
\* date only where and from where up a change is thought to matter.
MapCurrent ==
    booted > 0 => \A p \in Pixels : \A h \in Covering(p) :
        (\A k \in Covering(p) : k <= h) => map[p] = stack.sheets[h]

\* The arrays, the heights and the three partial repaints do what a stack of pictures
\* does: a call moves no sheet but its own against the others, and after each the
\* screen shows the uppermost sheet everywhere: nothing is left behind by what moved
\* away, and nothing drawn below shows through.
Pictures == INSTANCE Layers WITH
    Layer <- Sids, Pixel <- Pixels, Clear <- CLEAR,
    order <- [k \in 1 .. (stack.top + 1) |-> stack.sheets[k - 1]],
    picture <- [s \in Sids |->
        [p \in Pixels |-> IF p \in Area(sheet[s]) THEN sheet[s].buf[p - sheet[s].vx0] ELSE CLEAR]],
    screen <- vram

LayersSpec == Pictures!Spec

\* The comment at console.c:453: a sheet put at the height of the mouse has the
\* mouse above it.
MouseAbove == booted > SHT_MOUSE => \A s \in Windows : stack.height[s] < stack.height[SHT_MOUSE]
=============================================================================
