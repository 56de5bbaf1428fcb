------------------------------ MODULE Windows ------------------------------
(***************************************************************************)
(* The window stack of compositor/state.rs and what follows from it: the    *)
(* keyboard focus, the size and the scale each window has been told, and     *)
(* the title and favicon of the topmost window, which the render loop        *)
(* forwards to the pages.                                                    *)
(*                                                                          *)
(* Every request of an application is handled by the render loop's thread,   *)
(* in any order the applications choose; the loop forwards between them.     *)
(* A surface may lose its toplevel role and take it again, as in Wayland.    *)
(***************************************************************************)
EXTENDS Naturals, Sequences, SequencesExt, FiniteSets

CONSTANTS
  Surfaces,   \* the wl_surfaces of the applications
  Titles,     \* what a window may be called; "" until it says
  Icons,      \* readable xdg_toplevel_icon images
  NoIcon,     \* no icon, or one of which no buffer can be read
  Sizes,      \* output sizes a page may ask for
  Scales,     \* device pixel ratios a page may ask for; 1 at the start
  Gl          \* is the GL backend active (dmabuf_renderer is Some)?

Nothing == "nothing"
Untitled == ""

ASSUME WindowsOK ==
  /\ Nothing \notin Surfaces
  /\ NoIcon \notin Icons
  /\ Sizes \subseteq Nat \ {0} /\ Sizes # {}
  /\ 1 \in Scales /\ Scales \subseteq Nat \ {0}
  /\ Gl \in BOOLEAN

VARIABLES
  \* space, width and height, preferred_scale, kicked_toplevels
  stack, size, scale, kicked,
  \* The client side of each surface: what it called its window, the icon it
  \* has set and committed, whether it has committed since it became a window.
  title, pendingIcon, icon, committed,
  \* The size of the last configure and the last preferred_scale it was sent,
  \* 0 when there was none.
  configured, told,
  \* Surfaces that have had a scale object while they were no window (history).
  offstage,
  \* keyboard focus, current_title with current_favicon, icon_dirty_surface,
  \* app_meta_dirty, the value of the app_meta channel
  keyboardFocus, current, iconDirty, metaDirty, appMeta

stackVars  == <<stack, size, scale, kicked, keyboardFocus>>
clientVars == <<title, pendingIcon, icon, committed, configured, told, offstage>>
metaVars   == <<current, iconDirty, metaDirty, appMeta>>
windowVars == <<stackVars, clientVars, metaVars>>

AppMetas == [title : Titles \cup {Untitled}, icon : Icons \cup {NoIcon}]
NoMeta == [title |-> Untitled, icon |-> NoIcon]

Mapped == ToSet(stack)
Topmost(s) == IF s = << >> THEN Nothing ELSE Last(s)
Top == Topmost(stack)

EffectiveScale(s) == IF Gl THEN s ELSE 1

WindowsInit ==
  /\ stack = << >> /\ size \in Sizes /\ scale = 1 /\ kicked = {}
  /\ title = [w \in Surfaces |-> Untitled]
  /\ pendingIcon = [w \in Surfaces |-> NoIcon]
  /\ icon = [w \in Surfaces |-> NoIcon]
  /\ committed = [w \in Surfaces |-> FALSE]
  /\ configured = [w \in Surfaces |-> 0]
  /\ told = [w \in Surfaces |-> 0]
  /\ offstage = {}
  /\ keyboardFocus = Nothing
  /\ current = NoMeta /\ iconDirty = Nothing /\ metaDirty = FALSE /\ appMeta = NoMeta

-----------------------------------------------------------------------------
\* refresh_app_meta for the stack s and the titles t: only the title (and the
\* app_id, which is like it) of the topmost window is read; the favicon is
\* left as it is.
RefreshAppMeta(s, t) ==
  LET named == IF s = << >> THEN Untitled ELSE t[Last(s)] IN
  /\ current' = [current EXCEPT !.title = named]
  /\ metaDirty' = (metaDirty \/ named # current.title)

\* update_keyboard_focus: the topmost window gets the keyboard.
UpdateKeyboardFocus(s, t) ==
  /\ keyboardFocus' = Topmost(s)
  /\ RefreshAppMeta(s, t)

\* unmap_elem: the first element that is the window goes.
Without(s, w) == RemoveAt(s, CHOOSE i \in 1..Len(s) : s[i] = w)

\* new_toplevel: mapped on top at once; the size is only staged.
NewToplevel(w) ==
  /\ w \notin Mapped
  /\ stack' = Append(stack, w)
  /\ title' = [title EXCEPT ![w] = Untitled]
  /\ committed' = [committed EXCEPT ![w] = FALSE]
  /\ configured' = [configured EXCEPT ![w] = 0]
  /\ UpdateKeyboardFocus(stack', title')
  /\ UNCHANGED <<size, scale, kicked, pendingIcon, icon, told, offstage, iconDirty, appMeta>>

\* A bug: the surface stays among the kicked ones.
DestroyedStaysKicked(w) ==
  /\ w \in Mapped
  /\ stack' = Without(stack, w)
  /\ UpdateKeyboardFocus(stack', title)
  /\ offstage' = IF told[w] = 0 THEN offstage ELSE offstage \cup {w}
  /\ UNCHANGED <<size, scale, kicked, title, pendingIcon, icon, committed, configured,
                 told, iconDirty, appMeta>>

\* A bug: the next window does not get the keyboard.
DestroyedKeepsFocus(w) ==
  /\ w \in Mapped
  /\ kicked' = kicked \ {w}
  /\ stack' = Without(stack, w)
  /\ offstage' = IF told[w] = 0 THEN offstage ELSE offstage \cup {w}
  /\ UNCHANGED <<size, scale, keyboardFocus, title, pendingIcon, icon, committed,
                 configured, told, metaVars>>

\* toplevel_destroyed, also when the application is gone.
ToplevelDestroyed(w) ==
  /\ w \in Mapped
  /\ kicked' = kicked \ {w}
  /\ stack' = Without(stack, w)
  /\ UpdateKeyboardFocus(stack', title)
  /\ offstage' = IF told[w] = 0 THEN offstage ELSE offstage \cup {w}
  /\ UNCHANGED <<size, scale, title, pendingIcon, icon, committed, configured, told,
                 iconDirty, appMeta>>

\* title_changed and app_id_changed, for any window.
TitleChanged(w, t) ==
  /\ w \in Mapped
  /\ title' = [title EXCEPT ![w] = t]
  /\ RefreshAppMeta(stack, title')
  /\ UNCHANGED <<stackVars, pendingIcon, icon, committed, configured, told, offstage,
                 iconDirty, appMeta>>

\* set_icon: the icon is double-buffered with the surface, and one slot
\* remembers which surface is to be read after its commit.
SetIcon(w, i) ==
  /\ w \in Mapped
  /\ pendingIcon' = [pendingIcon EXCEPT ![w] = i]
  /\ iconDirty' = w
  /\ UNCHANGED <<stackVars, title, icon, committed, configured, told, offstage,
                 current, metaDirty, appMeta>>

\* A bug: any window's icon is shown.
ExtractAnyIcon(w, image) ==
  /\ current' = [current EXCEPT !.icon = image]
  /\ metaDirty' = (metaDirty \/ image # current.icon)

\* extract_toplevel_icon, in the commit of w.
ExtractToplevelIcon(w, image) ==
  IF w = Top
  THEN /\ current' = [current EXCEPT !.icon = image]
       /\ metaDirty' = (metaDirty \/ image # current.icon)
  ELSE UNCHANGED <<current, metaDirty>>

\* configure_toplevel_fullscreen and send_configure for the windows ws.
Configure(ws, newSize) ==
  configured' = [w \in Surfaces |-> IF w \in ws THEN newSize ELSE configured[w]]

\* commit: reads a flagged icon; a window's first commit gets its configure.
Commit(w) ==
  /\ icon' = [icon EXCEPT ![w] = pendingIcon[w]]
  /\ committed' = [committed EXCEPT ![w] = TRUE]
  /\ IF iconDirty = w
     THEN iconDirty' = Nothing /\ ExtractToplevelIcon(w, icon'[w])
     ELSE UNCHANGED <<iconDirty, current, metaDirty>>
  /\ Configure(({w} \cap Mapped) \ kicked, size)
  /\ kicked' = kicked \cup ({w} \cap Mapped)
  /\ UNCHANGED <<stack, size, scale, keyboardFocus, title, pendingIcon, told, offstage,
                 appMeta>>

\* new_fractional_scale: the surface is told the scale of the moment.
NewFractionalScale(w) ==
  /\ told' = [told EXCEPT ![w] = EffectiveScale(scale)]
  /\ offstage' = IF w \in Mapped THEN offstage \ {w} ELSE offstage \cup {w}
  /\ UNCHANGED <<stackVars, title, pendingIcon, icon, committed, configured, metaVars>>

\* A bug: only the topmost window is told.
SetPreferredScaleOfTop(ws, s) ==
  /\ scale' = s
  /\ told' = IF s = scale \/ ws = {} \/ told[Top] = 0 THEN told
             ELSE [told EXCEPT ![Top] = EffectiveScale(s)]

\* set_preferred_scale: told again to the surfaces ws that have a scale object.
SetPreferredScale(ws, s) ==
  /\ scale' = s
  /\ told' = IF s = scale THEN told
             ELSE [w \in Surfaces |->
                     IF w \in ws /\ told[w] # 0 THEN EffectiveScale(s) ELSE told[w]]

\* A resize request that sanitize_resolution accepts: resize_output, then
\* set_preferred_scale.
Resize(newSize, s) ==
  /\ size' = newSize
  /\ Configure(Mapped, newSize)
  /\ SetPreferredScale(Mapped, s)
  /\ UNCHANGED <<stack, kicked, keyboardFocus, title, pendingIcon, icon, committed,
                 offstage, metaVars>>

\* take_app_meta_pending and the send on app_meta_tx.
ForwardAppMeta ==
  /\ metaDirty
  /\ metaDirty' = FALSE
  /\ appMeta' = current
  /\ UNCHANGED <<stackVars, clientVars, current, iconDirty>>

WindowRequest ==
  \/ \E w \in Surfaces : NewToplevel(w) \/ ToplevelDestroyed(w) \/ Commit(w)
                           \/ NewFractionalScale(w)
  \/ \E w \in Surfaces, t \in Titles : TitleChanged(w, t)
  \/ \E w \in Surfaces, i \in Icons \cup {NoIcon} : SetIcon(w, i)

WindowsNext ==
  \/ WindowRequest
  \/ \E n \in Sizes, s \in Scales : Resize(n, s)
  \/ ForwardAppMeta

WindowsSpec == WindowsInit /\ [][WindowsNext]_windowVars

-----------------------------------------------------------------------------
(***************************************************************************)
(* Properties.                                                              *)
(***************************************************************************)

\* Every variable has its type and no window is in the stack twice.
WindowsTypeOK ==
  /\ stack \in Seq(Surfaces)
  /\ \A i, j \in 1..Len(stack) : stack[i] = stack[j] => i = j
  /\ size \in Sizes /\ scale \in Scales
  /\ kicked \subseteq Mapped
  /\ title \in [Surfaces -> Titles \cup {Untitled}]
  /\ pendingIcon \in [Surfaces -> Icons \cup {NoIcon}]
  /\ icon \in [Surfaces -> Icons \cup {NoIcon}]
  /\ committed \in [Surfaces -> BOOLEAN]
  /\ configured \in [Surfaces -> Sizes \cup {0}]
  /\ told \in [Surfaces -> Scales \cup {0}]
  /\ offstage \subseteq Surfaces
  /\ keyboardFocus \in Surfaces \cup {Nothing}
  /\ current \in AppMetas /\ appMeta \in AppMetas
  /\ iconDirty \in Surfaces \cup {Nothing} /\ metaDirty \in BOOLEAN

\* What is typed goes to the window that is seen, and the page is headed by
\* its title, or a change is waiting to be forwarded: update_keyboard_focus
\* and refresh_app_meta run wherever the top of the stack may change.
TopHasFocus ==
  /\ keyboardFocus = Top
  /\ appMeta.title # (IF Top = Nothing THEN Untitled ELSE title[Top]) => metaDirty

\* A window that has committed has been asked to fill the output as it is
\* now, in whatever order it was created, destroyed, created again on the
\* same surface and the output resized: the second configure of commit and
\* the one of resize_output.
FillsOutput == \A w \in Mapped : committed[w] => configured[w] = size

\* A window knows the scale in force if its scale object was made while it
\* was mapped: new_fractional_scale and set_preferred_scale together.
ScaleKnown ==
  \A w \in Mapped \ offstage : told[w] # 0 => told[w] = EffectiveScale(scale)

\* Only the window on top may change the favicon, whichever surface was
\* flagged last and whenever it commits: extract_toplevel_icon.
OnlyTopSetsIcon ==
  [][current'.icon # current.icon => Top # Nothing /\ current'.icon = icon'[Top]]_windowVars

=============================================================================
