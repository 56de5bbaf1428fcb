---------------------------- MODULE WindowsProofs ----------------------------
(***************************************************************************)
(* The window stack, for any number of surfaces, sizes and scales; and the   *)
(* input above it, for any fingers, keys, buttons and queues.                *)
(*                                                                          *)
(* TopHasFocus, FillsOutput and ScaleKnown are not inductive.  What they     *)
(* need is that the state says what it was when a surface was no window: a    *)
(* kicked window has committed, a surface with a scale object that is no      *)
(* window is offstage, and the title kept for the page is that of the top.   *)
(* Of the input: whatever is down, or will be when the messages on their way   *)
(* arrive, though the user has let it go, has its release behind it.          *)
(***************************************************************************)
EXTENDS SeatInput, FiniteSetTheorems, TLAPS

\* The title the page should show.
TopTitle == IF Top = Nothing THEN Untitled ELSE title[Top]

\* The keyboard and the title follow the top, and a page that shows another
\* title will be told.
TitleKept ==
  /\ keyboardFocus = Top
  /\ current.title = TopTitle
  /\ current.title # appMeta.title => metaDirty

\* A window that is kicked has committed, with the size in force since.
SizesKept == FillsOutput /\ \A w \in kicked : committed[w]

\* A scale object that was made for a surface without a window is offstage.
ScalesKept == ScaleKnown /\ \A w \in Surfaces \ Mapped : told[w] # 0 => w \in offstage

WindowsInv == WindowsTypeOK /\ TitleKept /\ SizesKept /\ ScalesKept

(***************************************************************************)
(* The stack as a sequence without repetitions.                             *)
(***************************************************************************)

NoRepeats(s) == \A i, j \in 1..Len(s) : s[i] = s[j] => i = j

LEMMA TopOfStack ==
  ASSUME NEW s \in Seq(Surfaces)
  PROVE  /\ s = << >> => Topmost(s) = Nothing
         /\ s # << >> => Topmost(s) = Last(s) /\ Last(s) \in ToSet(s) /\ Topmost(s) # Nothing
         /\ ToSet(s) \subseteq Surfaces
         /\ Topmost(s) \in Surfaces \cup {Nothing}
<1>1. ToSet(s) \subseteq Surfaces
  BY DEF ToSet
<1>2. s # << >> => Last(s) \in ToSet(s)
  BY DEF ToSet, Last
<1> QED
  BY <1>1, <1>2, WindowsOK DEF Topmost

\* A window that is added is on top, and the others stay.
LEMMA AppendWindow ==
  ASSUME NEW s \in Seq(Surfaces), NoRepeats(s), NEW w \in Surfaces, w \notin ToSet(s)
  PROVE  /\ Append(s, w) \in Seq(Surfaces) /\ NoRepeats(Append(s, w))
         /\ ToSet(Append(s, w)) = ToSet(s) \cup {w}
<1> DEFINE t == Append(s, w)
<1>1. /\ t \in Seq(Surfaces) /\ Len(t) = Len(s) + 1
      /\ \A i \in 1..Len(t) : t[i] = IF i <= Len(s) THEN s[i] ELSE w
  OBVIOUS
<1>2. \A i \in 1..Len(s) : s[i] # w
  BY DEF ToSet
<1>3. NoRepeats(t)
  BY <1>1, <1>2 DEF NoRepeats
<1>4. ToSet(t) = ToSet(s) \cup {w}
  <2>1. \A x \in ToSet(t) : x \in ToSet(s) \cup {w}
    BY <1>1 DEF ToSet
  <2>2. \A i \in 1..Len(s) : s[i] \in ToSet(t)
    BY <1>1 DEF ToSet
  <2>3. w \in ToSet(t)
    <3>1. t[Len(t)] = w /\ Len(t) \in 1..Len(t)
      BY <1>1
    <3> QED BY <3>1, <1>1 DEF ToSet
  <2> QED
    BY <2>1, <2>2, <2>3 DEF ToSet
<1> QED
  BY <1>1, <1>3, <1>4

\* What RemoveAt returns, element by element.
LEMMA RemoveAtIndex ==
  ASSUME NEW s \in Seq(Surfaces), NEW k \in 1..Len(s)
  PROVE  /\ RemoveAt(s, k) \in Seq(Surfaces) /\ Len(RemoveAt(s, k)) = Len(s) - 1
         /\ \A i \in 1..(Len(s) - 1) :
              RemoveAt(s, k)[i] = IF i < k THEN s[i] ELSE s[i + 1]
<1> DEFINE a == SubSeq(s, 1, k - 1)
           b == SubSeq(s, k + 1, Len(s))
<1>1. a \in Seq(Surfaces) /\ Len(a) = k - 1 /\ \A i \in 1..(k - 1) : a[i] = s[i]
  OBVIOUS
<1>2. /\ b \in Seq(Surfaces) /\ Len(b) = Len(s) - k
      /\ \A i \in 1..(Len(s) - k) : b[i] = s[k + i]
  OBVIOUS
<1>3. RemoveAt(s, k) = a \o b
  BY DEF RemoveAt
<1> HIDE DEF a, b
<1>4. /\ a \o b \in Seq(Surfaces) /\ Len(a \o b) = Len(s) - 1
      /\ \A i \in 1..(Len(s) - 1) :
           (a \o b)[i] = IF i < k THEN a[i] ELSE b[i - (k - 1)]
  <2>1. a \in Seq(Surfaces) /\ b \in Seq(Surfaces)
    BY <1>1, <1>2
  <2>2. /\ Len(a \o b) = Len(a) + Len(b) /\ a \o b \in Seq(Surfaces)
        /\ \A i \in 1..(Len(a) + Len(b)) :
             (a \o b)[i] = IF i <= Len(a) THEN a[i] ELSE b[i - Len(a)]
    BY <2>1
  <2>3. Len(s) \in Nat /\ Len(a) + Len(b) = Len(s) - 1
    BY <1>1, <1>2
  <2>4. \A i \in 1..(Len(s) - 1) : i <= Len(a) <=> i < k
    BY <1>1, <2>3
  <2> QED
    BY <1>1, <2>2, <2>3, <2>4
<1>5. \A i \in 1..(Len(s) - 1) : i >= k => b[i - (k - 1)] = s[i + 1]
  <2> SUFFICES ASSUME NEW i \in 1..(Len(s) - 1), i >= k
               PROVE  b[i - (k - 1)] = s[i + 1]
    OBVIOUS
  <2>1. i - (k - 1) \in 1..(Len(s) - k) /\ k + (i - (k - 1)) = i + 1
    OBVIOUS
  <2> QED BY <2>1, <1>2
<1>6. \A i \in 1..(Len(s) - 1) : i < k => a[i] = s[i]
  BY <1>1
<1>7. \A i \in 1..(Len(s) - 1) : (a \o b)[i] = IF i < k THEN s[i] ELSE s[i + 1]
  <2> SUFFICES ASSUME NEW i \in 1..(Len(s) - 1)
               PROVE  (a \o b)[i] = IF i < k THEN s[i] ELSE s[i + 1]
    OBVIOUS
  <2>1. i < k \/ i >= k
    OBVIOUS
  <2> QED BY <2>1, <1>4, <1>5, <1>6
<1> QED
  BY <1>3, <1>4, <1>7

\* A window that is taken out leaves the others in their order.
LEMMA WithoutWindow ==
  ASSUME NEW s \in Seq(Surfaces), NoRepeats(s), NEW w \in ToSet(s)
  PROVE  /\ Without(s, w) \in Seq(Surfaces) /\ NoRepeats(Without(s, w))
         /\ ToSet(Without(s, w)) = ToSet(s) \ {w}
<1> DEFINE k == CHOOSE i \in 1..Len(s) : s[i] = w
           t == Without(s, w)
<1>1. k \in 1..Len(s) /\ s[k] = w
  BY DEF ToSet
<1>2. t = RemoveAt(s, k)
  BY DEF Without
<1> HIDE DEF k, t
<1>3. /\ t \in Seq(Surfaces) /\ Len(t) = Len(s) - 1
      /\ \A i \in 1..Len(t) : t[i] = IF i < k THEN s[i] ELSE s[i + 1]
  BY <1>1, <1>2, RemoveAtIndex
<1>4. NoRepeats(t)
  <2> SUFFICES ASSUME NEW i \in 1..Len(t), NEW j \in 1..Len(t), t[i] = t[j]
               PROVE  i = j
    BY DEF NoRepeats
  <2> DEFINE at(n) == IF n < k THEN n ELSE n + 1
  <2>1. at(i) \in 1..Len(s) /\ at(j) \in 1..Len(s) /\ s[at(i)] = s[at(j)]
    BY <1>1, <1>3
  <2>2. at(i) = at(j)
    BY <2>1 DEF NoRepeats
  <2> QED BY <2>2, <1>1, <1>3
<1>5. \A i \in 1..Len(t) : t[i] \in ToSet(s) \ {w}
  <2> SUFFICES ASSUME NEW i \in 1..Len(t) PROVE t[i] \in ToSet(s) \ {w}
    OBVIOUS
  <2> DEFINE n == IF i < k THEN i ELSE i + 1
  <2>1. n \in 1..Len(s) /\ n # k /\ t[i] = s[n]
    BY <1>1, <1>3
  <2>2. s[n] # w
    BY <2>1, <1>1 DEF NoRepeats
  <2> QED BY <2>1, <2>2 DEF ToSet
<1>6. \A j \in 1..Len(s) : s[j] # w => s[j] \in ToSet(t)
  <2> SUFFICES ASSUME NEW j \in 1..Len(s), s[j] # w PROVE s[j] \in ToSet(t)
    OBVIOUS
  <2> DEFINE n == IF j < k THEN j ELSE j - 1
  <2>1. n \in 1..Len(t) /\ t[n] = s[j]
    BY <1>1, <1>3
  <2> QED BY <2>1, <1>3 DEF ToSet
<1>7. ToSet(t) = ToSet(s) \ {w}
  <2>1. \A x \in ToSet(t) : x \in ToSet(s) \ {w}
    BY <1>5, <1>3 DEF ToSet
  <2>2. \A x \in ToSet(s) \ {w} : x \in ToSet(t)
    BY <1>6 DEF ToSet
  <2> QED BY <2>1, <2>2
<1> QED
  BY <1>3, <1>4, <1>7 DEF t

\* What refresh_app_meta leaves behind for the stack s and the titles t.
LEMMA TitleRefreshed ==
  ASSUME NEW s \in Seq(Surfaces), NEW t \in [Surfaces -> Titles \cup {Untitled}],
         current \in AppMetas, metaDirty \in BOOLEAN, RefreshAppMeta(s, t)
  PROVE  /\ current' \in AppMetas /\ metaDirty' \in BOOLEAN
         /\ current'.title = IF Topmost(s) = Nothing THEN Untitled ELSE t[Topmost(s)]
         /\ current'.title # current.title => metaDirty'
         /\ metaDirty => metaDirty'
<1> DEFINE named == IF s = << >> THEN Untitled ELSE t[Last(s)]
<1>1. named \in Titles \cup {Untitled}
  BY TopOfStack
<1>2. /\ current' = [current EXCEPT !.title = named]
      /\ metaDirty' = (metaDirty \/ named # current.title)
  BY DEF RefreshAppMeta
<1>3. named = IF Topmost(s) = Nothing THEN Untitled ELSE t[Topmost(s)]
  BY TopOfStack
<1> HIDE DEF named
<1>4. current'.title = named /\ current' \in AppMetas
  BY <1>1, <1>2 DEF AppMetas
<1> QED
  BY <1>2, <1>3, <1>4

(***************************************************************************)
(* One lemma per action.                                                    *)
(***************************************************************************)

LEMMA InitHolds == WindowsInit => WindowsInv
<1> SUFFICES ASSUME WindowsInit PROVE WindowsInv
  OBVIOUS
<1> USE DEF WindowsInit
<1>1. Mapped = {} /\ Top = Nothing
  BY DEF Mapped, Top, Topmost, ToSet
<1>2. WindowsTypeOK
  <2>1. /\ stack \in Seq(Surfaces) /\ kicked \subseteq Mapped
        /\ \A i, j \in 1..Len(stack) : stack[i] = stack[j] => i = j
    BY <1>1
  <2>2. NoMeta \in AppMetas
    BY DEF NoMeta, AppMetas
  <2>3. /\ title \in [Surfaces -> Titles \cup {Untitled}]
        /\ pendingIcon \in [Surfaces -> Icons \cup {NoIcon}]
        /\ icon \in [Surfaces -> Icons \cup {NoIcon}]
        /\ committed \in [Surfaces -> BOOLEAN]
        /\ configured \in [Surfaces -> Sizes \cup {0}]
        /\ told \in [Surfaces -> Scales \cup {0}]
    OBVIOUS
  <2> QED
    BY <2>1, <2>2, <2>3, WindowsOK DEF WindowsTypeOK
<1>3. TitleKept
  BY <1>1 DEF TitleKept, TopTitle, NoMeta
<1>4. SizesKept /\ ScalesKept
  BY <1>1 DEF SizesKept, FillsOutput, ScalesKept, ScaleKnown
<1> QED
  BY <1>2, <1>3, <1>4 DEF WindowsInv

\* new_toplevel: the new window is on top and has neither committed nor been
\* configured; its scale object, if it has one, is offstage.
LEMMA NewToplevelKeeps ==
  ASSUME WindowsInv, NEW w \in Surfaces, NewToplevel(w)
  PROVE  WindowsInv'
<1> USE DEF WindowsInv, NewToplevel
<1>1. /\ stack' \in Seq(Surfaces) /\ NoRepeats(stack') /\ Mapped' = Mapped \cup {w}
  BY AppendWindow DEF WindowsTypeOK, NoRepeats, Mapped
<1>2. title' \in [Surfaces -> Titles \cup {Untitled}]
  BY DEF WindowsTypeOK
<1>3. /\ current' \in AppMetas /\ metaDirty' \in BOOLEAN
      /\ current'.title = IF Topmost(stack') = Nothing THEN Untitled ELSE title'[Topmost(stack')]
      /\ current'.title # current.title => metaDirty'
      /\ metaDirty => metaDirty'
  BY <1>1, <1>2, TitleRefreshed DEF UpdateKeyboardFocus, WindowsTypeOK
<1>4. keyboardFocus' = Top' /\ Top' \in Surfaces \cup {Nothing}
  BY <1>1, TopOfStack DEF UpdateKeyboardFocus, Top
<1>5. WindowsTypeOK'
  <2>1. /\ kicked' \subseteq Mapped' /\ committed' \in [Surfaces -> BOOLEAN]
        /\ configured' \in [Surfaces -> Sizes \cup {0}]
    BY <1>1 DEF WindowsTypeOK
  <2> QED
    BY <1>1, <1>2, <1>3, <1>4, <2>1 DEF WindowsTypeOK, NoRepeats
<1>6. TitleKept'
  BY <1>3, <1>4 DEF TitleKept, TopTitle, Top
<1>7. SizesKept'
  BY <1>1 DEF SizesKept, FillsOutput, WindowsTypeOK
<1>8. ScalesKept'
  BY <1>1 DEF ScalesKept, ScaleKnown, WindowsTypeOK
<1> QED
  BY <1>5, <1>6, <1>7, <1>8

\* toplevel_destroyed: the surface keeps its scale object, if it has one.
LEMMA ToplevelDestroyedKeeps ==
  ASSUME WindowsInv, NEW w \in Surfaces, ToplevelDestroyed(w)
  PROVE  WindowsInv'
<1> USE DEF WindowsInv, ToplevelDestroyed
<1>1. /\ stack' \in Seq(Surfaces) /\ NoRepeats(stack') /\ Mapped' = Mapped \ {w}
  BY WithoutWindow DEF WindowsTypeOK, NoRepeats, Mapped
<1>2. /\ current' \in AppMetas /\ metaDirty' \in BOOLEAN
      /\ current'.title = IF Topmost(stack') = Nothing THEN Untitled ELSE title[Topmost(stack')]
      /\ current'.title # current.title => metaDirty'
      /\ metaDirty => metaDirty'
  BY <1>1, TitleRefreshed DEF UpdateKeyboardFocus, WindowsTypeOK
<1>3. keyboardFocus' = Top' /\ Top' \in Surfaces \cup {Nothing}
  BY <1>1, TopOfStack DEF UpdateKeyboardFocus, Top
<1>4. WindowsTypeOK'
  <2>1. kicked' \subseteq Mapped' /\ offstage' \subseteq Surfaces
    BY <1>1 DEF WindowsTypeOK
  <2> QED
    BY <1>1, <1>2, <1>3, <2>1 DEF WindowsTypeOK, NoRepeats
<1>5. TitleKept'
  BY <1>2, <1>3 DEF TitleKept, TopTitle, Top
<1>6. SizesKept'
  BY <1>1 DEF SizesKept, FillsOutput, WindowsTypeOK
<1>7. ScalesKept'
  BY <1>1 DEF ScalesKept, ScaleKnown, WindowsTypeOK
<1> QED
  BY <1>4, <1>5, <1>6, <1>7

\* title_changed: the page's title follows if the window is on top.
LEMMA TitleChangedKeeps ==
  ASSUME WindowsInv, NEW w \in Surfaces, NEW t \in Titles, TitleChanged(w, t)
  PROVE  WindowsInv'
<1> USE DEF WindowsInv, TitleChanged, stackVars
<1>1. title' \in [Surfaces -> Titles \cup {Untitled}] /\ stack' = stack
  BY DEF WindowsTypeOK
<1>2. /\ current' \in AppMetas /\ metaDirty' \in BOOLEAN
      /\ current'.title = IF Topmost(stack) = Nothing THEN Untitled ELSE title'[Topmost(stack)]
      /\ current'.title # current.title => metaDirty'
      /\ metaDirty => metaDirty'
  BY <1>1, TitleRefreshed DEF WindowsTypeOK
<1>3. Mapped' = Mapped /\ Top' = Top
  BY <1>1 DEF Mapped, Top
<1>4. WindowsTypeOK'
  BY <1>1, <1>2, <1>3 DEF WindowsTypeOK
<1>5. TitleKept'
  BY <1>2, <1>3 DEF TitleKept, TopTitle, Top
<1>6. SizesKept' /\ ScalesKept'
  BY <1>3 DEF SizesKept, FillsOutput, ScalesKept, ScaleKnown
<1> QED
  BY <1>4, <1>5, <1>6

\* set_icon: nothing that is shown changes.
LEMMA SetIconKeeps ==
  ASSUME WindowsInv, NEW w \in Surfaces, NEW i \in Icons \cup {NoIcon}, SetIcon(w, i)
  PROVE  WindowsInv'
<1> USE DEF WindowsInv, SetIcon, stackVars
<1>1. Mapped' = Mapped /\ Top' = Top
  BY DEF Mapped, Top
<1>2. WindowsTypeOK'
  BY <1>1 DEF WindowsTypeOK
<1>3. TitleKept'
  BY <1>1 DEF TitleKept, TopTitle
<1>4. SizesKept' /\ ScalesKept'
  BY <1>1 DEF SizesKept, FillsOutput, ScalesKept, ScaleKnown
<1> QED
  BY <1>2, <1>3, <1>4

\* commit: a window's first commit brings its configure; the favicon of the
\* topmost window may change, the title does not.
LEMMA CommitKeeps ==
  ASSUME WindowsInv, NEW w \in Surfaces, Commit(w)
  PROVE  WindowsInv'
<1> USE DEF WindowsInv, Commit
<1>1. Mapped' = Mapped /\ Top' = Top
  BY DEF Mapped, Top
<1>2. icon' \in [Surfaces -> Icons \cup {NoIcon}] /\ committed' \in [Surfaces -> BOOLEAN]
  BY DEF WindowsTypeOK
<1>3. /\ current' \in AppMetas /\ current'.title = current.title
      /\ metaDirty' \in BOOLEAN /\ (metaDirty => metaDirty')
      /\ iconDirty' \in Surfaces \cup {Nothing}
  <2>1. CASE iconDirty = w /\ w = Top
    <3>1. /\ current' = [current EXCEPT !.icon = icon'[w]]
          /\ metaDirty' = (metaDirty \/ icon'[w] # current.icon) /\ iconDirty' = Nothing
      BY <2>1 DEF ExtractToplevelIcon
    <3>2. icon'[w] \in Icons \cup {NoIcon}
      BY <1>2
    <3> HIDE DEF Commit
    <3> QED BY <3>1, <3>2 DEF WindowsTypeOK, AppMetas
  <2>2. CASE ~(iconDirty = w /\ w = Top)
    <3>1. UNCHANGED <<current, metaDirty>> /\ iconDirty' \in {iconDirty, Nothing}
      BY <2>2 DEF ExtractToplevelIcon
    <3> QED BY <3>1 DEF WindowsTypeOK
  <2> QED BY <2>1, <2>2
<1>4. /\ configured' \in [Surfaces -> Sizes \cup {0}]
      /\ \A v \in Surfaces : configured'[v] =
           IF v \in ({w} \cap Mapped) \ kicked THEN size ELSE configured[v]
  BY DEF Configure, WindowsTypeOK
<1>5. WindowsTypeOK'
  <2>1. kicked' \subseteq Mapped'
    BY <1>1 DEF WindowsTypeOK
  <2> QED BY <1>1, <1>2, <1>3, <1>4, <2>1 DEF WindowsTypeOK
<1>6. TitleKept'
  BY <1>1, <1>3 DEF TitleKept, TopTitle
<1>7. SizesKept'
  <2>1. \A v \in kicked' : committed'[v]
    BY <1>1 DEF SizesKept, WindowsTypeOK
  <2>2. \A v \in Mapped' : committed'[v] => configured'[v] = size'
    <3> SUFFICES ASSUME NEW v \in Mapped, committed'[v] PROVE configured'[v] = size
      BY <1>1
    <3>1. v \in Surfaces
      BY TopOfStack DEF WindowsTypeOK, Mapped
    <3>2. v # w => committed[v]
      BY <3>1 DEF WindowsTypeOK
    <3> QED
      BY <3>1, <3>2, <1>4 DEF SizesKept, FillsOutput
  <2> QED BY <2>1, <2>2 DEF SizesKept, FillsOutput
<1>8. ScalesKept'
  BY <1>1 DEF ScalesKept, ScaleKnown
<1> QED
  BY <1>5, <1>6, <1>7, <1>8

\* new_fractional_scale: an early scale object is offstage until told again.
LEMMA NewFractionalScaleKeeps ==
  ASSUME WindowsInv, NEW w \in Surfaces, NewFractionalScale(w)
  PROVE  WindowsInv'
<1> USE DEF WindowsInv, NewFractionalScale, stackVars, metaVars
<1>1. Mapped' = Mapped /\ Top' = Top
  BY DEF Mapped, Top
<1>2. EffectiveScale(scale) \in Scales \cup {0}
  BY WindowsOK DEF EffectiveScale, WindowsTypeOK
<1>3. WindowsTypeOK'
  BY <1>1, <1>2 DEF WindowsTypeOK
<1>4. TitleKept'
  BY <1>1 DEF TitleKept, TopTitle
<1>5. SizesKept'
  BY <1>1 DEF SizesKept, FillsOutput
<1>6. ScalesKept'
  <2>1. ScaleKnown'
    <3> SUFFICES ASSUME NEW v \in Mapped \ offstage', told'[v] # 0
                 PROVE  told'[v] = EffectiveScale(scale)
      BY <1>1 DEF ScaleKnown, EffectiveScale
    <3>1. v \in Surfaces
      BY TopOfStack DEF WindowsTypeOK, Mapped
    <3>2. CASE v = w
      BY <3>2 DEF WindowsTypeOK
    <3>3. CASE v # w
      BY <3>1, <3>3 DEF ScalesKept, ScaleKnown, WindowsTypeOK
    <3> QED BY <3>2, <3>3
  <2>2. \A v \in Surfaces \ Mapped' : told'[v] # 0 => v \in offstage'
    BY <1>1 DEF ScalesKept, WindowsTypeOK
  <2> QED BY <2>1, <2>2 DEF ScalesKept
<1> QED
  BY <1>3, <1>4, <1>5, <1>6

\* A resize: every window is configured and told.
LEMMA ResizeKeeps ==
  ASSUME WindowsInv, NEW n \in Sizes, NEW s \in Scales, Resize(n, s)
  PROVE  WindowsInv'
<1> USE DEF WindowsInv, Resize, metaVars
<1>1. Mapped' = Mapped /\ Top' = Top /\ Mapped \subseteq Surfaces
  BY TopOfStack DEF Mapped, Top, WindowsTypeOK
<1>2. /\ configured' \in [Surfaces -> Sizes \cup {0}]
      /\ \A v \in Mapped : configured'[v] = n
  BY <1>1 DEF Configure, WindowsTypeOK
<1>3. EffectiveScale(s) \in Scales \cup {0} /\ EffectiveScale(s) # 0
  BY WindowsOK DEF EffectiveScale
<1>4. /\ told' \in [Surfaces -> Scales \cup {0}] /\ scale' = s
      /\ \A v \in Surfaces : told'[v] # 0 => told[v] # 0
      /\ \A v \in Mapped : told[v] # 0 /\ s # scale => told'[v] = EffectiveScale(s)
      /\ s = scale => told' = told
  <2>1. CASE s = scale
    BY <2>1 DEF SetPreferredScale, WindowsTypeOK
  <2>2. CASE s # scale
    BY <1>1, <1>3, <2>2 DEF SetPreferredScale, WindowsTypeOK
  <2> QED BY <2>1, <2>2
<1>5. WindowsTypeOK'
  BY <1>1, <1>2, <1>4 DEF WindowsTypeOK
<1>6. TitleKept'
  BY <1>1 DEF TitleKept, TopTitle
<1>7. SizesKept'
  BY <1>1, <1>2 DEF SizesKept, FillsOutput
<1>8. ScalesKept'
  <2>1. ScaleKnown'
    <3> SUFFICES ASSUME NEW v \in Mapped \ offstage, told'[v] # 0
                 PROVE  told'[v] = EffectiveScale(s)
      BY <1>1, <1>4 DEF ScaleKnown, EffectiveScale
    <3>1. told[v] # 0
      BY <1>1, <1>4
    <3> QED
      BY <3>1, <1>4 DEF ScalesKept, ScaleKnown
  <2>2. \A v \in Surfaces \ Mapped' : told'[v] # 0 => v \in offstage'
    BY <1>1, <1>4 DEF ScalesKept
  <2> QED BY <2>1, <2>2 DEF ScalesKept
<1> QED
  BY <1>5, <1>6, <1>7, <1>8

\* take_app_meta_pending: the page has the title of now.
LEMMA ForwardAppMetaKeeps ==
  ASSUME WindowsInv, ForwardAppMeta
  PROVE  WindowsInv'
<1> USE DEF WindowsInv, ForwardAppMeta, stackVars, clientVars
<1>1. Mapped' = Mapped /\ Top' = Top
  BY DEF Mapped, Top
<1>2. WindowsTypeOK'
  BY <1>1 DEF WindowsTypeOK
<1>3. TitleKept'
  BY <1>1 DEF TitleKept, TopTitle
<1>4. SizesKept' /\ ScalesKept'
  BY <1>1 DEF SizesKept, FillsOutput, ScalesKept, ScaleKnown
<1> QED
  BY <1>2, <1>3, <1>4

\* A step that changes nothing.
LEMMA WindowsStutter ==
  ASSUME WindowsInv, UNCHANGED windowVars
  PROVE  WindowsInv'
<1> USE DEF WindowsInv, windowVars, stackVars, clientVars, metaVars
<1>1. Mapped' = Mapped /\ Top' = Top
  BY DEF Mapped, Top
<1>2. WindowsTypeOK'
  BY <1>1 DEF WindowsTypeOK
<1>3. TitleKept'
  BY <1>1 DEF TitleKept, TopTitle
<1>4. SizesKept' /\ ScalesKept'
  BY <1>1 DEF SizesKept, FillsOutput, ScalesKept, ScaleKnown
<1> QED
  BY <1>2, <1>3, <1>4

LEMMA WindowsStep ==
  ASSUME WindowsInv, [WindowsNext]_windowVars
  PROVE  WindowsInv'
<1>1. CASE UNCHANGED windowVars
  BY <1>1, WindowsStutter
<1>2. CASE WindowRequest
  BY <1>2, NewToplevelKeeps, ToplevelDestroyedKeeps, CommitKeeps,
     NewFractionalScaleKeeps, TitleChangedKeeps, SetIconKeeps DEF WindowRequest
<1>3. CASE \E n \in Sizes, s \in Scales : Resize(n, s)
  BY <1>3, ResizeKeeps
<1>4. CASE ForwardAppMeta
  BY <1>4, ForwardAppMetaKeeps
<1> QED
  BY <1>1, <1>2, <1>3, <1>4 DEF WindowsNext

(***************************************************************************)
(* The theorems.                                                            *)
(***************************************************************************)

\* The window stack is always as the properties need it: no window is mapped
\* twice, a kicked window has committed, the title kept is that of the top.
THEOREM WindowsKept == WindowsSpec => []WindowsInv
<1>1. WindowsInit => WindowsInv
  BY InitHolds
<1>2. WindowsInv /\ [WindowsNext]_windowVars => WindowsInv'
  BY WindowsStep
<1> QED
  BY <1>1, <1>2, PTL DEF WindowsSpec

\* update_keyboard_focus and refresh_app_meta: what is typed goes to the
\* window on top, and the page has its title or will be told.
THEOREM FocusFollowsTop == WindowsSpec => []TopHasFocus
<1>1. WindowsInv => TopHasFocus
  BY DEF WindowsInv, TitleKept, TopTitle, TopHasFocus
<1> QED
  BY <1>1, WindowsKept, PTL

\* commit and resize_output: a window that has committed has been asked to
\* fill the output as it is now.
THEOREM WindowsFill == WindowsSpec => []FillsOutput
<1>1. WindowsInv => FillsOutput
  BY DEF WindowsInv, SizesKept
<1> QED
  BY <1>1, WindowsKept, PTL

\* new_fractional_scale and set_preferred_scale: a window whose scale object
\* was made while it was mapped knows the scale in force.
THEOREM ScalesAreKnown == WindowsSpec => []ScaleKnown
<1>1. WindowsInv => ScaleKnown
  BY DEF WindowsInv, ScalesKept
<1> QED
  BY <1>1, WindowsKept, PTL

\* extract_toplevel_icon: only the window on top changes the favicon.
THEOREM IconOfTop == WindowsSpec => OnlyTopSetsIcon
<1> DEFINE A == current'.icon # current.icon => Top # Nothing /\ current'.icon = icon'[Top]
<1>1. ASSUME WindowsInv, WindowsNext PROVE A
  <2> USE DEF WindowsInv, WindowsTypeOK
  <2>1. ASSUME NEW s, NEW t, RefreshAppMeta(s, t) PROVE current'.icon = current.icon
    BY <2>1 DEF RefreshAppMeta, AppMetas
  <2>2. ASSUME NEW w \in Surfaces, NewToplevel(w) \/ ToplevelDestroyed(w)
        PROVE  A
    BY <2>1, <2>2 DEF NewToplevel, ToplevelDestroyed, UpdateKeyboardFocus
  <2>3. ASSUME NEW w \in Surfaces, Commit(w) PROVE A
    <3>1. CASE iconDirty = w /\ w = Top
      <4>1. current' = [current EXCEPT !.icon = icon'[w]]
        BY <2>3, <3>1 DEF Commit, ExtractToplevelIcon
      <4>2. w # Nothing
        BY WindowsOK
      <4> QED BY <3>1, <4>1, <4>2 DEF AppMetas
    <3>2. CASE ~(iconDirty = w /\ w = Top)
      BY <2>3, <3>2 DEF Commit, ExtractToplevelIcon
    <3> QED BY <3>1, <3>2
  <2>4. ASSUME NEW w \in Surfaces, NewFractionalScale(w) PROVE A
    BY <2>4 DEF NewFractionalScale, metaVars
  <2>5. ASSUME NEW w \in Surfaces, NEW t \in Titles, TitleChanged(w, t) PROVE A
    BY <2>1, <2>5 DEF TitleChanged
  <2>6. ASSUME NEW w \in Surfaces, NEW i \in Icons \cup {NoIcon}, SetIcon(w, i) PROVE A
    BY <2>6 DEF SetIcon
  <2>7. ASSUME NEW n \in Sizes, NEW s \in Scales, Resize(n, s) PROVE A
    BY <2>7 DEF Resize, metaVars
  <2>8. ASSUME ForwardAppMeta PROVE A
    BY <2>8 DEF ForwardAppMeta
  <2> QED
    BY <1>1, <2>2, <2>3, <2>4, <2>5, <2>6, <2>7, <2>8 DEF WindowsNext, WindowRequest
<1>2. WindowsInv /\ [WindowsNext]_windowVars => [A]_windowVars
  BY <1>1
<1> QED
  BY <1>2, WindowsKept, PTL DEF WindowsSpec, OnlyTopSetsIcon

(***************************************************************************)
(* What is put down is let go.  A message of D puts something down, one of U *)
(* lets it go; q is the queue before the seat and w the socket before q.     *)
(***************************************************************************)

Has(s, U) == \E i \in 1..Len(s) : s[i] \in U
Answered(s, D, U) == \A i \in 1..Len(s) : s[i] \in D => \E j \in (i + 1)..Len(s) : s[j] \in U

\* If it is down, or will be when what is on its way arrives, it is let go
\* behind that.
LetGo(down, q, w, D, U) ==
  /\ down => Has(q, U) \/ Has(w, U)
  /\ Answered(q, D, U) \/ Has(w, U)
  /\ Answered(w, D, U)

\* More is sent: nothing that puts it down, and perhaps what lets it go.
LEMMA Said ==
  ASSUME NEW M, NEW w \in Seq(M), NEW t \in Seq(M), NEW q, NEW down, NEW D, NEW U,
         ~Has(t, D), LetGo(down, q, w, D, U) \/ Has(t, U)
  PROVE  LetGo(down, q, w \o t, D, U)
<1> DEFINE s == w \o t
<1>1. /\ Len(s) = Len(w) + Len(t) /\ Len(w) \in Nat /\ Len(t) \in Nat
      /\ \A i \in 1..Len(w) : s[i] = w[i]
      /\ \A i \in 1..Len(t) : s[Len(w) + i] = t[i]
  OBVIOUS
<1> HIDE DEF s
<1>2. \A i \in 1..Len(s) : s[i] \in D => i \in 1..Len(w) /\ w[i] \in D
  <2> TAKE i \in 1..Len(s)
  <2>1. CASE i <= Len(w)
    BY <1>1, <2>1
  <2>2. CASE i > Len(w)
    <3>1. i - Len(w) \in 1..Len(t) /\ s[i] = t[i - Len(w)]
      BY <1>1, <2>2
    <3> QED BY <3>1 DEF Has
  <2> QED BY <1>1, <2>1, <2>2
<1>3. Has(w, U) => Has(s, U)
  BY <1>1 DEF Has
<1>4. CASE Has(t, U)
  <2>1. PICK j \in 1..Len(t) : t[j] \in U
    BY <1>4 DEF Has
  <2>2. Len(w) + j \in 1..Len(s) /\ s[Len(w) + j] \in U /\ \A i \in 1..Len(w) : Len(w) + j \in (i + 1)..Len(s)
    BY <1>1, <2>1
  <2>3. Has(s, U)
    BY <2>2 DEF Has
  <2>4. Answered(s, D, U)
    BY <1>2, <2>2 DEF Answered
  <2> QED BY <2>3, <2>4 DEF LetGo, s
<1>5. CASE LetGo(down, q, w, D, U)
  <2>1. Answered(s, D, U)
    <3> SUFFICES ASSUME NEW i \in 1..Len(s), s[i] \in D PROVE \E j \in (i + 1)..Len(s) : s[j] \in U
      BY DEF Answered
    <3>1. PICK j \in (i + 1)..Len(w) : w[j] \in U
      BY <1>2, <1>5 DEF LetGo, Answered
    <3>2. j \in (i + 1)..Len(s) /\ s[j] \in U
      BY <1>1, <1>2, <3>1
    <3> QED BY <3>2
  <2> QED BY <1>3, <1>5, <2>1 DEF LetGo, s
<1> QED
  BY <1>4, <1>5

\* A message goes from the socket into the queue, or passes it by.
LEMMA Delivered ==
  ASSUME NEW M, NEW w \in Seq(M), w # << >>, NEW q \in Seq(M), NEW down, NEW D, NEW U,
         LetGo(down, q, w, D, U)
  PROVE  /\ LetGo(down, Append(q, Head(w)), Tail(w), D, U)
         /\ Head(w) \notin D \cup U => LetGo(down, q, Tail(w), D, U)
         /\ LetGo(FALSE, << >>, Tail(w), D, U)
<1> DEFINE t == Tail(w)  p == Append(q, Head(w))
<1>1. /\ Len(w) \in Nat \ {0} /\ Len(t) = Len(w) - 1 /\ Head(w) = w[1]
      /\ \A i \in 1..Len(t) : t[i] = w[i + 1]
  OBVIOUS
<1>2. /\ Len(q) \in Nat /\ Len(p) = Len(q) + 1 /\ p[Len(p)] = Head(w)
      /\ \A i \in 1..Len(q) : p[i] = q[i]
  OBVIOUS
<1> HIDE DEF t, p
<1>3. Answered(t, D, U)
  <2> SUFFICES ASSUME NEW i \in 1..Len(t), t[i] \in D PROVE \E j \in (i + 1)..Len(t) : t[j] \in U
    BY DEF Answered
  <2>1. i + 1 \in 1..Len(w) /\ w[i + 1] \in D
    BY <1>1
  <2>2. PICK j \in (i + 2)..Len(w) : w[j] \in U
    BY <1>1, <2>1 DEF LetGo, Answered
  <2>3. j - 1 \in (i + 1)..Len(t) /\ t[j - 1] \in U
    BY <1>1, <2>2
  <2> QED BY <2>3
<1>4. Has(w, U) => Head(w) \in U \/ Has(t, U)
  <2> SUFFICES ASSUME NEW i \in 1..Len(w), w[i] \in U, Head(w) \notin U PROVE Has(t, U)
    BY DEF Has
  <2>1. i - 1 \in 1..Len(t) /\ t[i - 1] \in U
    BY <1>1
  <2> QED BY <2>1 DEF Has
<1>5. Head(w) \in D => Has(t, U)
  <2> SUFFICES ASSUME Head(w) \in D PROVE Has(t, U)
    OBVIOUS
  <2>1. PICK j \in 2..Len(w) : w[j] \in U
    BY <1>1 DEF LetGo, Answered
  <2>2. j - 1 \in 1..Len(t) /\ t[j - 1] \in U
    BY <1>1, <2>1
  <2> QED BY <2>2 DEF Has
<1>6. /\ Has(q, U) => Has(p, U)
      /\ Head(w) \in U => Has(p, U)
  BY <1>2 DEF Has
<1>7. Answered(p, D, U) \/ Has(t, U)
  <2> SUFFICES ASSUME ~Has(t, U) PROVE Answered(p, D, U)
    OBVIOUS
  <2> SUFFICES ASSUME NEW i \in 1..Len(p), p[i] \in D PROVE \E j \in (i + 1)..Len(p) : p[j] \in U
    BY DEF Answered
  <2>1. i \in 1..Len(q) /\ q[i] \in D
    BY <1>2, <1>5
  <2>2. CASE Head(w) \in U
    BY <1>2, <2>1, <2>2
  <2>3. CASE Head(w) \notin U
    <3>1. PICK j \in (i + 1)..Len(q) : q[j] \in U
      BY <1>4, <2>1, <2>3 DEF LetGo, Answered
    <3> QED BY <1>2, <2>1, <3>1
  <2> QED BY <2>2, <2>3
<1>8. LetGo(down, p, t, D, U)
  BY <1>3, <1>4, <1>6, <1>7 DEF LetGo
<1>9. Head(w) \notin D \cup U => LetGo(down, q, t, D, U)
  BY <1>3, <1>4 DEF LetGo
<1>10. LetGo(FALSE, << >>, t, D, U)
  BY <1>3 DEF LetGo, Answered
<1> QED
  BY <1>8, <1>9, <1>10 DEF p, t

\* A message comes into the queue from elsewhere: it has nothing to do with
\* what is let go, or lets it go.
LEMMA Beside ==
  ASSUME NEW M, NEW q \in Seq(M), NEW e, NEW w, NEW down, NEW D, NEW U, e \notin D,
         \/ LetGo(down, q, w, D, U)
         \/ e \in U /\ LetGo(FALSE, << >>, w, D, U)
  PROVE  LetGo(down, Append(q, e), w, D, U)
<1> DEFINE p == Append(q, e)
<1>1. /\ Len(q) \in Nat /\ Len(p) = Len(q) + 1 /\ p[Len(p)] = e
      /\ \A i \in 1..Len(q) : p[i] = q[i]
  OBVIOUS
<1> HIDE DEF p
<1>2. Answered(w, D, U)
  BY DEF LetGo
<1>3. CASE e \in U
  <2>1. Len(p) \in 1..Len(p) /\ p[Len(p)] \in U
    BY <1>1, <1>3
  <2>2. Has(p, U)
    BY <2>1 DEF Has
  <2>3. Answered(p, D, U)
    <3> SUFFICES ASSUME NEW i \in 1..Len(p), p[i] \in D PROVE \E j \in (i + 1)..Len(p) : p[j] \in U
      BY DEF Answered
    <3>1. i # Len(p)
      BY <1>1
    <3> QED BY <1>1, <2>1, <3>1
  <2> QED BY <1>2, <2>2, <2>3 DEF LetGo, p
<1>4. CASE LetGo(down, q, w, D, U)
  <2>1. Has(q, U) => Has(p, U)
    BY <1>1 DEF Has
  <2>2. Answered(q, D, U) => Answered(p, D, U)
    <3> SUFFICES ASSUME Answered(q, D, U), NEW i \in 1..Len(p), p[i] \in D
                 PROVE  \E j \in (i + 1)..Len(p) : p[j] \in U
      BY DEF Answered
    <3>1. i \in 1..Len(q) /\ q[i] \in D
      BY <1>1
    <3>2. PICK j \in (i + 1)..Len(q) : q[j] \in U
      BY <3>1 DEF Answered
    <3> QED BY <1>1, <3>1, <3>2
  <2> QED BY <1>4, <2>1, <2>2 DEF LetGo, p
<1> QED
  BY <1>3, <1>4

\* The seat takes a message from the queue.
LEMMA Taken ==
  ASSUME NEW M, NEW q \in Seq(M), q # << >>, NEW w, NEW down, NEW D, NEW U,
         LetGo(down, q, w, D, U), NEW now,
         now => (down /\ Head(q) \notin U) \/ Head(q) \in D
  PROVE  LetGo(now, Tail(q), w, D, U)
<1> DEFINE t == Tail(q)
<1>1. /\ Len(q) \in Nat \ {0} /\ Len(t) = Len(q) - 1 /\ Head(q) = q[1]
      /\ \A i \in 1..Len(t) : t[i] = q[i + 1]
  OBVIOUS
<1> HIDE DEF t
<1>2. \A j \in 2..Len(q) : q[j] \in U => Has(t, U)
  <2> SUFFICES ASSUME NEW j \in 2..Len(q), q[j] \in U PROVE Has(t, U)
    OBVIOUS
  <2>1. j - 1 \in 1..Len(t) /\ t[j - 1] \in U
    BY <1>1
  <2> QED BY <2>1 DEF Has
<1>3. Answered(q, D, U) => Answered(t, D, U)
  <2> SUFFICES ASSUME Answered(q, D, U), NEW i \in 1..Len(t), t[i] \in D
               PROVE  \E j \in (i + 1)..Len(t) : t[j] \in U
    BY DEF Answered
  <2>1. i + 1 \in 1..Len(q) /\ q[i + 1] \in D
    BY <1>1
  <2>2. PICK j \in (i + 2)..Len(q) : q[j] \in U
    BY <1>1, <2>1 DEF Answered
  <2>3. j - 1 \in (i + 1)..Len(t) /\ t[j - 1] \in U
    BY <1>1, <2>2
  <2> QED BY <2>3
<1>4. now => Has(t, U) \/ Has(w, U)
  <2>1. CASE Head(q) \in D
    BY <1>1, <1>2, <2>1 DEF LetGo, Answered
  <2>2. CASE Has(q, U) /\ Head(q) \notin U
    <3>1. PICK j \in 1..Len(q) : q[j] \in U
      BY <2>2 DEF Has
    <3>2. j \in 2..Len(q)
      BY <1>1, <2>2, <3>1
    <3> QED BY <1>2, <3>1, <3>2
  <2> QED BY <2>1, <2>2 DEF LetGo
<1> QED
  BY <1>3, <1>4 DEF LetGo, t

\* Nothing is under way.
LEMMA NothingComes ==
  ASSUME NEW D, NEW U
  PROVE  /\ ~Has(<< >>, D)
         /\ \A down, q, w : LetGo(down, q, w, D, U) /\ ~Has(w, U) => LetGo(down, q, << >>, D, U)
         /\ LetGo(FALSE, << >>, << >>, D, U)
<1>1. ~Has(<< >>, D) /\ ~Has(<< >>, U) /\ Answered(<< >>, D, U)
  BY DEF Has, Answered
<1> QED
  BY <1>1 DEF LetGo

\* What is in no message is in none of the rest.
LEMMA StillQuiet ==
  ASSUME NEW M, NEW w \in Seq(M), w # << >>, NEW U, ~Has(w, U)
  PROVE  ~Has(Tail(w), U) /\ Head(w) \notin U
<1> DEFINE t == Tail(w)
<1>1. /\ Len(w) \in Nat \ {0} /\ Len(t) = Len(w) - 1 /\ Head(w) = w[1]
      /\ \A i \in 1..Len(t) : t[i] = w[i + 1]
  OBVIOUS
<1> HIDE DEF t
<1>2. \A i \in 1..Len(t) : i + 1 \in 1..Len(w)
  BY <1>1
<1> QED
  BY <1>1, <1>2 DEF Has, t

\* SetToSeq lists every element of a finite set, and nothing else.
LEMMA Listed ==
  ASSUME NEW S, IsFiniteSet(S)
  PROVE  /\ SetToSeq(S) \in Seq(S)
         /\ \A x \in S : \E i \in 1..Len(SetToSeq(S)) : SetToSeq(S)[i] = x
<1> DEFINE n == Cardinality(S)  f == SetToSeq(S)
<1>1. n \in Nat /\ ExistsBijection(1..n, S)
  BY FS_CardinalityType
<1>2. \E g \in [1..n -> S] : IsInjective(g)
  BY <1>1 DEF ExistsBijection, Bijection, Injection
<1>3. f \in [1..n -> S] /\ IsInjective(f)
  BY <1>2 DEF SetToSeq
<1>4. f \in Seq(S) /\ Len(f) = n
  BY <1>1, <1>3
<1> HIDE DEF f, n
<1> DEFINE T == {f[i] : i \in 1..n}
<1>5. T \in SUBSET S
  BY <1>3
<1>6. f \in Bijection(1..n, T)
  <2>1. f \in [1..n -> T] /\ \A t \in T : \E i \in 1..n : f[i] = t
    BY <1>3
  <2> HIDE DEF T
  <2> QED BY <1>3, <2>1 DEF Bijection, Injection, Surjection
<1>7. ExistsBijection(1..n, T)
  BY <1>6 DEF ExistsBijection
<1>8. Cardinality(T) = n
  BY <1>1, <1>7, FS_CountingElements
<1>9. T = S
  BY <1>5, <1>8, FS_Subset DEF n
<1> QED
  BY <1>4, <1>9 DEF f

\* The releases of the keys ks.
LEMMA Releases ==
  ASSUME NEW ks, IsFiniteSet(ks)
  PROVE  LET t == SetToSeq({Key("up", k) : k \in ks}) IN
         /\ t \in Seq({Key("up", k) : k \in ks})
         /\ \A k \in ks : Has(t, {Key("up", k)})
<1> DEFINE S == {Key("up", k) : k \in ks}  f == [k \in ks |-> Key("up", k)]
<1>1. f \in Surjection(ks, S)
  BY DEF Surjection
<1>2. IsFiniteSet(S)
  BY <1>1, FS_Surjection
<1> HIDE DEF S, f
<1>3. /\ SetToSeq(S) \in Seq(S)
      /\ \A x \in S : \E i \in 1..Len(SetToSeq(S)) : SetToSeq(S)[i] = x
  BY <1>2, Listed
<1>4. \A k \in ks : Key("up", k) \in S
  BY DEF S
<1> QED
  BY <1>3, <1>4 DEF S, Has

(***************************************************************************)
(* The messages of fingers, keys and buttons.                               *)
(***************************************************************************)

Of(device) == {e \in Messages : e.device = device}

Listing(kind, id) == {Touch(kind, ids) : ids \in {ids \in SUBSET Ids : id \in ids}}
Pressing(kind, b) == {Press(kind, b, spot) : spot \in Spots}

SeatTypes ==
  /\ finger \in [Ids -> {"up", "canvas"}]
  /\ pressedCodes \subseteq Keys /\ IsFiniteSet(pressedCodes)
  /\ heldButtons \subseteq Buttons /\ connected \in BOOLEAN
  /\ wire \in Seq(Messages) /\ oldWire \in Seq(Messages)
  /\ oldWire # << >> => oldWire[Len(oldWire)] = TouchCancel
  /\ touchQueue \in Seq(Of("touch"))
  /\ mouseQueue \in Seq(Of("pointer"))
  /\ keyQueue \in Seq(Of("key"))
  /\ activeTouches \subseteq Ids /\ contacts = activeTouches
  /\ keysDown \subseteq Keys /\ buttonsDown \subseteq Buttons

\* While the handler before has its cancel to send, whatever it finds down or
\* in the queue will be let go.
Uncancelled == oldWire = << >>
Touching(id) == Uncancelled /\ id \in activeTouches
Arrived == IF Uncancelled THEN touchQueue ELSE << >>

\* A finger that is up is let go; without a connection all are, by the cancel.
TouchesEnd ==
  \A id \in Ids : finger[id] = "up" \/ ~connected =>
    LetGo(Touching(id), Arrived, wire, Listing("start", id),
          Listing("end", id) \cup {TouchCancel})

\* The handler before speaks only of keys and buttons that are given up.
KeysEnd ==
  \A k \in Keys :
    /\ k \notin lostKeys => ~Has(oldWire, {Key("down", k), Key("up", k)})
    /\ k \notin pressedCodes \cup lostKeys =>
         LetGo(k \in keysDown, keyQueue, wire, {Key("down", k)}, {Key("up", k)})

ButtonsEnd ==
  \A b \in Buttons :
    /\ b \notin lostButtons => ~Has(oldWire, Pressing("down", b) \cup Pressing("up", b))
    /\ b \notin heldButtons \cup lostButtons =>
         LetGo(b \in buttonsDown, mouseQueue, wire, Pressing("down", b), Pressing("up", b))

SeatInv == SeatTypes /\ TouchesEnd /\ KeysEnd /\ ButtonsEnd

LEMMA MessageTypes ==
  /\ \A ids \in SUBSET Ids, kind \in {"start", "move", "end"} : Touch(kind, ids) \in Of("touch")
  /\ TouchCancel \in Of("touch")
  /\ \A b \in Buttons, spot \in Spots, kind \in {"down", "up"} : Press(kind, b, spot) \in Of("pointer")
  /\ \A spot \in Spots, kind \in {"move", "wheel"} : Point(kind, spot) \in Of("pointer")
  /\ Relative \in Of("pointer") /\ PointerCancel \in Of("pointer")
  /\ \A k \in Keys, kind \in {"down", "up"} : Key(kind, k) \in Of("key")
BY DEF Of, Messages, Touch, TouchCancel, Press, Point, Relative, PointerCancel, Key

\* What puts down or lets go of one thing is no message of another device.
LEMMA Devices ==
  /\ \A id \in Ids : \A e \in Listing("start", id) \cup Listing("end", id) \cup {TouchCancel} :
       e.device = "touch" /\ e.kind # "move"
  /\ \A k \in Keys : \A e \in {Key("down", k), Key("up", k)} :
       e.device = "key" /\ e.kind # "move"
  /\ \A b \in Buttons : \A e \in Pressing("down", b) \cup Pressing("up", b) :
       e.device = "pointer" /\ e.kind # "move"
BY DEF Listing, Pressing, Touch, TouchCancel, Press, Key

LEMMA SeatInitHolds == SeatInit => SeatInv
<1> SUFFICES ASSUME SeatInit PROVE SeatInv
  OBVIOUS
<1>1. /\ finger = [id \in Ids |-> "up"] /\ pressedCodes = {} /\ heldButtons = {}
      /\ connected = TRUE /\ wire = << >> /\ oldWire = << >> /\ touchQueue = << >>
      /\ mouseQueue = << >> /\ keyQueue = << >> /\ activeTouches = {} /\ contacts = {} /\ keysDown = {}
      /\ buttonsDown = {}
  BY DEF SeatInit
<1>2. SeatTypes
  BY <1>1, FS_EmptySet DEF SeatTypes
<1>3. \A D, U : ~Has(<< >>, D) /\ LetGo(FALSE, << >>, << >>, D, U)
  BY NothingComes
<1>4. TouchesEnd
  <2>1. \A id \in Ids : Touching(id) = FALSE /\ Arrived = << >> /\ wire = << >>
    BY <1>1 DEF Touching, Arrived
  <2> QED BY <1>3, <2>1 DEF TouchesEnd
<1>5. KeysEnd
  <2>1. /\ oldWire = << >> /\ keyQueue = << >> /\ wire = << >>
        /\ \A k \in Keys : (k \in keysDown) = FALSE
    BY <1>1
  <2> QED BY <1>3, <2>1 DEF KeysEnd
<1>6. ButtonsEnd
  <2>1. /\ oldWire = << >> /\ mouseQueue = << >> /\ wire = << >>
        /\ \A b \in Buttons : (b \in buttonsDown) = FALSE
    BY <1>1
  <2> QED BY <1>3, <2>1 DEF ButtonsEnd
<1> QED
  BY <1>2, <1>4, <1>5, <1>6 DEF SeatInv

(***************************************************************************)
(* The steps of the page.                                                   *)
(***************************************************************************)

\* A list of one message.
LEMMA OneMessage ==
  ASSUME NEW e \in Messages, NEW U
  PROVE  <<e>> \in Seq(Messages) /\ (Has(<<e>>, U) <=> e \in U)
<1>1. <<e>> \in Seq(Messages) /\ Len(<<e>>) = 1 /\ <<e>>[1] = e
  OBVIOUS
<1> QED
  BY <1>1 DEF Has

\* What was let go stays so if the page says something else about it.
LEMMA PageSays ==
  ASSUME SeatInv, NEW t \in Seq(Messages), Send(t)
  PROVE  /\ wire' \in Seq(Messages) /\ (connected => wire' = wire \o t)
         /\ UNCHANGED <<connected, oldWire, touchQueue, mouseQueue, keyQueue, activeTouches,
                        contacts, keysDown, buttonsDown>>
         /\ \A id \in Ids : 
              LET D == Listing("start", id)  U == Listing("end", id) \cup {TouchCancel} IN
              /\ ~Has(t, D)
              /\ LetGo(Touching(id), Arrived, wire, D, U) \/ Has(t, U)
              => (connected => LetGo(Touching(id), Arrived, wire', D, U))
         /\ \A k \in Keys :
              LET D == {Key("down", k)}  U == {Key("up", k)} IN
              /\ ~Has(t, D)
              /\ LetGo(k \in keysDown, keyQueue, wire, D, U) \/ Has(t, U)
              => (connected => LetGo(k \in keysDown, keyQueue, wire', D, U))
         /\ \A b \in Buttons :
              LET D == Pressing("down", b)  U == Pressing("up", b) IN
              /\ ~Has(t, D)
              /\ LetGo(b \in buttonsDown, mouseQueue, wire, D, U) \/ Has(t, U)
              => (connected => LetGo(b \in buttonsDown, mouseQueue, wire', D, U))
<1>1. /\ wire \in Seq(Messages) /\ wire' = IF connected THEN wire \o t ELSE wire
      /\ connected \in BOOLEAN
      /\ UNCHANGED <<connected, oldWire, touchQueue, mouseQueue, keyQueue, activeTouches,
                     contacts, keysDown, buttonsDown>>
  BY DEF SeatInv, SeatTypes, Send, queueVars, seatVars, touchVars, pointerVars
<1>2. wire \o t \in Seq(Messages)
  BY <1>1
<1>3. ASSUME NEW q, NEW down, NEW D, NEW U, ~Has(t, D), LetGo(down, q, wire, D, U) \/ Has(t, U),
             connected
      PROVE  LetGo(down, q, wire', D, U)
  BY <1>1, <1>3, Said
<1>4. connected => wire' = wire \o t
  BY <1>1
<1>5. wire' \in Seq(Messages)
  BY <1>1, <1>2
<1> QED
  BY <1>1, <1>3, <1>4, <1>5

\* The messages of one device leave what is let go of the others.
LEMMA OthersStay ==
  ASSUME SeatInv, NEW t \in Seq(Messages), Send(t), NEW device,
         \A i \in 1..Len(t) : t[i].device = device
  PROVE  /\ device # "touch" /\ finger' = finger => TouchesEnd'
         /\ device # "key" /\ UNCHANGED <<pressedCodes, lostKeys>> => KeysEnd'
         /\ device # "pointer" /\ UNCHANGED <<heldButtons, lostButtons>> => ButtonsEnd'
<1>1. /\ UNCHANGED <<connected, oldWire, touchQueue, mouseQueue, keyQueue, activeTouches,
                     contacts, keysDown, buttonsDown>>
      /\ ~connected => wire' = wire
  BY PageSays DEF Send
<1>2. ASSUME device # "touch", finger' = finger PROVE TouchesEnd'
  <2> SUFFICES ASSUME NEW x \in Ids, finger[x] = "up" \/ ~connected
               PROVE  LetGo(Touching(x), Arrived, wire', Listing("start", x),
                            Listing("end", x) \cup {TouchCancel})
    BY <1>1, <1>2 DEF TouchesEnd, Touching, Arrived, Uncancelled
  <2>1. LetGo(Touching(x), Arrived, wire, Listing("start", x),
              Listing("end", x) \cup {TouchCancel})
    BY DEF SeatInv, TouchesEnd
  <2>2. ~Has(t, Listing("start", x))
    BY <1>2, Devices DEF Has
  <2>3. CASE ~connected
    BY <1>1, <2>1, <2>3
  <2>4. CASE connected
    BY <2>1, <2>2, <2>4, PageSays
  <2> QED BY <2>3, <2>4
<1>3. ASSUME device # "key", UNCHANGED <<pressedCodes, lostKeys>> PROVE KeysEnd'
  <2> SUFFICES ASSUME NEW k \in Keys, k \notin pressedCodes \cup lostKeys
               PROVE  LetGo(k \in keysDown, keyQueue, wire', {Key("down", k)}, {Key("up", k)})
    BY <1>1, <1>3 DEF SeatInv, KeysEnd
  <2>1. LetGo(k \in keysDown, keyQueue, wire, {Key("down", k)}, {Key("up", k)})
    BY DEF SeatInv, KeysEnd
  <2>2. ~Has(t, {Key("down", k)})
    BY <1>3, Devices DEF Has
  <2>3. CASE ~connected
    BY <1>1, <2>1, <2>3
  <2>4. CASE connected
    BY <2>1, <2>2, <2>4, PageSays
  <2> QED BY <2>3, <2>4
<1>4. ASSUME device # "pointer", UNCHANGED <<heldButtons, lostButtons>> PROVE ButtonsEnd'
  <2> SUFFICES ASSUME NEW b \in Buttons, b \notin heldButtons \cup lostButtons
               PROVE  LetGo(b \in buttonsDown, mouseQueue, wire', Pressing("down", b),
                            Pressing("up", b))
    BY <1>1, <1>4 DEF SeatInv, ButtonsEnd
  <2>1. LetGo(b \in buttonsDown, mouseQueue, wire, Pressing("down", b), Pressing("up", b))
    BY DEF SeatInv, ButtonsEnd
  <2>2. ~Has(t, Pressing("down", b))
    BY <1>4, Devices DEF Has
  <2>3. CASE ~connected
    BY <1>1, <2>1, <2>3
  <2>4. CASE connected
    BY <2>1, <2>2, <2>4, PageSays
  <2> QED BY <2>3, <2>4
<1> QED
  BY <1>2, <1>3, <1>4

\* Fingers.
LEMMA FingersKeep ==
  ASSUME SeatInv, NEW id \in Ids, OnTouchStart(id) \/ OnTouchMove(id) \/ OnTouchEnd(id)
  PROVE  SeatInv'
<1>1. /\ UNCHANGED <<pressedCodes, heldButtons, lostKeys, lostButtons>>
      /\ finger' \in [Ids -> {"up", "canvas"}]
  BY DEF OnTouchStart, OnTouchMove, OnTouchEnd, Kept, SeatInv, SeatTypes
<1>2. PICK e \in Of("touch") :
        /\ Send(<<e>>)
        /\ \A x \in Ids : finger'[x] = "up" =>
             /\ e \notin Listing("start", x)
             /\ finger[x] = "up" \/ e \in Listing("end", x) \cup {TouchCancel}
  <2>1. CASE OnTouchStart(id)
    <3>1. PICK others \in SUBSET Down : Send(<<Touch("start", others \cup {id})>>)
      BY <2>1 DEF OnTouchStart
    <3>2. \A x \in Ids : finger'[x] = "up" => x \notin others \cup {id} /\ finger[x] = "up"
      BY <2>1, <3>1 DEF OnTouchStart, Down, SeatInv, SeatTypes
    <3>3. Touch("start", others \cup {id}) \in Of("touch")
      BY <3>1, MessageTypes DEF Down
    <3>4. \A x \in Ids : Touch("start", others \cup {id}) \in Listing("start", x)
                           => x \in others \cup {id}
      BY DEF Listing, Touch
    <3> QED BY <3>1, <3>2, <3>3, <3>4
  <2>2. CASE OnTouchMove(id)
    <3>1. Send(<<Touch("move", Down)>>) /\ finger' = finger /\ Touch("move", Down) \in Of("touch")
      BY <2>2, MessageTypes DEF OnTouchMove, Down
    <3>2. \A x \in Ids : Touch("move", Down) \notin Listing("start", x)
      BY DEF Listing, Touch
    <3> QED BY <3>1, <3>2
  <2>3. CASE OnTouchEnd(id)
    <3>1. PICK e \in {Touch("end", {id}), TouchCancel} : Send(<<e>>)
      BY <2>3 DEF OnTouchEnd
    <3>2. e \in Of("touch")
      BY MessageTypes
    <3>3. \A x \in Ids : e \notin Listing("start", x)
      BY DEF Listing, Touch, TouchCancel
    <3>4. e \in Listing("end", id) \cup {TouchCancel}
      BY DEF Listing
    <3>5. \A x \in Ids : finger'[x] = "up" => finger[x] = "up" \/ x = id
      BY <2>3 DEF OnTouchEnd, SeatInv, SeatTypes
    <3> QED BY <3>1, <3>2, <3>3, <3>4, <3>5
  <2> QED BY <2>1, <2>2, <2>3
<1>3. e \in Messages /\ <<e>> \in Seq(Messages) /\ e.device = "touch"
  BY OneMessage DEF Of
<1>4. \A U : Has(<<e>>, U) <=> e \in U
  BY <1>3, OneMessage
<1>5. /\ wire' \in Seq(Messages)
      /\ UNCHANGED <<connected, oldWire, touchQueue, mouseQueue, keyQueue, activeTouches,
                     contacts, keysDown, buttonsDown>>
      /\ ~connected => wire' = wire
  BY <1>2, <1>3, PageSays DEF Send
<1>6. SeatTypes'
  BY <1>1, <1>5 DEF SeatInv, SeatTypes
<1>7. TouchesEnd'
  <2> SUFFICES ASSUME NEW x \in Ids, finger'[x] = "up" \/ ~connected
               PROVE  LetGo(Touching(x), Arrived, wire', Listing("start", x),
                            Listing("end", x) \cup {TouchCancel})
    BY <1>5 DEF TouchesEnd, Touching, Arrived, Uncancelled
  <2>1. CASE ~connected
    BY <1>5, <2>1 DEF SeatInv, TouchesEnd
  <2>2. CASE connected
    <3>1. e \notin Listing("start", x)
          /\ (finger[x] = "up" \/ e \in Listing("end", x) \cup {TouchCancel})
      BY <1>2, <2>2
    <3>2. ~Has(<<e>>, Listing("start", x))
          /\ (finger[x] = "up" \/ Has(<<e>>, Listing("end", x) \cup {TouchCancel}))
      BY <1>4, <3>1
    <3>3. finger[x] = "up" => LetGo(Touching(x), Arrived, wire, Listing("start", x),
                                    Listing("end", x) \cup {TouchCancel})
      BY DEF SeatInv, TouchesEnd
    <3> QED BY <1>2, <1>3, <2>2, <3>2, <3>3, PageSays
  <2> QED BY <2>1, <2>2
<1>8. KeysEnd' /\ ButtonsEnd'
  <2>1. \A i \in 1..Len(<<e>>) : <<e>>[i].device = "touch"
    BY <1>3
  <2> QED BY <1>1, <1>2, <1>3, <2>1, OthersStay
<1> QED
  BY <1>6, <1>7, <1>8 DEF SeatInv

\* Buttons, moves and the wheel.
LEMMA PointerKeeps ==
  ASSUME SeatInv,
         \/ \E b \in Buttons, spot \in Spots :
              OnPointerDown(b, spot) \/ OnPointerUp(b, spot) \/ Chord(b, spot)
         \/ OnPointerCancel
         \/ \E spot \in Spots : OnPointerMove(spot) \/ OnWheel(spot)
  PROVE  SeatInv'
<1>1. UNCHANGED <<finger, pressedCodes, lostKeys>> /\ heldButtons' \subseteq Buttons
  BY DEF OnPointerDown, OnPointerUp, Chord, OnPointerCancel, OnPointerMove, OnWheel, Kept,
     SeatInv, SeatTypes
<1> DEFINE Fits(e) ==
      /\ Send(<<e>>)
      /\ \A x \in Buttons : x \notin heldButtons' \cup lostButtons' =>
           /\ e \notin Pressing("down", x)
           /\ x \notin heldButtons \cup lostButtons \/ (connected /\ e \in Pressing("up", x))
      /\ \A x \in Buttons : x \notin lostButtons' => x \notin lostButtons \/ oldWire = << >>
<1>2. PICK e \in Of("pointer") : Fits(e)
  <2>1. ASSUME NEW b \in Buttons, NEW spot \in Spots, OnPointerDown(b, spot)
        PROVE  \E e \in Of("pointer") : Fits(e)
    <3>1. /\ Send(<<Press("down", b, spot)>>) /\ heldButtons = {} /\ heldButtons' = {b}
          /\ lostButtons' = lostButtons /\ Press("down", b, spot) \in Of("pointer")
      BY <2>1, MessageTypes DEF OnPointerDown, Kept
    <3>2. \A x \in Buttons : Press("down", b, spot) \in Pressing("down", x) => x = b
      BY DEF Pressing, Press
    <3>3. Fits(Press("down", b, spot))
      BY <3>1, <3>2
    <3> QED BY <3>1, <3>3
  <2>2. ASSUME NEW b \in Buttons, NEW spot \in Spots, OnPointerUp(b, spot)
        PROVE  \E e \in Of("pointer") : Fits(e)
    <3>1. /\ Send(<<Press("up", b, spot)>>) /\ heldButtons = {b} /\ heldButtons' = {}
          /\ lostButtons' = Told(lostButtons, {b})
          /\ Press("up", b, spot) \in Of("pointer")
      BY <2>2, MessageTypes DEF OnPointerUp
    <3>2. \A x \in Buttons : Press("up", b, spot) \notin Pressing("down", x)
      BY DEF Pressing, Press
    <3>3. Press("up", b, spot) \in Pressing("up", b)
      BY DEF Pressing
    <3>4. connected \in BOOLEAN
      BY DEF SeatInv, SeatTypes
    <3>5. \A x \in Buttons : x \notin lostButtons' =>
            /\ x \notin lostButtons \/ (connected /\ x = b)
            /\ x \notin lostButtons \/ oldWire = << >>
            /\ connected \/ x # b
      BY <3>1, <3>4 DEF Told
    <3>6. Fits(Press("up", b, spot))
      BY <3>1, <3>2, <3>3, <3>5
    <3> QED BY <3>1, <3>6
  <2>3. ASSUME NEW spot \in Spots,
               NEW e \in {Relative, PointerCancel, Point("move", spot), Point("wheel", spot)},
               Send(<<e>>),
               heldButtons \cup lostButtons \subseteq heldButtons' \cup lostButtons',
               lostButtons \subseteq lostButtons'
        PROVE  \E m \in Of("pointer") : Fits(m)
    <3>1. \A x \in Buttons : e \notin Pressing("down", x)
      BY DEF Pressing, Press, Relative, PointerCancel, Point
    <3>2. e \in Of("pointer")
      BY MessageTypes
    <3>3. Fits(e)
      BY <2>3, <3>1
    <3> QED BY <3>2, <3>3
  <2>4. ASSUME NEW spot \in Spots, SendMove(spot)
        PROVE  Send(<<Relative>>) \/ Send(<<Point("move", spot)>>)
    BY <2>4 DEF SendMove
  <2> HIDE DEF Fits
  <2>5. ASSUME NEW b \in Buttons, NEW spot \in Spots, Chord(b, spot)
        PROVE  \E e \in Of("pointer") : Fits(e)
    <3>1. /\ heldButtons \cup lostButtons \subseteq heldButtons' \cup lostButtons'
          /\ lostButtons \subseteq lostButtons' /\ SendMove(spot)
      BY <2>5 DEF Chord
    <3> QED BY <2>3, <2>4, <3>1
  <2>6. ASSUME OnPointerCancel PROVE \E e \in Of("pointer") : Fits(e)
    <3>1. /\ heldButtons \cup lostButtons \subseteq heldButtons' \cup lostButtons'
          /\ lostButtons \subseteq lostButtons' /\ Send(<<PointerCancel>>)
      BY <2>6 DEF OnPointerCancel
    <3>2. 1 \in Spots
      BY DEF Spots
    <3> QED BY <2>3, <3>1, <3>2
  <2>7. ASSUME NEW spot \in Spots, OnPointerMove(spot) \/ OnWheel(spot)
        PROVE  \E e \in Of("pointer") : Fits(e)
    <3>1. /\ heldButtons \cup lostButtons \subseteq heldButtons' \cup lostButtons'
          /\ lostButtons \subseteq lostButtons'
          /\ SendMove(spot) \/ Send(<<Point("wheel", spot)>>)
      BY <2>7 DEF OnPointerMove, OnWheel, Kept
    <3> QED BY <2>3, <2>4, <3>1
  <2> QED BY <2>1, <2>2, <2>5, <2>6, <2>7
<1>3. e \in Messages /\ <<e>> \in Seq(Messages) /\ e.device = "pointer"
  BY OneMessage DEF Of
<1>4. \A U : Has(<<e>>, U) <=> e \in U
  BY <1>3, OneMessage
<1>5. /\ wire' \in Seq(Messages)
      /\ UNCHANGED <<connected, oldWire, touchQueue, mouseQueue, keyQueue, activeTouches,
                     contacts, keysDown, buttonsDown>>
      /\ ~connected => wire' = wire
  BY <1>2, <1>3, PageSays DEF Send
<1>6. SeatTypes'
  BY <1>1, <1>5 DEF SeatInv, SeatTypes
<1>7. TouchesEnd' /\ KeysEnd'
  <2>1. \A i \in 1..Len(<<e>>) : <<e>>[i].device = "pointer"
    BY <1>3
  <2> QED BY <1>1, <1>2, <1>3, <2>1, OthersStay
<1>8. ButtonsEnd'
  <2> SUFFICES ASSUME NEW x \in Buttons, x \notin heldButtons' \cup lostButtons'
               PROVE  LetGo(x \in buttonsDown, mouseQueue, wire', Pressing("down", x),
                            Pressing("up", x))
    <3>1. ASSUME NEW x \in Buttons, x \notin lostButtons'
          PROVE  ~Has(oldWire, Pressing("down", x) \cup Pressing("up", x))
      BY <1>2, <3>1, NothingComes DEF SeatInv, ButtonsEnd
    <3> QED BY <1>5, <3>1 DEF ButtonsEnd
  <2>1. ~Has(<<e>>, Pressing("down", x)) /\ (x \notin heldButtons \cup lostButtons
          \/ (connected /\ Has(<<e>>, Pressing("up", x))))
    BY <1>2, <1>4
  <2>2. x \notin heldButtons \cup lostButtons =>
          LetGo(x \in buttonsDown, mouseQueue, wire, Pressing("down", x), Pressing("up", x))
    BY DEF SeatInv, ButtonsEnd
  <2>3. CASE ~connected
    BY <1>5, <2>1, <2>2, <2>3
  <2>4. CASE connected
    BY <1>2, <1>3, <2>1, <2>2, <2>4, PageSays
  <2> QED BY <2>3, <2>4
<1> QED
  BY <1>6, <1>7, <1>8 DEF SeatInv

\* Keys, one by one or all that are pressed.
LEMMA KeysKeep ==
  ASSUME SeatInv,
         \/ \E k \in Keys : OnKeyDown(k) \/ OnKeyUp(k)
         \/ ReleaseAllKeys
  PROVE  SeatInv'
<1>1. /\ UNCHANGED <<finger, heldButtons, lostButtons>>
      /\ pressedCodes' \subseteq Keys /\ IsFiniteSet(pressedCodes')
  <2>1. ASSUME NEW k \in Keys, OnKeyDown(k)
        PROVE  pressedCodes' \subseteq Keys /\ IsFiniteSet(pressedCodes')
    BY <2>1, FS_AddElement DEF OnKeyDown, SeatInv, SeatTypes
  <2>2. ASSUME NEW ks, Release(ks)
        PROVE  pressedCodes' \subseteq Keys /\ IsFiniteSet(pressedCodes')
    <3>1. pressedCodes' = pressedCodes \ ks /\ pressedCodes' \in SUBSET pressedCodes
      BY <2>2 DEF Release
    <3> QED BY <3>1, FS_Subset DEF SeatInv, SeatTypes
  <2> QED BY <2>1, <2>2 DEF OnKeyDown, OnKeyUp, ReleaseAllKeys, Release, Kept
<1> DEFINE Fits(t) ==
      /\ Send(t)
      /\ \A x \in Keys : x \notin pressedCodes' \cup lostKeys' =>
           /\ ~Has(t, {Key("down", x)})
           /\ x \notin pressedCodes \cup lostKeys \/ (connected /\ Has(t, {Key("up", x)}))
      /\ \A x \in Keys : x \notin lostKeys' => x \notin lostKeys \/ oldWire = << >>
<1>2. PICK t \in Seq(Of("key")) : Fits(t)
  <2>1. ASSUME NEW k \in Keys, OnKeyDown(k)
        PROVE  \E t \in Seq(Of("key")) : Fits(t)
    <3>1. /\ Send(<<Key("down", k)>>) /\ pressedCodes' = pressedCodes \cup {k}
          /\ lostKeys' = lostKeys /\ Key("down", k) \in Of("key")
      BY <2>1, MessageTypes DEF OnKeyDown, Kept
    <3>2. \A x \in Keys : Key("down", k) = Key("down", x) => x = k
      BY DEF Key
    <3>3. /\ <<Key("down", k)>> \in Seq(Of("key"))
          /\ \A U : Has(<<Key("down", k)>>, U) => Key("down", k) \in U
      BY <3>1, OneMessage DEF Of
    <3>4. Fits(<<Key("down", k)>>)
      BY <3>1, <3>2, <3>3
    <3> QED BY <3>3, <3>4
  <2>2. ASSUME NEW ks \in SUBSET Keys, IsFiniteSet(ks), Release(ks)
        PROVE  \E t \in Seq(Of("key")) : Fits(t)
    <3> DEFINE t == SetToSeq({Key("up", k) : k \in ks})
    <3>1. /\ Send(t) /\ pressedCodes' = pressedCodes \ ks
          /\ lostKeys' = Told(lostKeys, ks)
      BY <2>2 DEF Release
    <3>2. t \in Seq({Key("up", k) : k \in ks}) /\ \A k \in ks : Has(t, {Key("up", k)})
      BY <2>2, Releases
    <3> HIDE DEF t
    <3>3. {Key("up", k) : k \in ks} \subseteq Of("key")
      BY MessageTypes
    <3>4. \A i \in 1..Len(t) : t[i].kind = "up"
      BY <3>2 DEF Key
    <3>5. \A x \in Keys : ~Has(t, {Key("down", x)})
      BY <3>4 DEF Has, Key
    <3>6. t \in Seq(Of("key"))
      BY <3>2, <3>3
    <3>7. connected \in BOOLEAN
      BY DEF SeatInv, SeatTypes
    <3>8. \A x \in Keys : x \notin lostKeys' =>
            /\ x \notin lostKeys \/ (connected /\ x \in ks)
            /\ x \notin lostKeys \/ oldWire = << >>
            /\ connected \/ x \notin ks
      BY <3>1, <3>7 DEF Told
    <3>9. Fits(t)
      BY <3>1, <3>2, <3>5, <3>8
    <3> QED BY <3>6, <3>9
  <2>3. \A k \in Keys : {k} \in SUBSET Keys /\ IsFiniteSet({k})
    BY FS_Singleton
  <2>4. pressedCodes \in SUBSET Keys /\ IsFiniteSet(pressedCodes)
    BY DEF SeatInv, SeatTypes
  <2>5. \/ \E k \in Keys : OnKeyDown(k)
        \/ \E ks \in SUBSET Keys : IsFiniteSet(ks) /\ Release(ks)
    BY <2>3, <2>4 DEF OnKeyUp, ReleaseAllKeys
  <2> QED BY <2>1, <2>2, <2>5
<1>3. t \in Seq(Messages) /\ \A i \in 1..Len(t) : t[i].device = "key"
  BY DEF Of
<1>4. /\ wire' \in Seq(Messages)
      /\ UNCHANGED <<connected, oldWire, touchQueue, mouseQueue, keyQueue, activeTouches,
                     contacts, keysDown, buttonsDown>>
      /\ ~connected => wire' = wire
  BY <1>2, <1>3, PageSays DEF Send
<1>5. SeatTypes'
  BY <1>1, <1>4 DEF SeatInv, SeatTypes
<1>6. TouchesEnd' /\ ButtonsEnd'
  <2>1. Send(t) /\ finger' = finger /\ UNCHANGED <<heldButtons, lostButtons>>
    BY <1>1, <1>2
  <2>2. "key" # "touch" /\ "key" # "pointer"
    OBVIOUS
  <2>3. t \in Seq(Messages) /\ \A i \in 1..Len(t) : t[i].device = "key"
    BY <1>3
  <2>4. TouchesEnd'
    BY <2>1, <2>2, <2>3, OthersStay
  <2>5. ButtonsEnd'
    BY <2>1, <2>2, <2>3, OthersStay
  <2> QED BY <2>4, <2>5
<1>7. KeysEnd'
  <2> SUFFICES ASSUME NEW x \in Keys, x \notin pressedCodes' \cup lostKeys'
               PROVE  LetGo(x \in keysDown, keyQueue, wire', {Key("down", x)}, {Key("up", x)})
    <3>1. ASSUME NEW x \in Keys, x \notin lostKeys'
          PROVE  ~Has(oldWire, {Key("down", x), Key("up", x)})
      BY <1>2, <3>1, NothingComes DEF SeatInv, KeysEnd
    <3> QED BY <1>4, <3>1 DEF KeysEnd
  <2>1. ~Has(t, {Key("down", x)}) /\ (x \notin pressedCodes \cup lostKeys
          \/ (connected /\ Has(t, {Key("up", x)})))
    BY <1>2
  <2>2. x \notin pressedCodes \cup lostKeys =>
          LetGo(x \in keysDown, keyQueue, wire, {Key("down", x)}, {Key("up", x)})
    BY DEF SeatInv, KeysEnd
  <2>3. CASE ~connected
    BY <1>4, <2>1, <2>2, <2>3
  <2>4. CASE connected
    BY <1>2, <1>3, <2>1, <2>2, <2>4, PageSays
  <2> QED BY <2>3, <2>4
<1> QED
  BY <1>5, <1>6, <1>7 DEF SeatInv

(***************************************************************************)
(* The steps of the connection and of the drain.                            *)
(***************************************************************************)

\* Where a message of a handler goes.
LEMMA Delivers ==
  ASSUME SeatInv, NEW e \in Messages, Deliver(e)
  PROVE  /\ UNCHANGED <<finger, pressedCodes, heldButtons, connected, lostKeys, lostButtons,
                        activeTouches, contacts, keysDown, buttonsDown>>
         /\ touchQueue \in Seq(Messages) /\ mouseQueue \in Seq(Messages) /\ keyQueue \in Seq(Messages)
         /\ touchQueue' \in Seq(Of("touch")) /\ mouseQueue' \in Seq(Of("pointer"))
         /\ keyQueue' \in Seq(Of("key"))
         /\ touchQueue' = Append(touchQueue, e) \/ (touchQueue' = touchQueue /\ (e.device # "touch" \/ e.kind = "move"))
         /\ mouseQueue' = Append(mouseQueue, e) \/ (mouseQueue' = mouseQueue /\ (e.device # "pointer" \/ e.kind = "move"))
         /\ keyQueue' = Append(keyQueue, e) \/ (keyQueue' = keyQueue /\ (e.device # "key" \/ e.kind = "move"))
<1>1. UNCHANGED <<finger, pressedCodes, heldButtons, connected, lostKeys, lostButtons,
                  activeTouches, contacts, keysDown, buttonsDown>>
  BY DEF Deliver, pageVars, seatVars, touchVars, pointerVars
<1>2. \/ /\ e.device = "touch" /\ UNCHANGED <<mouseQueue, keyQueue>>
         /\ touchQueue' = Append(touchQueue, e) \/ (touchQueue' = touchQueue /\ e.kind = "move")
      \/ /\ e.device = "pointer" /\ UNCHANGED <<touchQueue, keyQueue>>
         /\ mouseQueue' = Append(mouseQueue, e) \/ (mouseQueue' = mouseQueue /\ e.kind = "move")
      \/ /\ e.device = "key" /\ UNCHANGED <<touchQueue, mouseQueue>>
         /\ keyQueue' = Append(keyQueue, e) \/ (keyQueue' = keyQueue /\ e.kind = "move")
  BY DEF Deliver, Offer, MayDrop
<1>3. /\ touchQueue \in Seq(Of("touch"))
      /\ mouseQueue \in Seq(Of("pointer"))
      /\ keyQueue \in Seq(Of("key"))
  BY DEF SeatInv, SeatTypes
<1>4. /\ touchQueue \in Seq(Messages) /\ mouseQueue \in Seq(Messages) /\ keyQueue \in Seq(Messages)
  BY <1>3 DEF Of
<1>5. /\ e.device = "touch" => e \in Of("touch")
      /\ e.device = "pointer" => e \in Of("pointer")
      /\ e.device = "key" => e \in Of("key")
  BY DEF Of
<1>6. \A S : \A q \in Seq(S) : e \in S => Append(q, e) \in Seq(S)
  OBVIOUS
<1>7. CASE e.device = "touch"
  BY <1>1, <1>2, <1>3, <1>4, <1>5, <1>6, <1>7
<1>8. CASE e.device = "pointer"
  BY <1>1, <1>2, <1>3, <1>4, <1>5, <1>6, <1>8
<1>9. CASE e.device = "key"
  BY <1>1, <1>2, <1>3, <1>4, <1>5, <1>6, <1>9
<1> QED
  BY <1>2, <1>7, <1>8, <1>9

\* What is not dispatched keeps its order; what may be dropped lets go of
\* nothing.
LEMMA DispatchKeeps == SeatInv /\ Dispatch => SeatInv'
<1> SUFFICES ASSUME SeatInv, Dispatch PROVE SeatInv'
  OBVIOUS
<1>0. /\ wire \in Seq(Messages) /\ wire # << >> /\ wire' = Tail(wire) /\ oldWire' = oldWire
      /\ Head(wire) \in Messages /\ wire' \in Seq(Messages)
  BY DEF Dispatch, SeatInv, SeatTypes
<1>1. PICK e \in Messages :
        /\ e = Head(wire) /\ Deliver(e) /\ wire \in Seq(Messages) /\ wire # << >>
        /\ wire' = Tail(wire) /\ oldWire' = oldWire /\ wire' \in Seq(Messages)
  BY <1>0 DEF Dispatch, Deliver
<1>2. /\ UNCHANGED <<finger, pressedCodes, heldButtons, connected, lostKeys, lostButtons,
                     activeTouches, contacts, keysDown, buttonsDown>>
      /\ touchQueue \in Seq(Messages) /\ mouseQueue \in Seq(Messages) /\ keyQueue \in Seq(Messages)
      /\ touchQueue' \in Seq(Of("touch")) /\ mouseQueue' \in Seq(Of("pointer"))
      /\ keyQueue' \in Seq(Of("key"))
  BY <1>1, Delivers
<1>3. /\ touchQueue' = Append(touchQueue, e) \/ (touchQueue' = touchQueue /\ (e.device # "touch" \/ e.kind = "move"))
      /\ mouseQueue' = Append(mouseQueue, e) \/ (mouseQueue' = mouseQueue /\ (e.device # "pointer" \/ e.kind = "move"))
      /\ keyQueue' = Append(keyQueue, e) \/ (keyQueue' = keyQueue /\ (e.device # "key" \/ e.kind = "move"))
  BY <1>1, Delivers
<1>4. SeatTypes'
  BY <1>1, <1>2 DEF SeatInv, SeatTypes
<1>5. ASSUME NEW q \in Seq(Messages), NEW down, NEW D, NEW U, LetGo(down, q, wire, D, U), NEW p,
             p = Append(q, e) \/ (p = q /\ e \notin D \cup U)
      PROVE  LetGo(down, p, wire', D, U)
  BY <1>1, <1>5, Delivered
<1>6. TouchesEnd'
  <2> SUFFICES ASSUME NEW x \in Ids, finger[x] = "up" \/ ~connected
               PROVE  LetGo(Touching(x)', Arrived', wire', Listing("start", x),
                            Listing("end", x) \cup {TouchCancel})
    BY <1>2 DEF TouchesEnd
  <2>1. LetGo(Touching(x), Arrived, wire, Listing("start", x),
              Listing("end", x) \cup {TouchCancel})
    BY DEF SeatInv, TouchesEnd
  <2>2. CASE oldWire = << >>
    <3>1. /\ Touching(x)' = (x \in activeTouches) /\ Touching(x) = (x \in activeTouches)
          /\ Arrived' = touchQueue' /\ Arrived = touchQueue
      BY <1>1, <1>2, <2>2 DEF Touching, Arrived, Uncancelled
    <3>2. e.device # "touch" \/ e.kind = "move" =>
            e \notin Listing("start", x) \cup (Listing("end", x) \cup {TouchCancel})
      BY Devices
    <3> QED BY <1>2, <1>3, <1>5, <2>1, <3>1, <3>2
  <2>3. CASE oldWire # << >>
    <3>1. /\ Touching(x)' = FALSE /\ Touching(x) = FALSE
          /\ Arrived' = << >> /\ Arrived = << >>
      BY <1>1, <2>3 DEF Touching, Arrived, Uncancelled
    <3>2. LetGo(FALSE, << >>, wire, Listing("start", x), Listing("end", x) \cup {TouchCancel})
      BY <2>1, <3>1
    <3>3. << >> \in Seq(Messages)
      OBVIOUS
    <3>4. LetGo(FALSE, << >>, Tail(wire), Listing("start", x), Listing("end", x) \cup {TouchCancel})
      BY <1>1, <3>2, <3>3, Delivered
    <3> QED BY <1>1, <3>1, <3>4
  <2> QED BY <2>2, <2>3
<1>7. KeysEnd'
  <2> SUFFICES ASSUME NEW k \in Keys, k \notin pressedCodes \cup lostKeys
               PROVE  LetGo(k \in keysDown, keyQueue', wire', {Key("down", k)}, {Key("up", k)})
    BY <1>1, <1>2 DEF SeatInv, KeysEnd
  <2>1. LetGo(k \in keysDown, keyQueue, wire, {Key("down", k)}, {Key("up", k)})
    BY DEF SeatInv, KeysEnd
  <2>2. e.device # "key" \/ e.kind = "move" => e \notin {Key("down", k)} \cup {Key("up", k)}
    BY Devices
  <2> QED BY <1>2, <1>3, <1>5, <2>1, <2>2
<1>8. ButtonsEnd'
  <2> SUFFICES ASSUME NEW b \in Buttons, b \notin heldButtons \cup lostButtons
               PROVE  LetGo(b \in buttonsDown, mouseQueue', wire', Pressing("down", b),
                            Pressing("up", b))
    BY <1>1, <1>2 DEF SeatInv, ButtonsEnd
  <2>1. LetGo(b \in buttonsDown, mouseQueue, wire, Pressing("down", b), Pressing("up", b))
    BY DEF SeatInv, ButtonsEnd
  <2>2. e.device # "pointer" \/ e.kind = "move" => e \notin Pressing("down", b) \cup Pressing("up", b)
    BY Devices
  <2> QED BY <1>2, <1>3, <1>5, <2>1, <2>2
<1> QED
  BY <1>4, <1>6, <1>7, <1>8 DEF SeatInv

\* The handler before speaks of nothing that counts, until its cancel lets go
\* of every finger.
LEMMA DispatchOldKeeps == SeatInv /\ DispatchOld => SeatInv'
<1> SUFFICES ASSUME SeatInv, DispatchOld PROVE SeatInv'
  OBVIOUS
<1>0. /\ oldWire \in Seq(Messages) /\ oldWire # << >> /\ oldWire' = Tail(oldWire) /\ wire' = wire
      /\ Head(oldWire) \in Messages /\ oldWire' \in Seq(Messages)
      /\ oldWire[Len(oldWire)] = TouchCancel
  BY DEF DispatchOld, SeatInv, SeatTypes
<1>1. PICK e \in Messages :
        /\ e = Head(oldWire) /\ Deliver(e) /\ oldWire \in Seq(Messages) /\ oldWire # << >>
        /\ oldWire' = Tail(oldWire) /\ wire' = wire /\ oldWire' \in Seq(Messages)
        /\ oldWire[Len(oldWire)] = TouchCancel
  BY <1>0 DEF DispatchOld, Deliver
<1>2. /\ oldWire' # << >> => oldWire'[Len(oldWire')] = TouchCancel
      /\ oldWire' = << >> => e = TouchCancel
  <2>1. /\ Len(oldWire) \in Nat \ {0} /\ Len(Tail(oldWire)) = Len(oldWire) - 1
        /\ \A i \in 1..Len(Tail(oldWire)) : Tail(oldWire)[i] = oldWire[i + 1]
        /\ Head(oldWire) = oldWire[1]
    BY <1>1
  <2>2. Tail(oldWire) # << >> => Len(Tail(oldWire)) \in 1..Len(Tail(oldWire))
    BY <1>1
  <2>3. Tail(oldWire) = << >> => Len(oldWire) = 1
    BY <2>1
  <2> QED BY <1>1, <2>1, <2>2, <2>3
<1>3. /\ UNCHANGED <<finger, pressedCodes, heldButtons, connected, lostKeys, lostButtons,
                     activeTouches, contacts, keysDown, buttonsDown>>
      /\ touchQueue \in Seq(Messages) /\ mouseQueue \in Seq(Messages) /\ keyQueue \in Seq(Messages)
      /\ touchQueue' \in Seq(Of("touch")) /\ mouseQueue' \in Seq(Of("pointer"))
      /\ keyQueue' \in Seq(Of("key"))
  BY <1>1, Delivers
<1>4. /\ touchQueue' = Append(touchQueue, e) \/ (touchQueue' = touchQueue /\ (e.device # "touch" \/ e.kind = "move"))
      /\ mouseQueue' = Append(mouseQueue, e) \/ mouseQueue' = mouseQueue
      /\ keyQueue' = Append(keyQueue, e) \/ keyQueue' = keyQueue
  BY <1>1, Delivers
<1>5. SeatTypes'
  BY <1>1, <1>2, <1>3 DEF SeatInv, SeatTypes
<1>6. TouchesEnd'
  <2> SUFFICES ASSUME NEW x \in Ids, finger[x] = "up" \/ ~connected
               PROVE  LetGo(Touching(x)', Arrived', wire, Listing("start", x),
                            Listing("end", x) \cup {TouchCancel})
    BY <1>1, <1>3 DEF TouchesEnd
  <2>1. LetGo(FALSE, << >>, wire, Listing("start", x), Listing("end", x) \cup {TouchCancel})
    <3>1. LetGo(Touching(x), Arrived, wire, Listing("start", x), Listing("end", x) \cup {TouchCancel})
      BY DEF SeatInv, TouchesEnd
    <3>2. Touching(x) = FALSE /\ Arrived = << >>
      BY <1>1 DEF Touching, Arrived, Uncancelled
    <3> QED BY <3>1, <3>2
  <2>2. CASE oldWire' # << >>
    <3>1. Touching(x)' = FALSE /\ Arrived' = << >>
      BY <2>2 DEF Touching, Arrived, Uncancelled
    <3> QED BY <2>1, <3>1
  <2>3. CASE oldWire' = << >>
    <3>1. e = TouchCancel
      BY <1>2, <2>3
    <3>2. TouchCancel.device = "touch" /\ TouchCancel.kind # "move"
      BY DEF TouchCancel
    <3>3. touchQueue' = Append(touchQueue, TouchCancel)
      BY <1>4, <3>1, <3>2
    <3>4. Touching(x)' = (x \in activeTouches) /\ Arrived' = touchQueue'
      BY <1>3, <2>3 DEF Touching, Arrived, Uncancelled
    <3>5. TouchCancel \notin Listing("start", x)
      BY DEF TouchCancel, Listing, Touch
    <3>6. TouchCancel \in Listing("end", x) \cup {TouchCancel}
      OBVIOUS
    <3>7. LetGo(x \in activeTouches, Append(touchQueue, TouchCancel), wire, Listing("start", x),
                Listing("end", x) \cup {TouchCancel})
      BY <1>3, <2>1, <3>5, <3>6, Beside
    <3> QED BY <3>3, <3>4, <3>7
  <2> QED BY <2>2, <2>3
<1>7. KeysEnd'
  <2>1. ASSUME NEW k \in Keys, k \notin lostKeys
        PROVE  /\ ~Has(oldWire', {Key("down", k), Key("up", k)})
               /\ e \notin {Key("down", k), Key("up", k)}
    BY <1>1, <2>1, StillQuiet DEF SeatInv, KeysEnd
  <2>2. ASSUME NEW k \in Keys, k \notin pressedCodes \cup lostKeys
        PROVE  LetGo(k \in keysDown, keyQueue', wire, {Key("down", k)}, {Key("up", k)})
    <3>1. LetGo(k \in keysDown, keyQueue, wire, {Key("down", k)}, {Key("up", k)})
      BY <2>2 DEF SeatInv, KeysEnd
    <3>2. e \notin {Key("down", k)}
      BY <2>1, <2>2
    <3>3. LetGo(k \in keysDown, Append(keyQueue, e), wire, {Key("down", k)}, {Key("up", k)})
      BY <1>3, <3>1, <3>2, Beside
    <3> QED BY <1>4, <3>1, <3>3
  <2> QED BY <1>1, <1>3, <2>1, <2>2 DEF KeysEnd
<1>8. ButtonsEnd'
  <2>1. ASSUME NEW b \in Buttons, b \notin lostButtons
        PROVE  /\ ~Has(oldWire', Pressing("down", b) \cup Pressing("up", b))
               /\ e \notin Pressing("down", b) \cup Pressing("up", b)
    BY <1>1, <2>1, StillQuiet DEF SeatInv, ButtonsEnd
  <2>2. ASSUME NEW b \in Buttons, b \notin heldButtons \cup lostButtons
        PROVE  LetGo(b \in buttonsDown, mouseQueue', wire, Pressing("down", b), Pressing("up", b))
    <3>1. LetGo(b \in buttonsDown, mouseQueue, wire, Pressing("down", b), Pressing("up", b))
      BY <2>2 DEF SeatInv, ButtonsEnd
    <3>2. e \notin Pressing("down", b)
      BY <2>1, <2>2
    <3>3. LetGo(b \in buttonsDown, Append(mouseQueue, e), wire, Pressing("down", b), Pressing("up", b))
      BY <1>3, <3>1, <3>2, Beside
    <3> QED BY <1>4, <3>1, <3>3
  <2> QED BY <1>1, <1>3, <2>1, <2>2 DEF ButtonsEnd
<1> QED
  BY <1>5, <1>6, <1>7, <1>8 DEF SeatInv

\* The handler's cancel is still to come; keys and buttons it speaks of, and
\* those whose messages are lost, are noted.
LEMMA LeaveKeeps == SeatInv /\ Leave => SeatInv'
<1> SUFFICES ASSUME SeatInv, Leave PROVE SeatInv'
  OBVIOUS
<1>1. /\ connected' = FALSE /\ oldWire = << >> /\ wire' = << >> /\ wire \in Seq(Messages)
      /\ lostKeys' = lostKeys \cup
           {k \in Keys : \E i \in 1..Len(wire) : wire[i] \in {Key("down", k), Key("up", k)}}
      /\ lostButtons' = lostButtons \cup
           {b \in Buttons : \E i \in 1..Len(wire), s \in Spots :
                             wire[i] \in {Press("down", b, s), Press("up", b, s)}}
      /\ UNCHANGED <<finger, pressedCodes, heldButtons, touchQueue, mouseQueue, keyQueue,
                     activeTouches, contacts, keysDown, buttonsDown>>
  BY DEF Leave, queueVars, seatVars, touchVars, pointerVars, SeatInv, SeatTypes
<1>2. PICK n \in 0..Len(wire) : oldWire' = Append(SubSeq(wire, 1, n), TouchCancel)
  BY DEF Leave
<1>3. TouchCancel \in Messages /\ TouchCancel.device = "touch"
  BY MessageTypes DEF Of
<1>4. SubSeq(wire, 1, n) \in Seq(Messages) /\ Len(SubSeq(wire, 1, n)) = n
      /\ \A i \in 1..n : SubSeq(wire, 1, n)[i] = wire[i] /\ i \in 1..Len(wire)
  BY <1>1
<1>5. /\ oldWire' \in Seq(Messages) /\ Len(oldWire') = n + 1 /\ oldWire'[n + 1] = TouchCancel
      /\ oldWire' # << >>
      /\ \A i \in 1..n : oldWire'[i] = wire[i] /\ i \in 1..Len(wire)
  <2>1. \A s \in Seq(Messages) :
          LET t == Append(s, TouchCancel) IN
          /\ t \in Seq(Messages) /\ Len(t) = Len(s) + 1 /\ t[Len(s) + 1] = TouchCancel /\ t # << >>
          /\ \A i \in 1..Len(s) : t[i] = s[i]
    BY <1>3
  <2> DEFINE s == SubSeq(wire, 1, n)
  <2>2. s \in Seq(Messages) /\ Len(s) = n /\ oldWire' = Append(s, TouchCancel)
        /\ \A i \in 1..n : s[i] = wire[i] /\ i \in 1..Len(wire)
    BY <1>2, <1>4
  <2> HIDE DEF s
  <2> QED BY <2>1, <2>2
<1>6. SeatTypes'
  BY <1>1, <1>5 DEF SeatInv, SeatTypes
<1>7. \A D, U : LetGo(FALSE, << >>, << >>, D, U)
  BY NothingComes
<1>8. TouchesEnd'
  <2>1. \A x \in Ids : Touching(x)' = FALSE /\ Arrived' = << >>
    BY <1>5 DEF Touching, Arrived, Uncancelled
  <2> QED BY <1>1, <1>7, <2>1 DEF TouchesEnd
<1>9. KeysEnd'
  <2>1. ASSUME NEW k \in Keys, k \notin lostKeys'
        PROVE  /\ ~Has(wire, {Key("down", k), Key("up", k)})
               /\ ~Has(oldWire', {Key("down", k), Key("up", k)})
    <3>1. ~Has(wire, {Key("down", k), Key("up", k)})
      BY <1>1, <2>1 DEF Has
    <3>2. TouchCancel \notin {Key("down", k), Key("up", k)}
      BY DEF TouchCancel, Key
    <3>3. ASSUME NEW i \in 1..(n + 1), oldWire'[i] \in {Key("down", k), Key("up", k)} PROVE FALSE
      <4>1. i \in 1..n
        BY <1>5, <3>2, <3>3
      <4> QED BY <1>5, <3>1, <3>3, <4>1 DEF Has
    <3> QED BY <1>5, <3>1, <3>3 DEF Has
  <2>2. ASSUME NEW k \in Keys, k \notin pressedCodes \cup lostKeys'
        PROVE  LetGo(k \in keysDown, keyQueue, << >>, {Key("down", k)}, {Key("up", k)})
    <3>1. LetGo(k \in keysDown, keyQueue, wire, {Key("down", k)}, {Key("up", k)})
      BY <1>1, <2>2 DEF SeatInv, KeysEnd
    <3>2. ~Has(wire, {Key("up", k)})
      BY <2>1, <2>2 DEF Has
    <3> QED BY <3>1, <3>2, NothingComes
  <2> QED BY <1>1, <2>1, <2>2 DEF KeysEnd
<1>10. ButtonsEnd'
  <2>1. ASSUME NEW b \in Buttons, b \notin lostButtons'
        PROVE  /\ ~Has(wire, Pressing("down", b) \cup Pressing("up", b))
               /\ ~Has(oldWire', Pressing("down", b) \cup Pressing("up", b))
    <3>1. ~Has(wire, Pressing("down", b) \cup Pressing("up", b))
      BY <1>1, <2>1 DEF Has, Pressing
    <3>2. TouchCancel \notin Pressing("down", b) \cup Pressing("up", b)
      BY <1>3, Devices
    <3>3. ASSUME NEW i \in 1..(n + 1), oldWire'[i] \in Pressing("down", b) \cup Pressing("up", b)
          PROVE  FALSE
      <4>1. i \in 1..n
        BY <1>5, <3>2, <3>3
      <4> QED BY <1>5, <3>1, <3>3, <4>1 DEF Has
    <3> QED BY <1>5, <3>1, <3>3 DEF Has
  <2>2. ASSUME NEW b \in Buttons, b \notin heldButtons \cup lostButtons'
        PROVE  LetGo(b \in buttonsDown, mouseQueue, << >>, Pressing("down", b), Pressing("up", b))
    <3>1. LetGo(b \in buttonsDown, mouseQueue, wire, Pressing("down", b), Pressing("up", b))
      BY <1>1, <2>2 DEF SeatInv, ButtonsEnd
    <3>2. ~Has(wire, Pressing("up", b))
      BY <2>1, <2>2 DEF Has
    <3> QED BY <3>1, <3>2, NothingComes
  <2> QED BY <1>1, <2>1, <2>2 DEF ButtonsEnd
<1> QED
  BY <1>6, <1>8, <1>9, <1>10 DEF SeatInv

LEMMA InjectTouchKeeps == SeatInv /\ InjectTouch => SeatInv'
<1> SUFFICES ASSUME SeatInv, InjectTouch PROVE SeatInv'
  OBVIOUS
<1> DEFINE e == Head(touchQueue)
<1>1. /\ touchQueue \in Seq(Of("touch")) /\ touchQueue # << >> /\ touchQueue' = Tail(touchQueue)
      /\ e \in Of("touch") /\ touchQueue' \in Seq(Of("touch")) /\ HandleTouch(e)
      /\ UNCHANGED <<finger, pressedCodes, heldButtons, connected, wire, oldWire, lostKeys, lostButtons,
                     mouseQueue, keyQueue, keysDown, buttonsDown>>
      /\ contacts = activeTouches /\ activeTouches \subseteq Ids
  BY DEF InjectTouch, SeatInv, SeatTypes, pageVars, lineVars, pointerVars
<1> HIDE DEF e
<1>2. \/ \E ids \in SUBSET Ids : e = Touch("start", ids)
      \/ \E ids \in SUBSET Ids : e = Touch("move", ids)
      \/ \E ids \in SUBSET Ids : e = Touch("end", ids)
      \/ e = TouchCancel
  BY <1>1 DEF Of, Messages, Touch, TouchCancel
<1>3. /\ contacts' = activeTouches' /\ activeTouches' \subseteq Ids
      /\ \A x \in Ids : x \in activeTouches' =>
           \/ x \in activeTouches /\ e \notin Listing("end", x) \cup {TouchCancel}
           \/ e \in Listing("start", x)
  <2>1. ASSUME NEW ids \in SUBSET Ids, e = Touch("start", ids)
        PROVE  /\ activeTouches' = activeTouches \cup ids /\ contacts' = activeTouches'
               /\ \A x \in ids : e \in Listing("start", x)
               /\ \A x \in Ids : e \notin Listing("end", x) \cup {TouchCancel}
    BY <1>1, <2>1 DEF HandleTouch, Touch, Listing, TouchCancel
  <2>2. ASSUME NEW ids \in SUBSET Ids, e = Touch("move", ids)
        PROVE  /\ activeTouches' = activeTouches /\ contacts' = activeTouches'
               /\ \A x \in Ids : e \notin Listing("end", x) \cup {TouchCancel}
    BY <1>1, <2>2 DEF HandleTouch, Touch, Listing, TouchCancel, touchVars
  <2>3. ASSUME NEW ids \in SUBSET Ids, e = Touch("end", ids)
        PROVE  /\ activeTouches' = activeTouches \ ids /\ contacts' = activeTouches'
               /\ \A x \in Ids : e \in Listing("end", x) \cup {TouchCancel} => x \in ids
    BY <1>1, <2>3 DEF HandleTouch, Touch, Listing, TouchCancel
  <2>4. ASSUME e = TouchCancel PROVE activeTouches' = {} /\ contacts' = {}
    BY <1>1, <2>4 DEF HandleTouch, TouchCancel
  <2>5. CASE \E ids \in SUBSET Ids : e = Touch("start", ids)
    BY <1>1, <2>1, <2>5
  <2>6. CASE \E ids \in SUBSET Ids : e = Touch("move", ids)
    BY <1>1, <2>2, <2>6
  <2>7. CASE \E ids \in SUBSET Ids : e = Touch("end", ids)
    BY <1>1, <2>3, <2>7
  <2> QED BY <1>2, <2>4, <2>5, <2>6, <2>7
<1>4. SeatTypes'
  BY <1>1, <1>3 DEF SeatInv, SeatTypes
<1>5. TouchesEnd'
  <2> SUFFICES ASSUME NEW x \in Ids, finger[x] = "up" \/ ~connected
               PROVE  LetGo(Touching(x)', Arrived', wire, Listing("start", x),
                            Listing("end", x) \cup {TouchCancel})
    BY <1>1 DEF TouchesEnd
  <2>1. LetGo(Touching(x), Arrived, wire, Listing("start", x),
              Listing("end", x) \cup {TouchCancel})
    BY DEF SeatInv, TouchesEnd
  <2>2. x \in activeTouches' =>
          \/ x \in activeTouches /\ Head(touchQueue) \notin Listing("end", x) \cup {TouchCancel}
          \/ Head(touchQueue) \in Listing("start", x)
    BY <1>3 DEF e
  <2>3. CASE oldWire = << >>
    <3>1. /\ Touching(x)' = (x \in activeTouches') /\ Touching(x) = (x \in activeTouches)
          /\ Arrived' = Tail(touchQueue) /\ Arrived = touchQueue
      BY <1>1, <2>3 DEF Touching, Arrived, Uncancelled
    <3>2. LetGo(x \in activeTouches, touchQueue, wire, Listing("start", x),
                Listing("end", x) \cup {TouchCancel})
      BY <2>1, <3>1
    <3>3. LetGo(x \in activeTouches', Tail(touchQueue), wire, Listing("start", x),
                Listing("end", x) \cup {TouchCancel})
      BY <1>1, <2>2, <3>2, Taken
    <3> QED BY <3>1, <3>3
  <2>4. CASE oldWire # << >>
    <3>1. /\ Touching(x)' = FALSE /\ Touching(x) = FALSE
          /\ Arrived' = << >> /\ Arrived = << >>
      BY <1>1, <2>4 DEF Touching, Arrived, Uncancelled
    <3> QED BY <2>1, <3>1
  <2> QED BY <2>3, <2>4
<1>6. KeysEnd' /\ ButtonsEnd'
  BY <1>1 DEF SeatInv, KeysEnd, ButtonsEnd
<1> QED
  BY <1>4, <1>5, <1>6 DEF SeatInv

LEMMA InjectKeyKeeps == SeatInv /\ InjectKey => SeatInv'
<1> SUFFICES ASSUME SeatInv, InjectKey PROVE SeatInv'
  OBVIOUS
<1> DEFINE e == Head(keyQueue)
<1>1. /\ keyQueue \in Seq(Of("key")) /\ keyQueue # << >> /\ keyQueue' = Tail(keyQueue)
      /\ e \in Of("key") /\ keyQueue' \in Seq(Of("key"))
      /\ keysDown' = IF e.kind = "down" THEN keysDown \cup {e.code} ELSE keysDown \ {e.code}
      /\ UNCHANGED <<finger, pressedCodes, heldButtons, connected, wire, oldWire, lostKeys, lostButtons,
                     touchQueue, mouseQueue, activeTouches, contacts, buttonsDown>>
  BY DEF InjectKey, SeatInv, SeatTypes, pageVars, lineVars, pointerVars, touchVars
<1> HIDE DEF e
<1>2. PICK k \in Keys : e = Key("down", k) \/ e = Key("up", k)
  BY <1>1 DEF Of, Messages, Key
<1>3. \A x \in Keys : x \in keysDown' =>
        \/ x \in keysDown /\ e \notin {Key("up", x)}
        \/ e \in {Key("down", x)}
  BY <1>1, <1>2 DEF Key
<1>4. SeatTypes'
  <2>1. keysDown' \subseteq Keys
    BY <1>1, <1>2 DEF Key, SeatInv, SeatTypes
  <2> QED BY <1>1, <2>1 DEF SeatInv, SeatTypes
<1>5. KeysEnd'
  <2> SUFFICES ASSUME NEW x \in Keys, x \notin pressedCodes \cup lostKeys
               PROVE  LetGo(x \in keysDown', Tail(keyQueue), wire, {Key("down", x)}, {Key("up", x)})
    BY <1>1 DEF SeatInv, KeysEnd
  <2>1. LetGo(x \in keysDown, keyQueue, wire, {Key("down", x)}, {Key("up", x)})
    BY DEF SeatInv, KeysEnd
  <2>2. x \in keysDown' => \/ x \in keysDown /\ Head(keyQueue) \notin {Key("up", x)}
                           \/ Head(keyQueue) \in {Key("down", x)}
    BY <1>3 DEF e
  <2> QED BY <1>1, <2>1, <2>2, Taken
<1>6. TouchesEnd' /\ ButtonsEnd'
  BY <1>1 DEF SeatInv, TouchesEnd, Touching, Arrived, Uncancelled, ButtonsEnd
<1> QED
  BY <1>4, <1>5, <1>6 DEF SeatInv

LEMMA InjectMouseKeeps == SeatInv /\ InjectMouse => SeatInv'
<1> SUFFICES ASSUME SeatInv, InjectMouse PROVE SeatInv'
  OBVIOUS
<1> DEFINE e == Head(mouseQueue)
<1>1. /\ mouseQueue \in Seq(Of("pointer")) /\ mouseQueue # << >> /\ mouseQueue' = Tail(mouseQueue)
      /\ e \in Of("pointer") /\ mouseQueue' \in Seq(Of("pointer")) /\ HandleMouse(e)
      /\ UNCHANGED <<finger, pressedCodes, heldButtons, connected, wire, oldWire, lostKeys, lostButtons,
                     touchQueue, keyQueue, activeTouches, contacts, keysDown>>
  BY DEF InjectMouse, SeatInv, SeatTypes, pageVars, lineVars, touchVars
<1> HIDE DEF e
<1>2. \/ \E b \in Buttons, spot \in Spots : e = Press("down", b, spot) \/ e = Press("up", b, spot)
      \/ e.kind \in {"move", "wheel", "relative", "cancel"}
  BY <1>1 DEF Of, Messages, Press
<1>3. /\ buttonsDown' \subseteq Buttons
      /\ \A x \in Buttons : x \in buttonsDown' =>
           \/ x \in buttonsDown /\ e \notin Pressing("up", x)
           \/ e \in Pressing("down", x)
  <2>1. ASSUME NEW b \in Buttons, NEW spot \in Spots, e = Press("down", b, spot)
        PROVE  /\ buttonsDown' = buttonsDown \cup {b} /\ e \in Pressing("down", b)
               /\ \A x \in Buttons : e \notin Pressing("up", x)
    BY <1>1, <2>1 DEF HandleMouse, Press, Pressing
  <2>2. ASSUME NEW b \in Buttons, NEW spot \in Spots, e = Press("up", b, spot)
        PROVE  /\ buttonsDown' = buttonsDown \ {b}
               /\ \A x \in Buttons : e \in Pressing("up", x) => x = b
    BY <1>1, <2>2 DEF HandleMouse, Press, Pressing
  <2>3. ASSUME e.kind \in {"move", "wheel", "relative", "cancel"}
        PROVE  /\ buttonsDown' = buttonsDown
               /\ \A x \in Buttons : e \notin Pressing("up", x)
    <3>1. e.kind \in {"relative", "cancel"} => buttonsDown' = buttonsDown
      BY <1>1 DEF HandleMouse
    <3>2. e.kind = "move" => buttonsDown' = buttonsDown
      BY <1>1 DEF HandleMouse
    <3>3. e.kind = "wheel" => buttonsDown' = buttonsDown
      BY <1>1 DEF HandleMouse
    <3>4. \A x \in Buttons : e \notin Pressing("up", x)
      BY <2>3 DEF Press, Pressing
    <3> QED BY <2>3, <3>1, <3>2, <3>3, <3>4
  <2>4. buttonsDown \subseteq Buttons
    BY DEF SeatInv, SeatTypes
  <2> QED BY <1>2, <2>1, <2>2, <2>3, <2>4
<1>4. SeatTypes'
  BY <1>1, <1>3 DEF SeatInv, SeatTypes
<1>5. ButtonsEnd'
  <2> SUFFICES ASSUME NEW x \in Buttons, x \notin heldButtons \cup lostButtons
               PROVE  LetGo(x \in buttonsDown', Tail(mouseQueue), wire, Pressing("down", x),
                            Pressing("up", x))
    BY <1>1 DEF SeatInv, ButtonsEnd
  <2>1. LetGo(x \in buttonsDown, mouseQueue, wire, Pressing("down", x), Pressing("up", x))
    BY DEF SeatInv, ButtonsEnd
  <2>2. x \in buttonsDown' => \/ x \in buttonsDown /\ Head(mouseQueue) \notin Pressing("up", x)
                              \/ Head(mouseQueue) \in Pressing("down", x)
    BY <1>3 DEF e
  <2> QED BY <1>1, <2>1, <2>2, Taken
<1>6. TouchesEnd' /\ KeysEnd'
  BY <1>1 DEF SeatInv, TouchesEnd, Touching, Arrived, Uncancelled, KeysEnd
<1> QED
  BY <1>4, <1>5, <1>6 DEF SeatInv

(***************************************************************************)
(* All steps, and the theorems.                                             *)
(***************************************************************************)

letGoVars == <<finger, pressedCodes, heldButtons, wire, oldWire, lostKeys, lostButtons,
               touchQueue, mouseQueue, keyQueue, activeTouches, contacts, keysDown, buttonsDown>>

LEMMA Untouched ==
  ASSUME SeatInv, UNCHANGED letGoVars,
         connected' = connected \/ connected' = TRUE
  PROVE  SeatInv'
<1>1. SeatTypes'
  BY DEF SeatInv, SeatTypes, letGoVars
<1>2. TouchesEnd'
  BY DEF SeatInv, SeatTypes, TouchesEnd, Touching, Arrived, Uncancelled, letGoVars
<1>3. KeysEnd' /\ ButtonsEnd'
  BY DEF SeatInv, KeysEnd, ButtonsEnd, letGoVars
<1> QED
  BY <1>1, <1>2, <1>3 DEF SeatInv

\* The other steps of the render loop and the page.
Aside ==
  \/ Escape \/ AnswerLock \/ SetPointerLockWanted \/ Return
  \/ \E w \in Surfaces : MapWindow(w) \/ CloseWindow(w) \/ DropConstraint(w)
  \/ \E w \in Surfaces, kind \in Constraints : NewConstraint(w, kind)
  \/ EndDrain("clients", "touch", TRUE) \/ EndDrain("touch", "mouse", touchQueue = << >>)
  \/ EndDrain("mouse", "key", mouseQueue = << >>) \/ PollPointerLock
  \/ UNCHANGED inputVars

LEMMA AsideLeaves ==
  Aside => UNCHANGED letGoVars /\ (connected' = connected \/ connected' = TRUE)
<1> USE DEF letGoVars, pageVars, lineVars, queueVars, seatVars, touchVars, pointerVars, lockVars
<1> SUFFICES ASSUME Aside
             PROVE  UNCHANGED letGoVars /\ (connected' = connected \/ connected' = TRUE)
  OBVIOUS
<1>1. CASE Escape \/ AnswerLock \/ SetPointerLockWanted \/ Return
  BY <1>1 DEF Escape, AnswerLock, SetPointerLockWanted, Return
<1>2. CASE \E w \in Surfaces : MapWindow(w) \/ CloseWindow(w) \/ DropConstraint(w)
  BY <1>2 DEF MapWindow, CloseWindow, DropConstraint
<1>3. CASE \E w \in Surfaces, kind \in Constraints : NewConstraint(w, kind)
  BY <1>3 DEF NewConstraint
<1>4. CASE \/ EndDrain("clients", "touch", TRUE) \/ EndDrain("touch", "mouse", touchQueue = << >>)
           \/ EndDrain("mouse", "key", mouseQueue = << >>) \/ PollPointerLock
  BY <1>4 DEF EndDrain, PollPointerLock
<1>5. CASE UNCHANGED inputVars
  BY <1>5 DEF inputVars
<1> QED
  BY <1>1, <1>2, <1>3, <1>4, <1>5 DEF Aside

LEMMA SeatStep ==
  ASSUME SeatInv, [SeatNext]_inputVars
  PROVE  SeatInv'
<1>1. CASE Aside
  BY <1>1, AsideLeaves, Untouched
<1>2. CASE Gesture
  BY <1>2, FingersKeep, PointerKeeps, KeysKeep DEF Gesture
<1>3. CASE Dispatch \/ DispatchOld \/ Leave
  BY <1>3, DispatchKeeps, DispatchOldKeeps, LeaveKeeps
<1>4. CASE InjectTouch \/ InjectMouse \/ InjectKey
  BY <1>4, InjectTouchKeeps, InjectMouseKeeps, InjectKeyKeeps
<1> QED
  BY <1>1, <1>2, <1>3, <1>4 DEF SeatNext, Loop, Aside

\* The invariant of the input, over the page's listeners, the three queues and
\* the handlers behind them: every press on its way has its release behind it,
\* or the user still holds what it presses.
THEOREM SeatKept == SeatSpec => []SeatInv
BY SeatInitHolds, SeatStep, PTL DEF SeatSpec

\* What TouchHandler and the seat hold agrees, and a finger that has left the
\* canvas is up for the applications once everything has arrived: for any
\* number of fingers, any queue, and while the handler of a lost connection runs
\* on beside the next.
THEOREM TouchesAreLetGo == SeatSpec => []NoPhantomTouch
<1>1. SeatInv => NoPhantomTouch
  <2> SUFFICES ASSUME SeatInv PROVE NoPhantomTouch
    OBVIOUS
  <2>1. ASSUME NEW x \in activeTouches, wire = << >>, oldWire = << >>, touchQueue = << >>
        PROVE  x \in {id \in Ids : finger[id] = "canvas"}
    <3>1. x \in Ids /\ finger[x] \in {"up", "canvas"}
      BY DEF SeatInv, SeatTypes
    <3>2. \A U : ~Has(<< >>, U)
      BY DEF Has
    <3>3. finger[x] # "up"
      BY <2>1, <3>1, <3>2 DEF SeatInv, TouchesEnd, Touching, Arrived, Uncancelled, LetGo
    <3> QED BY <3>1, <3>3
  <2> QED BY <2>1 DEF NoPhantomTouch, SeatInv, SeatTypes
<1> QED
  BY <1>1, SeatKept, PTL

\* A key or button the user has let go is up once everything has arrived, for
\* any keys, buttons and queues, and whatever the handler of a lost connection
\* still brings; see NoStuckKey for what is given up and how it is made good.
THEOREM KeysAreLetGo == SeatSpec => []NoStuckKey
<1>1. SeatInv => NoStuckKey
  <2> SUFFICES ASSUME SeatInv PROVE NoStuckKey
    OBVIOUS
  <2>1. \A U : ~Has(<< >>, U)
    BY DEF Has
  <2>2. ASSUME NEW k \in keysDown, wire = << >>, keyQueue = << >>
        PROVE  k \in pressedCodes \cup lostKeys
    BY <2>1, <2>2 DEF SeatInv, SeatTypes, KeysEnd, LetGo
  <2>3. ASSUME NEW b \in buttonsDown, wire = << >>, mouseQueue = << >>
        PROVE  b \in heldButtons \cup lostButtons
    BY <2>1, <2>3 DEF SeatInv, SeatTypes, ButtonsEnd, LetGo
  <2> QED BY <2>2, <2>3 DEF NoStuckKey
<1> QED
  BY <1>1, SeatKept, PTL

\* Only the drain of the pointer's queue presses a button.
LEMMA OnlyInjectPresses ==
  ASSUME [SeatNext]_inputVars
  PROVE  InjectMouse \/ buttonsDown' = buttonsDown
<1>1. CASE Aside
  BY <1>1, AsideLeaves DEF letGoVars
<1>2. ASSUME NEW t, Send(t) PROVE buttonsDown' = buttonsDown
  BY <1>2 DEF Send, seatVars, pointerVars
<1>3. CASE Gesture
  <2>1. \E t : Send(t)
    BY <1>3 DEF Gesture, OnTouchStart, OnTouchMove, OnTouchEnd, OnPointerDown, OnPointerUp,
       Chord, OnPointerCancel, OnPointerMove, SendMove, OnWheel, OnKeyDown, OnKeyUp,
       ReleaseAllKeys, Release
  <2> QED BY <1>2, <2>1
<1>4. CASE Dispatch \/ DispatchOld \/ Leave \/ InjectTouch \/ InjectKey
  BY <1>4 DEF Dispatch, DispatchOld, Deliver, Leave, InjectTouch, InjectKey, seatVars, pointerVars
<1> QED
  BY <1>1, <1>3, <1>4 DEF SeatNext, Loop, Aside

\* The position that goes with a button is where it is pressed, whatever moves
\* before it were dropped, for any windows, buttons and queues.
THEOREM ClicksAreAimed == SeatSpec => ClicksLand
<1>1. ASSUME SeatInv, InjectMouse, NEW b \in Buttons, buttonsDown = {}, b \in buttonsDown',
             ~(Top \in active /\ constraint[Top] = "lock")
      PROVE  LET e == Head(mouseQueue) IN
               /\ pointerAt' = (IF Top \in active /\ constraint[Top] = "region"
                               THEN ClampToRegion(e.spot) ELSE e.spot)
               /\ OnOutput(pointerAt') => pointerFocus' = Top
  <2> DEFINE e == Head(mouseQueue)
  <2>1. e \in Of("pointer") /\ HandleMouse(e)
    BY <1>1 DEF InjectMouse, SeatInv, SeatTypes
  <2> HIDE DEF e
  <2>2. e.kind \in {"down", "up", "move", "wheel", "relative", "cancel"}
    BY <2>1 DEF Of, Messages
  <2>3. e.kind \in {"down", "up", "move", "wheel"}
    BY <1>1, <2>1, <2>2 DEF HandleMouse
  <2>4. PointerMotion(e.spot)
    BY <2>1, <2>3 DEF HandleMouse, MoveToClick
  <2> QED BY <1>1, <2>4 DEF PointerMotion, SurfaceAt, e
<1>2. SeatInv /\ [SeatNext]_inputVars =>
        [\A b \in Buttons :
           /\ buttonsDown = {} /\ b \in buttonsDown'
           /\ ~(Top \in active /\ constraint[Top] = "lock")
           => LET e == Head(mouseQueue) IN
                /\ pointerAt' = (IF Top \in active /\ constraint[Top] = "region"
                               THEN ClampToRegion(e.spot) ELSE e.spot)
                /\ OnOutput(pointerAt') => pointerFocus' = Top]_inputVars
  BY <1>1, OnlyInjectPresses
<1> QED
  BY <1>2, SeatKept, PTL DEF SeatSpec, ClicksLand

\* What LockKnown speaks of, and the steps that leave it alone.
newsVars == <<connected, lockNews, lockWanted, pointerLocked>>

LEMMA NewsStay ==
  ASSUME \/ Gesture \/ Escape \/ AnswerLock \/ Dispatch \/ DispatchOld
         \/ \E w \in Surfaces : MapWindow(w) \/ CloseWindow(w) \/ DropConstraint(w)
         \/ \E w \in Surfaces, kind \in Constraints : NewConstraint(w, kind)
         \/ InjectTouch \/ InjectMouse \/ InjectKey
         \/ \E from, to, empty : EndDrain(from, to, empty)
         \/ UNCHANGED inputVars
  PROVE  UNCHANGED newsVars
<1> USE DEF newsVars, pageVars, pageLock, lineVars, seatVars, lockVars
<1>1. CASE Gesture
  <2>1. ASSUME NEW t, Send(t) PROVE UNCHANGED <<connected, lockNews, pointerLocked>>
    BY <2>1 DEF Send
  <2>2. \E t : Send(t)
    BY <1>1 DEF Gesture, OnTouchStart, OnTouchMove, OnTouchEnd, OnPointerDown, OnPointerUp,
       Chord, OnPointerCancel, OnPointerMove, SendMove, OnWheel, OnKeyDown, OnKeyUp,
       ReleaseAllKeys, Release
  <2>3. lockWanted' = lockWanted
    BY <1>1 DEF Gesture, OnTouchStart, OnTouchMove, OnTouchEnd, OnPointerDown, OnPointerUp,
       Chord, OnPointerCancel, OnPointerMove, OnWheel, OnKeyDown, OnKeyUp, ReleaseAllKeys, Release
  <2> QED BY <2>1, <2>2, <2>3
<1>2. CASE Escape \/ AnswerLock \/ Dispatch \/ DispatchOld
  BY <1>2 DEF Escape, AnswerLock, Dispatch, DispatchOld, Deliver
<1>3. CASE \E w \in Surfaces : MapWindow(w) \/ CloseWindow(w) \/ DropConstraint(w)
  BY <1>3 DEF MapWindow, CloseWindow, DropConstraint
<1>4. CASE \E w \in Surfaces, kind \in Constraints : NewConstraint(w, kind)
  BY <1>4 DEF NewConstraint
<1>5. CASE InjectTouch \/ InjectMouse \/ InjectKey
  BY <1>5 DEF InjectTouch, InjectMouse, InjectKey
<1>6. CASE \E from, to, empty : EndDrain(from, to, empty)
  BY <1>6 DEF EndDrain
<1>7. CASE UNCHANGED inputVars
  BY <1>7 DEF inputVars
<1> QED
  BY <1>1, <1>2, <1>3, <1>4, <1>5, <1>6, <1>7

\* A connected page knows whether the window on top holds a lock, or is being
\* told: for any number of windows, locks that come and go, and connections.
THEOREM LockIsKnown == SeatSpec => []LockKnown
<1>1. SeatInit => LockKnown
  BY DEF SeatInit, LockKnown
<1>2. LockKnown /\ [SeatNext]_inputVars => LockKnown'
  <2> SUFFICES ASSUME LockKnown, [SeatNext]_inputVars PROVE LockKnown'
    OBVIOUS
  <2>1. CASE UNCHANGED newsVars
    BY <2>1 DEF LockKnown, newsVars
  <2>2. CASE SetPointerLockWanted
    BY <2>2 DEF LockKnown, SetPointerLockWanted
  <2>3. CASE Leave
    BY <2>3 DEF LockKnown, Leave
  <2>4. CASE Return
    BY <2>4 DEF LockKnown, Return, Cloned
  <2>5. CASE PollPointerLock
    BY <2>5 DEF LockKnown, PollPointerLock, pageVars, pageLock, lineVars
  <2> QED
    BY <2>1, <2>2, <2>3, <2>4, <2>5, NewsStay DEF SeatNext, Loop
<1> QED
  BY <1>1, <1>2, PTL DEF SeatSpec
=============================================================================
