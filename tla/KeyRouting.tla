----------------------------- MODULE KeyRouting -----------------------------
(***************************************************************************)
(* Where a key press goes: the keyboard handler of the window              *)
(* (src/src-tauri/src/window_host/event_loop.rs, key_routing.rs), the mux  *)
(* prefix latch (src/src-tauri/src/mux/prefix.rs) and the dispatch of its  *)
(* actions (src/src-tauri/src/app/mux_ui.rs).  Keys are classes:           *)
(*   prefix  the configured chord       digit   a bare digit               *)
(*   next    bound to NextWindow        rename  bound to RenameWindow      *)
(*   detach  bound to Detach            copy    a clipboard chord          *)
(*   search, tab, chooser  global keybinds      escape, plain  no shortcut *)
(***************************************************************************)
EXTENDS Integers, FiniteSets

CONSTANTS
    Tabs,       \* the open tabs
    Timeout,    \* DEFAULT_ARMED_TIMEOUT, in ticks
    MaxTime     \* bound on the clock

KeyAssumption ==
    Tabs # {} /\ IsFiniteSet(Tabs) /\ Timeout \in Nat \ {0} /\ MaxTime \in Nat

Keys == {"prefix", "digit", "next", "rename", "detach", "copy", "search", "tab",
         "chooser", "escape", "plain"}
Keybinds == {"search", "tab", "chooser"}
Bound == {"next", "rename", "detach"}

Nothing == [key |-> "", to |-> "", at |-> 0]

VARIABLES
    active,    \* the active tab
    attached,  \* the tabs that show a mux session (mux_group is Some)
    overlay,   \* what owns the keyboard: "none", "selector", "search" or "dialog"
    composing, \* the input method has a composition open
    latch,     \* Latch: armed, and since when
    clock,
    focused,
    last,      \* the key routed last, where to, when
    seen,      \* history: the key the latch saw last, what it made of it, when
    lost       \* history: focus was lost or the tab detached since the latch was armed

vars == <<active, attached, overlay, composing, latch, clock, focused, last, seen,
          lost>>

Idle == [armed |-> FALSE, since |-> 0]

Init ==
    /\ active \in Tabs /\ attached \in SUBSET Tabs /\ overlay = "none"
    /\ composing = FALSE /\ latch = Idle /\ clock = 0 /\ focused = TRUE
    /\ last = Nothing /\ seen = Nothing /\ lost = FALSE
-----------------------------------------------------------------------------
\* decode_follow_up: digits first, then the bindings.
DecodeFollowUp(k) ==
    CASE k = "digit" -> "select"
      [] k \in Bound -> k
      [] OTHER -> "none"

\* Latch::observe, the expiry.
Expire(l, now) == IF l.armed /\ now - l.since >= Timeout THEN Idle ELSE l

\* Latch::observe
Observe(l, k, now) ==
    IF ~Expire(l, now).armed
    THEN [latch |-> IF k = "prefix" THEN [armed |-> TRUE, since |-> now]
                    ELSE Expire(l, now), action |-> "none"]
    ELSE [latch |-> Idle,
          action |-> IF k = "prefix" THEN "literal" ELSE DecodeFollowUp(k)]

\* A plausible slip: the chord that arms is not consumed.
ConsumesAfterOnly(before, after) == before.armed

\* observe_mux_key, PrefixAction::None: is the key consumed?
Consumes(before, after) == after.armed \/ before.armed

Routed(k, to) == last' = [key |-> k, to |-> to, at |-> clock]

\* A keyboard handler of an overlay: Escape (and Enter) close it.
OverlayKey(k) ==
    /\ overlay # "none"
    /\ overlay' = IF k = "escape" THEN "none" ELSE overlay
    /\ Routed(k, "overlay")
    /\ UNCHANGED <<composing, latch, attached, seen, lost>>

\* dispatch_key_event_via_ime: the input method takes the key, and may open or
\* close its composition with it.
ImeKey(k) ==
    /\ overlay = "none" /\ k \in {"plain", "escape"}
    /\ composing' \in BOOLEAN /\ (composing \/ composing')
    /\ Routed(k, "ime")
    /\ UNCHANGED <<overlay, latch, attached, seen, lost>>

\* handle_special_chord: handled, and the latch does not see it.
SpecialChord(k) ==
    /\ overlay = "none" /\ ~composing /\ k = "copy"
    /\ Routed(k, "chord")
    /\ UNCHANGED <<overlay, composing, latch, attached, seen, lost>>

\* dispatch_mux_action and handle_mux_outcome.  Detach only asks: the group goes
\* when the daemon answers (Detached).
DispatchMuxAction(a) == overlay' = IF a = "rename" THEN "dialog" ELSE overlay

\* Global keybinds, then the encoder of the pty.
FallThrough(k) ==
    IF k \in Keybinds
    THEN /\ Routed(k, "keybind")
         /\ overlay' = CASE k = "search" -> "search" [] k = "chooser" -> "selector"
                         [] k = "tab" -> "none"
    ELSE Routed(k, "pty") /\ UNCHANGED overlay

\* observe_mux_key on a tab that is attached.
MuxKey(k) ==
    /\ overlay = "none" /\ ~composing /\ k # "copy" /\ active \in attached
    /\ LET o == Observe(latch, k, clock)
       IN  /\ latch' = o.latch
           /\ seen' = [key |-> k, to |-> o.action, at |-> clock]
           /\ lost' = (lost /\ latch.armed /\ o.latch = latch)
           /\ IF o.action = "none"
              THEN IF Consumes(latch, o.latch)
                   THEN Routed(k, "mux") /\ UNCHANGED overlay
                   ELSE FallThrough(k)
              ELSE IF o.action = "literal"
                   THEN Routed(k, "literal") /\ UNCHANGED overlay
                   ELSE Routed(k, "mux") /\ DispatchMuxAction(o.action)
    /\ UNCHANGED <<composing, attached>>

\* On any other tab the latch does not see the key.
PlainKey(k) ==
    /\ overlay = "none" /\ ~composing /\ k # "copy" /\ active \notin attached
    /\ FallThrough(k)
    /\ UNCHANGED <<composing, latch, attached, seen, lost>>

\* The handler of KeyboardInput; a tab keybind also moves to another tab.
Press(k) ==
    /\ focused
    /\ OverlayKey(k) \/ ImeKey(k) \/ SpecialChord(k) \/ MuxKey(k) \/ PlainKey(k)
    /\ active' \in (IF last' = [key |-> "tab", to |-> "keybind", at |-> clock]
                    THEN Tabs ELSE {active})
    /\ UNCHANGED <<clock, focused>>

\* The pointer selects a tab (the overlay, if any, stays).
Click(t) ==
    /\ t # active /\ active' = t
    /\ UNCHANGED <<attached, overlay, composing, latch, clock, focused, last, seen,
                   lost>>

\* WindowEvent::Focused: the composition is dropped (on_ime_focus_lost).
FocusChanges ==
    /\ focused' = ~focused
    /\ composing' = (composing /\ ~focused)
    /\ lost' = (lost \/ focused)
    /\ UNCHANGED <<active, attached, overlay, latch, clock, last, seen>>

\* A tab enters or leaves its mux session.
Attached(t) ==
    /\ t \notin attached /\ attached' = attached \cup {t}
    /\ UNCHANGED <<active, overlay, composing, latch, clock, focused, last, seen,
                   lost>>

Detached(t) ==
    /\ t \in attached /\ attached' = attached \ {t}
    /\ lost' = (lost \/ t = active)
    /\ UNCHANGED <<active, overlay, composing, latch, clock, focused, last, seen>>

\* refresh_mux_dialog, every frame: a dialog closes when its window is gone.
RefreshMuxDialog ==
    /\ overlay = "dialog" /\ overlay' = "none"
    /\ UNCHANGED <<active, attached, composing, latch, clock, focused, last, seen,
                   lost>>

\* apply_settings: the latch is rebuilt, the selector closes.
ApplySettings ==
    /\ latch' = Idle /\ lost' = FALSE /\ seen' = Nothing
    /\ overlay' = IF overlay = "selector" THEN "none" ELSE overlay
    /\ UNCHANGED <<active, attached, composing, clock, focused, last>>

Tick ==
    /\ clock < MaxTime /\ clock' = clock + 1
    /\ UNCHANGED <<active, attached, overlay, composing, latch, focused, last, seen,
                   lost>>

Next ==
    \/ \E k \in Keys : Press(k)
    \/ \E t \in Tabs : Click(t) \/ Attached(t) \/ Detached(t)
    \/ FocusChanges \/ RefreshMuxDialog \/ ApplySettings \/ Tick

Spec == Init /\ [][Next]_vars
-----------------------------------------------------------------------------
\* A mux action (or the literal prefix) is carried out only for a key that came
\* within the timeout of the press that armed the latch, and with no key in between
\* that the latch saw.
ActsOnlyAfterPrefix ==
    seen' # seen /\ seen'.to \notin {"", "none"} =>
          /\ seen.key = "prefix" /\ seen.to = "none"
          /\ seen'.at - seen.at < Timeout

\* On a mux tab the chord reaches the program only as the literal of a double
\* press.
PrefixNeverLeaks ==
    last' # last /\ last'.key = "prefix" /\ active \in attached =>
          last'.to # "pty"

\* What the module comment of prefix.rs says: an arm is over after the timeout, so a
\* later key that is no shortcut reaches the program.
ExpiredIsIdle ==
    (/\ last' # last /\ last'.key = "plain" /\ last'.to = "mux")
          => (latch.armed /\ clock - latch.since < Timeout)

\* What the comment of Latch::cancel says: losing the focus or detaching ends an arm.
ArmEndsWithFocus ==
    seen' # seen /\ seen'.to \in {"select", "next", "rename", "detach"} =>
          ~lost
=============================================================================
