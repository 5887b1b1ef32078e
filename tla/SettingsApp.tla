---------------------------- MODULE SettingsApp -----------------------------
(***************************************************************************)
(* The settings program of kernel/settings_app.c over the settings of      *)
(* kernel/settings.c and the theme of kernel/themes.c.  A theme is kept in *)
(* three places: its number in the program, which outlives neither a       *)
(* restart of the program nor a reset, and two copies of its colours.      *)
(***************************************************************************)
EXTENDS Integers, SequencesExt

CONSTANT Themes    \* THEMES: the built-in themes, the default first

ASSUME ThemesAssumption ==
  Themes \in Seq(ToSet(Themes)) /\ Len(Themes) > 0 /\ IsInjective(Themes)

Sections == <<"CURSOR", "TIME", "DISPLAY", "THEME", "APPLY", "RESET", "CLOSE">>

(* cursor_blink_speed_t, in milliseconds                                   *)
Blinks == <<1000, 750, 500, 300, 150>>

BlinkNames == <<"VERY SLOW", "SLOW", "NORMAL", "FAST", "VERY FAST">>

VARIABLES
  setApp,      \* the variables of settings_app.c
  settings,    \* current_settings
  theme        \* current_theme

setVars == <<setApp, settings, theme>>

-----------------------------------------------------------------------------
(* detect_theme *)
Detected(t) ==
  LET same == { i \in DOMAIN Themes : Themes[i] = t }
  IN IF same = {} THEN 1 ELSE Min(same)

(* The next or the one before, around the end.                             *)
Turn(i, n, step) == ((i - 1 + step) % n) + 1

(* cursor_blink_left, cursor_blink_right                                   *)
TurnBlink(step) ==
  LET at == CHOOSE i \in DOMAIN Blinks : Blinks[i] = settings.blink
  IN /\ settings' = [settings EXCEPT !.blink = Blinks[Turn(at, Len(Blinks), step)]]
     /\ UNCHANGED theme

ToggleTime ==
  /\ settings' = [settings EXCEPT !.hours = IF @ = 12 THEN 24 ELSE 12]
  /\ UNCHANGED theme

ToggleResolution ==
  /\ settings' = [settings EXCEPT !.width = IF @ = 320 THEN 640 ELSE 320]
  /\ UNCHANGED theme

(* settings_set_theme *)
SetTheme(t) == settings' = [settings EXCEPT !.theme = t] /\ theme' = t

(* settings_reset_defaults *)
Defaults == [blink |-> 500, hours |-> 12, width |-> 320, theme |-> Themes[1]]

ResetDefaults == settings' = Defaults /\ theme' = Themes[1]

Keep == UNCHANGED <<settings, theme>>

(* theme_left, theme_right, with the rest of what the handler sets.        *)
TurnTheme(app, step) ==
  LET next == Turn(app.index, Len(Themes), step) IN
  /\ setApp' = [app EXCEPT !.index = next]
  /\ SetTheme(Themes[next])

(* Mutated form: the number of the theme is not looked up after a reset.   *)
ActivateKeepingIndex(app) ==
  LET section == Sections[app.section] IN
  /\ setApp' = [app EXCEPT !.editing = CASE section \in {"CURSOR", "THEME"} -> TRUE
                                         [] section \in {"APPLY", "RESET"}  -> FALSE
                                         [] OTHER                           -> @,
                           !.running = section # "CLOSE"]
  /\ CASE section = "TIME"    -> ToggleTime
       [] section = "DISPLAY" -> ToggleResolution
       [] section = "RESET"   -> ResetDefaults
       [] OTHER               -> Keep

(* activate_selected, where CLOSE leaves no window to hear of.              *)
ActivateSelected(app) ==
  LET section == Sections[app.section] IN
  /\ setApp' = [app EXCEPT !.editing = CASE section \in {"CURSOR", "THEME"} -> TRUE
                                         [] section \in {"APPLY", "RESET"}  -> FALSE
                                         [] OTHER                           -> @,
                           !.running = section # "CLOSE",
                           !.index = IF section = "RESET" THEN Detected(Themes[1]) ELSE @]
  /\ CASE section = "TIME"    -> ToggleTime
       [] section = "DISPLAY" -> ToggleResolution
       [] section = "RESET"   -> ResetDefaults
       [] OTHER               -> Keep

-----------------------------------------------------------------------------
(* settings_start *)
SetStart ==
  /\ setApp' = [running |-> TRUE, section |-> 1, editing |-> FALSE, prev |-> FALSE,
                index |-> Detected(settings.theme)]
  /\ Keep

Direction(key) == IF key = "LEFT" THEN -1 ELSE 1

(* settings_key *)
EditKey(key) ==
  /\ setApp.running /\ setApp.editing
  /\ \/ /\ key \in {"ESCAPE", "ENTER"}
        /\ setApp' = [setApp EXCEPT !.editing = FALSE]
        /\ Keep
     \/ /\ key \in {"LEFT", "RIGHT"} /\ Sections[setApp.section] = "CURSOR"
        /\ TurnBlink(Direction(key))
        /\ UNCHANGED setApp
     \/ /\ key \in {"LEFT", "RIGHT"} /\ Sections[setApp.section] = "THEME"
        /\ TurnTheme(setApp, Direction(key))

SelectKey(key) ==
  /\ setApp.running /\ ~setApp.editing
  /\ \/ /\ key = "UP" /\ Keep
        /\ setApp' = [setApp EXCEPT !.section = IF @ > 1 THEN @ - 1 ELSE @]
     \/ /\ key = "DOWN" /\ Keep
        /\ setApp' = [setApp EXCEPT !.section = IF @ < Len(Sections) THEN @ + 1 ELSE @]
     \/ /\ key \in {"LEFT", "RIGHT"}
        /\ CASE Sections[setApp.section] = "TIME"    -> ToggleTime
             [] Sections[setApp.section] = "DISPLAY" -> ToggleResolution
             [] OTHER                                -> Keep
        /\ UNCHANGED setApp
     \/ key = "ENTER" /\ ActivateSelected(setApp)

(* settings_mouse: a press on a row selects it and acts at once, to the    *)
(* left or to the right.                                                   *)
PressRow(i, step) ==
  /\ setApp.running /\ ~setApp.prev
  /\ LET at(e) == [setApp EXCEPT !.section = i, !.editing = e, !.prev = TRUE] IN
     CASE Sections[i] = "CURSOR"  -> setApp' = at(TRUE) /\ TurnBlink(step)
       [] Sections[i] = "TIME"    -> setApp' = at(FALSE) /\ ToggleTime
       [] Sections[i] = "DISPLAY" -> setApp' = at(FALSE) /\ ToggleResolution
       [] Sections[i] = "THEME"   -> TurnTheme(at(TRUE), step)
       [] Sections[i] = "APPLY"   -> setApp' = at(FALSE) /\ Keep
       [] Sections[i] = "RESET"   -> ActivateSelected(at(FALSE))
       [] Sections[i] = "CLOSE"   -> ActivateSelected(at(setApp.editing))

OtherPacket(left) ==
  /\ setApp.running
  /\ setApp' = [setApp EXCEPT !.prev = left]
  /\ Keep

-----------------------------------------------------------------------------
(* settings_init, before the program starts for the first time.            *)
SetInit ==
  /\ setApp = [running |-> FALSE, section |-> 1, editing |-> FALSE, prev |-> FALSE, index |-> 1]
  /\ settings = Defaults
  /\ theme = Themes[1]

SetNext ==
  \/ SetStart
  \/ \E key \in {"UP", "DOWN", "LEFT", "RIGHT", "ENTER", "ESCAPE"} :
       EditKey(key) \/ SelectKey(key)
  \/ \E i \in DOMAIN Sections, step \in {-1, 1} : PressRow(i, step)
  \/ \E left \in BOOLEAN : OtherPacket(left)

SetSpec == SetInit /\ [][SetNext]_setVars

SetTypeOK ==
  /\ setApp \in [running : BOOLEAN, section : DOMAIN Sections, editing : BOOLEAN, prev : BOOLEAN,
                 index : DOMAIN Themes]
  /\ setApp.running /\ setApp.editing => Sections[setApp.section] \in {"CURSOR", "THEME"}
  /\ settings \in [blink : ToSet(Blinks), hours : {12, 24}, width : {320, 640},
                   theme : ToSet(Themes)]
  /\ theme \in ToSet(Themes)

-----------------------------------------------------------------------------
(* cursor_blink_name *)
BlinkName(ms) ==
  CASE ms >= 1000 -> "VERY SLOW"
    [] ms >= 750 /\ ms < 1000 -> "SLOW"
    [] ms >= 300 /\ ms < 750  -> "FAST"
    [] ms >= 150 /\ ms < 300  -> "VERY FAST"
    [] OTHER -> "NORMAL"

(***************************************************************************)
(* What the program shows is in force: the theme it names is the one of    *)
(* the settings and of themes.c, and the speed it names is the one set,    *)
(* but for the normal one, which it calls fast.                            *)
(***************************************************************************)
ShownIsInForce ==
  /\ Themes[setApp.index] = settings.theme
  /\ settings.theme = theme
  /\ \A i \in DOMAIN Blinks :
       settings.blink = Blinks[i] /\ BlinkNames[i] # "NORMAL" =>
         BlinkName(settings.blink) = BlinkNames[i]
=============================================================================
