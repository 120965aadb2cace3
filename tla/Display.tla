------------------------------- MODULE Display -------------------------------
(***************************************************************************)
(* The front panel display (display.c, sysmonDraw of sysmon.c, warn and    *)
(* fatal of util.c): its modes, the pages the button steps through, the    *)
(* backlight, the warnings that are kept to be drawn again, and the drawing*)
(* of a page, a row each 20 ms.  Everything is drawn over what is there    *)
(* already: a change of mode or page has to clear the screen first.        *)
(***************************************************************************)
EXTENDS Naturals, Sequences

CONSTANTS Debounce, LongPress, EnableTime,  \* 20 ms, 1 s, DISPLAY_ENABLE_SECONDS in ticks
          Rows,                             \* rows of a page
          MaxMessages,                      \* messages that are kept
          MaxWarnings                       \* bound: warnings

After == [pageFirst |-> "pageTempInfo", pageTempInfo |-> "pagePSinfo0",
          pagePSinfo0 |-> "pagePSinfo1", pagePSinfo1 |-> "pageFirst"]

VARIABLES button,        \* the button itself: "up", "down"
          buttonOld,     \* buttonOldState
          since,         \* ticks since the button was seen to change
          wasPressed, isBlanked,
          backlight,
          displayMode, newPage, currentPage,
          screen,        \* what the screen was cleared for: its mode and page
          drawn,         \* the rows drawn since: their pages
          rowState,      \* sysmonDraw: "names" or "values", and its row
          warnings,      \* the messages kept, a sequence of their numbers
          warned,        \* messages so far
          shown,         \* messages on the screen
          running        \* "start", "main", "fatal", "reset"
displayVars == <<button, buttonOld, since, wasPressed, isBlanked, backlight, displayMode,
                 newPage, currentPage, screen, drawn, rowState, warnings, warned, shown, running>>

Cleared(mode, page) == [mode |-> mode, page |-> IF mode = "PAGES" THEN page ELSE "none"]

DisplayInit ==
  /\ button = "up" /\ buttonOld = "up" /\ since = 0
  /\ wasPressed = "no" /\ isBlanked = "no" /\ backlight = "on"
  /\ displayMode = "STARTUP" /\ newPage = "pageFirst" /\ currentPage = "pageLast"
  /\ screen = Cleared("STARTUP", "none") /\ drawn = {} /\ rowState = <<"names", 0>>
  /\ warnings = <<>> /\ warned = 0 /\ shown = {} /\ running = "start"

-----------------------------------------------------------------------------
\* displayRefresh: the button.  A state of the button counts once it has been
\* stable; the backlight goes off when the button has been up for long, and
\* the press that turns it on again does nothing else.
Since == IF button # buttonOld THEN 0 ELSE since
IsPressed == IF Since > Debounce THEN (IF button = "down" THEN "yes" ELSE "no") ELSE wasPressed
NewPress == IsPressed = "yes" /\ wasPressed = "no"
LongPressed == IsPressed = "yes" /\ Since > LongPress
Blanks == IsPressed = "no" /\ Since > EnableTime
Button ==
  /\ buttonOld' = button /\ since' = Since /\ wasPressed' = IsPressed
  /\ isBlanked' = IF NewPress THEN "no" ELSE IF Blanks THEN "yes" ELSE isBlanked
  /\ backlight' = IF NewPress /\ isBlanked = "yes" THEN "on" ELSE IF Blanks THEN "off" ELSE backlight

\* The mode and page to show; a long press asks for the pages whatever the mode.
ModeFor(newMode) == IF LongPressed THEN "PAGES" ELSE IF newMode = "none" THEN displayMode ELSE newMode
PageFor == IF LongPressed \/ newPage = "pageFirst" THEN After["pageFirst"] ELSE newPage

\* sysmonDraw: the names of a page's rows, then their values over and over.
NextRow(at) == IF at[2] + 1 < Rows THEN <<at[1], at[2] + 1>> ELSE <<"values", 0>>

\* Redraws only for another mode, not for another page.
RefreshMutant(newMode) ==
  LET mode == ModeFor(newMode)
      redrawAll == mode # displayMode
      page == IF redrawAll \/ mode = "PAGES" THEN (IF mode = "PAGES" THEN PageFor ELSE "pageLast") ELSE currentPage
      from == IF redrawAll THEN <<"names", 0>> ELSE rowState
  IN /\ Button
     /\ displayMode' = mode /\ currentPage' = page
     /\ newPage' = IF NewPress /\ isBlanked = "no" THEN After[PageFor] ELSE PageFor
     /\ screen' = IF redrawAll THEN Cleared(mode, page) ELSE screen
     /\ drawn' = (IF redrawAll THEN {} ELSE drawn) \cup (IF mode = "PAGES" THEN {page} ELSE {})
     /\ rowState' = IF mode = "PAGES" THEN NextRow(from) ELSE rowState
Refresh(newMode) ==
  LET mode == ModeFor(newMode)
      forgotten == IF mode # displayMode THEN "pageLast" ELSE currentPage
      page == IF mode = "PAGES" THEN PageFor ELSE forgotten
      redrawAll == mode # displayMode \/ page # forgotten
      from == IF redrawAll THEN <<"names", 0>> ELSE rowState
  IN /\ Button
     /\ displayMode' = mode /\ currentPage' = page
     /\ newPage' = IF NewPress /\ isBlanked = "no" THEN After[PageFor] ELSE PageFor
     /\ screen' = IF redrawAll THEN Cleared(mode, page) ELSE screen
     /\ drawn' = (IF redrawAll THEN {} ELSE drawn) \cup (IF mode = "PAGES" THEN {page} ELSE {})
     /\ rowState' = IF mode = "PAGES" THEN NextRow(from) ELSE rowState

\* What displayRefresh leaves of the messages: all of those kept when it
\* changes to the warnings, none when it changes to anything else.
Messages(newMode) ==
  IF ModeFor(newMode) = displayMode THEN shown
  ELSE IF ModeFor(newMode) = "WARNING" THEN {warnings[i] : i \in DOMAIN warnings} ELSE {}

\* displayUpdate, in the main loop and in the loop of fatal.
DisplayUpdate ==
  /\ running \in {"main", "fatal"}
  /\ Refresh("none") /\ shown' = Messages("none")
  /\ UNCHANGED <<button, warnings, warned, running>>

\* main: the pages, unless a warning of the start is shown.
EnterMain ==
  /\ running = "start" /\ running' = "main"
  /\ IF displayMode = "STARTUP"
     THEN Refresh("PAGES") /\ shown' = Messages("PAGES")
     ELSE UNCHANGED <<buttonOld, since, wasPressed, isBlanked, backlight, displayMode, newPage,
                      currentPage, screen, drawn, rowState, shown>>
  /\ UNCHANGED <<button, warnings, warned>>

\* displayShowWarning: a full screen starts over.
Warn ==
  /\ running \in {"start", "main"} /\ warned < MaxWarnings
  /\ warned' = warned + 1
  /\ warnings' = IF Len(warnings) >= MaxMessages THEN <<warned'>> ELSE Append(warnings, warned')
  /\ IF displayMode = "WARNING"
     THEN UNCHANGED <<buttonOld, since, wasPressed, isBlanked, backlight, displayMode, newPage,
                      currentPage, screen, drawn, rowState>>
     ELSE Refresh("WARNING")
  /\ shown' = {warnings'[i] : i \in DOMAIN warnings'}
  /\ UNCHANGED <<button, running>>

\* fatal: shown for a minute, in which the button is still looked at.
Fatal ==
  /\ running \in {"start", "main"} /\ running' = "fatal"
  /\ Refresh("FATAL") /\ shown' = Messages("FATAL")
  /\ UNCHANGED <<button, warnings, warned>>
MinuteOver ==
  /\ running = "fatal" /\ running' = "reset"
  /\ UNCHANGED <<button, buttonOld, since, wasPressed, isBlanked, backlight, displayMode, newPage,
                 currentPage, screen, drawn, rowState, warnings, warned, shown>>

ButtonMoves ==
  /\ running # "reset"
  /\ button' = IF button = "up" THEN "down" ELSE "up"
  /\ UNCHANGED <<buttonOld, since, wasPressed, isBlanked, backlight, displayMode, newPage,
                 currentPage, screen, drawn, rowState, warnings, warned, shown, running>>
ButtonHeld ==
  /\ running # "reset" /\ since <= EnableTime
  /\ since' = since + 1
  /\ UNCHANGED <<button, buttonOld, wasPressed, isBlanked, backlight, displayMode, newPage,
                 currentPage, screen, drawn, rowState, warnings, warned, shown, running>>

DisplayNext ==
  \/ DisplayUpdate \/ EnterMain \/ Warn \/ Fatal \/ MinuteOver
  \/ ButtonMoves \/ ButtonHeld
DisplaySpec == DisplayInit /\ [][DisplayNext]_displayVars

-----------------------------------------------------------------------------
\* The screen shows the mode and the page that the display is in, and no row of
\* any other page.  (displayRefresh, sysmonDraw)
ScreenIsCurrent ==
  /\ screen = Cleared(displayMode, currentPage)
  /\ drawn \subseteq {screen.page}
=============================================================================
