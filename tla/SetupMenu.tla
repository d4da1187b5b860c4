---- MODULE SetupMenu ----
(***************************************************************************)
(* The setup menu: keystrokes from the ST (term.c), the prompts and the    *)
(* folder picker they open, and the repaint when the card comes or goes    *)
(* (emul.c).  One slot holds the last keystroke until term_loop takes it;  *)
(* what a keystroke means depends on the command level at that moment, not *)
(* on the screen it was typed at.                                          *)
(*                                                                        *)
(* A text is a sequence of characters of three kinds: a letter, a digit,   *)
(* another one.  An entry of the picker is the path it leads to, and ".."  *)
(* the path of the picker itself.  [T] has the shape of [R] and [U] that   *)
(* of [G]; each pair is one key here.                                      *)
(***************************************************************************)
EXTENDS Integers, Sequences, SequencesExt

CONSTANTS
    Cards,          \* what a card may carry: sets of paths of folders
    PageLines,      \* NAV_LINES_PER_PAGE
    MaxTyped,       \* TERM_INPUT_BUFFER_SIZE - 1
    MaxEntries      \* MAX_ENTRIES_DIR

SubFolders(among, path) == {p \in among : p # <<>> /\ Front(p) = path}

\* the entry for ".." has its place in the array only below MAX_ENTRIES_DIR
ASSUME MenuAssumption ==
    /\ PageLines \in Nat \ {0} /\ MaxTyped \in Nat \ {0}
    /\ \A card \in Cards : IsFiniteSet(card) /\
          \A path \in card : Cardinality(SubFolders(card, path)) < MaxEntries

VARIABLES
    slot,       \* the published protocol buffer: a key, "esc" or "none"
    level,      \* commandLevel: single, data or reentry
    lastKey,    \* lastSingleKeyCommand
    typed,      \* inputBuffer
    picker,     \* navState, or NoPicker
    display,    \* what the ST's screen shows
    menuActive, \* menuScreenActive
    folders,    \* the folders of the mounted card, or NoCard
    config,     \* the settings the menu edits
    handed      \* no, then to whom the machine was handed over

menuVars == <<slot, level, lastKey, typed, picker, display, menuActive, folders, config, handed>>

Letters == {"o", "d", "r", "v", "g", "x"}
Digit == "1"
CharKind(key) == IF key \in Letters THEN "letter" ELSE IF key = Digit THEN Digit ELSE "other"
Keys == Letters \cup {Digit, "space", "return", "back", "up", "down", "left", "right"}

\* the setting that a prompt asks for
Asked == [d |-> "drive", r |-> "reloc"]
NoPicker == [open |-> FALSE]
NoCard == {}
Mounted == folders # NoCard

MenuShown   == [kind |-> "menu"]
PromptFor(k, text) == [kind |-> "prompt", of |-> k, text |-> text]
Page(p) == [kind |-> "picker", path |-> p.path, page |-> p.page, selected |-> p.selected]

MenuTypeOK ==
    /\ slot \in Keys \cup {"esc", "none"}
    /\ level \in {"single", "data", "reentry"} /\ lastKey \in Letters \cup {"none"}
    /\ Len(typed) <= MaxTyped /\ \A i \in 1..Len(typed) : typed[i] \in {"letter", Digit, "other"}
    /\ picker = NoPicker \/ picker.path \in UNION Cards
    /\ display.kind \in {"menu", "blank", "prompt", "refused", "picker", "left"}
    /\ menuActive \in BOOLEAN
    /\ folders \in Cards \cup {NoCard}
    /\ handed \in {"no", "st", "gone", "booster"}

MenuInit ==
    /\ slot = "none" /\ level = "single" /\ lastKey = "none" /\ typed = <<>>
    /\ picker = NoPicker /\ display = MenuShown /\ menuActive = TRUE
    /\ folders \in Cards \cup {NoCard}
    /\ config = [folder |-> <<>>, drive |-> "c", reloc |-> <<>>]
    /\ handed = "no"

----------------------------------------------------------------------------
(* What the handlers do.  The level, the picker, the screen, the settings. *)

\* menu()
PaintMenu ==
    level' = "single" /\ display' = MenuShown /\ menuActive' = TRUE

\* a setting is stored and the menu shows it; a failed save changes the
\* setting all the same
Store(name, value) ==
    config' = [config EXCEPT ![name] = value] /\ PaintMenu

\* isValidDrive, the number of [R]: whether a text is accepted, and its value
Accepts(k, text) ==
    \/ k = "d" /\ text # <<>> /\ text[1] = "letter"
    \/ k = "r" /\ (text = <<>> \/ text[1] = Digit)
ValueOf(k, text) ==
    IF k = "d" THEN text[1]
    ELSE LET stop == SelectInSeq(text, LAMBDA char : char # Digit)
         IN  IF stop = 0 THEN text ELSE SubSeq(text, 1, stop - 1)

\* cmdGemdriveDrive and cmdGemdriveRelocAddr, at the key and at RETURN
OpenPrompt(k) ==
    /\ level' = "data" /\ display' = PromptFor(k, <<>>)
    /\ UNCHANGED <<picker, menuActive, config, handed>>

ClosePrompt(k) ==
    /\ IF Accepts(k, typed) THEN Store(Asked[k], ValueOf(k, typed))
       ELSE /\ level' = "single" /\ display' = [kind |-> "refused"]
            /\ UNCHANGED <<menuActive, config>>
    /\ UNCHANGED <<picker, handed>>

----------------------------------------------------------------------------
(* The folder picker.                                                      *)

\* sdcard_loadDirectory: ".." below the root, then the folders in order
EntriesOf(path) ==
    (IF path = <<>> THEN <<>> ELSE <<path>>) \o SetToSeq(SubFolders(folders, path))

\* the path that RETURN goes to: the parent for "..", or the folder named
Destination(path, entry) == IF entry = path THEN Front(path) ELSE entry

LastPage(p) == (Len(p.entries) + PageLines - 1) \div PageLines - 1

PickerAt(path) == [open |-> TRUE, path |-> path, entries |-> EntriesOf(path),
                 selected |-> 0, page |-> 0]

\* the directory is read, or the card fails: NAV_DIR_ERROR
Load(path) ==
    \/ /\ Mounted /\ path \in folders
       /\ picker' = PickerAt(path)
       /\ level' = "reentry" /\ display' = Page(picker')
       /\ UNCHANGED menuActive
    \/ picker' = NoPicker /\ PaintMenu

\* Mutant: the last page is taken for one further on.
Turned_TooFar(p, key) ==
    LET to == IF key = "left" THEN p.page - 1 ELSE p.page + 1
    IN  IF to \in 0..(LastPage(p) + 1) THEN [p EXCEPT !.page = to, !.selected = to * PageLines]
        ELSE p

\* navigate_directory, the keys that turn the page
Turned(p, key) ==
    LET to == IF key = "left" THEN p.page - 1 ELSE p.page + 1
    IN  IF to \in 0..LastPage(p) THEN [p EXCEPT !.page = to, !.selected = to * PageLines]
        ELSE p

\* and those that move the selection: UP may leave the page, DOWN may not
Stepped(p, key) ==
    IF key = "up"
    THEN IF p.selected > 0 THEN [p EXCEPT !.selected = @ - 1] ELSE p
    ELSE IF p.selected < Len(p.entries) - 1 /\ p.selected % PageLines < PageLines - 1
         THEN [p EXCEPT !.selected = @ + 1] ELSE p

\* drawPage after a key that leaves the directory as it is
Redraw(p) ==
    picker' = p /\ display' = Page(p) /\ UNCHANGED <<level, menuActive, config>>

PickerKey(key) ==
    /\ \/ /\ key \in {"up", "down"} /\ Redraw(Stepped(picker, key))
       \/ /\ key \in {"left", "right"} /\ Redraw(Turned(picker, key))
       \/ /\ key = "return"
          /\ IF picker.entries = <<>> THEN Redraw(picker)
             ELSE /\ Load(Destination(picker.path, picker.entries[picker.selected + 1]))
                  /\ UNCHANGED config
       \/ /\ key = "space" /\ Store("folder", picker.path) /\ picker' = NoPicker
       \/ /\ key = Digit /\ Redraw(picker)
       \/ /\ key \in Letters /\ UNCHANGED <<level, picker, display, menuActive, config>>
    /\ UNCHANGED handed

\* cmdGemdriveFolder at the key; memory for navState may be missing
OpenPicker ==
    /\ \/ Load(config.folder)
       \/ ~picker.open /\ UNCHANGED <<level, picker, display, menuActive>>
    /\ UNCHANGED <<config, handed>>

----------------------------------------------------------------------------
(* The other commands.                                                     *)

\* cmdAdvHookVector: which of its two values the setting has decides nothing here
ToggleHook == PaintMenu /\ UNCHANGED <<picker, config, handed>>

\* cmdGemdrive and cmdRunner: emul_canLaunch asks for a card and for a HELLO
LaunchST ==
    /\ \/ /\ Mounted /\ display' = [kind |-> "left"] /\ menuActive' = FALSE
          /\ handed' = "st"
          /\ UNCHANGED level
       \/ PaintMenu /\ UNCHANGED handed
    /\ UNCHANGED <<picker, config>>

\* cmdBooster: the main loop ends after this pass
LeaveToBooster ==
    /\ display' = [kind |-> "left"] /\ menuActive' = FALSE
    /\ handed' = "booster"
    /\ UNCHANGED <<level, picker, config>>

MenuCommand(k) ==
    \/ k = "o" /\ OpenPicker
    \/ k \in DOMAIN Asked /\ OpenPrompt(k)
    \/ k = "v" /\ ToggleHook
    \/ k = "g" /\ LaunchST
    \/ k = "x" /\ LeaveToBooster

----------------------------------------------------------------------------
(* term.c                                                                  *)

Showing == <<picker, display, menuActive, config, handed>>

\* check_keys of main.s, then term_command_cb: the newer key replaces one that
\* term_loop has not taken.  The ST may send one more key before it sees that
\* it is to leave the terminal.
Press(key) ==
    /\ handed \in {"no", "st"}
    /\ slot' = key
    /\ handed' = IF handed = "st" THEN "gone" ELSE handed
    /\ UNCHANGED <<level, lastKey, typed, picker, display, menuActive, folders, config>>

\* backspace, on any level
Backspace ==
    /\ slot = "back"
    /\ typed' = IF typed = <<>> THEN typed ELSE Front(typed)
    /\ display' = IF display.kind = "prompt" /\ typed # <<>>
                  THEN [display EXCEPT !.text = Front(@)] ELSE display
    /\ UNCHANGED <<level, lastKey, picker, menuActive, config, handed>>

\* Mutant: a command does not clear the input buffer.
SingleKey_KeepsBuffer ==
    /\ level = "single" /\ slot \in Keys \ {"back"}
    /\ UNCHANGED typed
    /\ IF slot \in Letters THEN lastKey' = slot /\ MenuCommand(slot)
       ELSE UNCHANGED <<lastKey, level, Showing>>

\* TERM_COMMAND_LEVEL_SINGLE_KEY: a key without a command only clears the buffer
SingleKey ==
    /\ level = "single" /\ slot \in Keys \ {"back"}
    /\ typed' = <<>>
    /\ IF slot \in Letters THEN lastKey' = slot /\ MenuCommand(slot)
       ELSE UNCHANGED <<lastKey, level, Showing>>

\* TERM_COMMAND_LEVEL_COMMAND_SINGLE_KEY_REENTRY: only [O] asks for it
Reentry ==
    /\ level = "reentry" /\ slot \in Keys \ {"back"} /\ lastKey = "o"
    /\ typed' = <<>> /\ PickerKey(slot)
    /\ UNCHANGED lastKey

\* TERM_COMMAND_LEVEL_DATA_INPUT
DataInput ==
    /\ level = "data" /\ slot \in Keys \ {"back"}
    /\ \/ /\ slot = "return" /\ ClosePrompt(lastKey)
          /\ UNCHANGED typed
       \/ /\ slot # "return" /\ Len(typed) < MaxTyped
          /\ typed' = Append(typed, CharKind(slot))
          /\ display' = [display EXCEPT !.text = Append(@, CharKind(slot))]
          /\ UNCHANGED <<level, picker, menuActive, config, handed>>
       \/ /\ slot # "return" /\ Len(typed) = MaxTyped
          /\ UNCHANGED <<typed, level, Showing>>
    /\ UNCHANGED lastKey

\* APP_TERMINAL_START: the screen is cleared, and "m" is no command
TerminalStart ==
    /\ slot = "esc"
    /\ level' = "single" /\ typed' = <<>>
    /\ display' = [kind |-> "blank"]
    /\ UNCHANGED <<lastKey, picker, menuActive, config, handed>>

TakeKey ==
    /\ handed # "booster"
    /\ Backspace \/ SingleKey \/ Reentry \/ DataInput \/ TerminalStart
    /\ slot' = "none"
    /\ UNCHANGED folders

\* the main loop sees that the card has come, with its folders, or gone
CardChanges ==
    /\ handed # "booster"
    /\ folders' \in (Cards \cup {NoCard}) \ {folders} /\ (Mounted => folders' = NoCard)
    /\ IF menuActive THEN PaintMenu ELSE UNCHANGED <<level, display, menuActive>>
    /\ UNCHANGED <<slot, lastKey, typed, picker, config, handed>>

MenuNext ==
    \/ \E key \in Keys \cup {"esc"} : Press(key)
    \/ TakeKey \/ CardChanges

MenuSpec == MenuInit /\ [][MenuNext]_menuVars

----------------------------------------------------------------------------
(* Properties.                                                             *)

\* A setting changes only to what the screen shows when the key is taken: the
\* folder the picker names, or the text behind the prompt for that setting.
\* Keys that overwrite each other, ESC and a card that comes or goes in the
\* middle of a dialogue never save a value out of sight (term.c, emul.c).
SavesWhatIsShown ==
    [][/\ config'.folder # config.folder =>
             display.kind = "picker" /\ display.path = config'.folder
       /\ \A k \in DOMAIN Asked : config'[Asked[k]] # config[Asked[k]] =>
             /\ display.kind = "prompt" /\ display.of = k
             /\ Accepts(k, display.text) /\ ValueOf(k, display.text) = config'[Asked[k]]
      ]_menuVars

\* The picker's selection is one of its entries: RETURN reads the entry that
\* the selection points at without looking (navigate_directory).
SelectionExists ==
    picker.open => \/ picker.selected < Len(picker.entries)
                   \/ picker.entries = <<>> /\ picker.selected = 0

\* "ESC cancels the picker and returns to the menu" (cmdGemdriveFolder), "ESC
\* to exit" (drawPage).
EscLeavesPicker ==
    [][display.kind = "picker" /\ slot = "esc" /\ slot' = "none" =>
          display' = MenuShown /\ ~picker'.open]_menuVars
====
