---- MODULE SettingsStore ----
(***************************************************************************)
(* The app settings (settings.c, as main.c and the menu of emul.c use it): *)
(* a copy in RAM, and one flash sector that every save erases and programs *)
(* anew, a page at a time, with the interrupts off.  The power may go at   *)
(* any point.                                                              *)
(*                                                                         *)
(* Entry 0 is the magic one.  The sizes are such that an entry that        *)
(* crosses into the next page does it within its key: until that page is   *)
(* programmed the key is not valid, and the entry counts as the first of   *)
(* its second page.  External: an erase is whole or has not begun, and so  *)
(* is the program of a page.                                               *)
(***************************************************************************)
EXTENDS Integers

CONSTANTS
    LastEntry,      \* the entries are 0..LastEntry
    PerPage,        \* entries whose last byte is in the same page
    Values,
    Default         \* the default of every entry

ASSUME SettingsAssumption ==
    LastEntry \in Nat /\ PerPage \in Nat \ {0} /\ Default \in Values /\ "blank" \notin Values

VARIABLES
    flash,          \* the sector
    entries,            \* configData.entries
    padded,         \* the copy a save programs
    page,           \* and its next page
    power,          \* off, on, in the booster, or within settings_save
    settingsSaveFailed,
    stored,         \* history: what was saved last without being cut
    cut,            \* history: and a later one was cut
    torn            \* history: that one

settingsVars == <<flash, entries, padded, page, power, settingsSaveFailed, stored, cut, torn>>

Setting == 0..LastEntry
Images  == [Setting -> Values]
Blank   == "blank"      \* erased flash: not a valid key
Nowhere == [i \in Setting |-> Blank]
Defaults == [i \in Setting |-> Default]

SettingsTypeOK ==
    /\ flash \in [Setting -> Values \cup {Blank}]
    /\ entries \in Images /\ padded \in Images /\ stored \in Images
    /\ torn \in Images /\ cut \in BOOLEAN
    /\ page \in Nat
    /\ power \in {"off", "on", "booster", "erase", "program"}
    /\ settingsSaveFailed \in BOOLEAN

SettingsInit ==
    /\ flash = Nowhere /\ entries = Defaults /\ padded = Defaults /\ stored = Defaults
    /\ page = 0 /\ power = "off" /\ settingsSaveFailed = FALSE
    /\ cut = FALSE /\ torn = Defaults

\* settingsLoadAllEntries: the defaults, overwritten up to the first entry
\* that is not valid
Loaded(f) ==
    [i \in Setting |-> IF \A j \in 0..i : f[j] # Blank THEN f[i] ELSE Default]

\* settings_save, up to the erase; without memory for its copy it fails
SaveBegins(image) == power' = "erase" /\ padded' = image

\* main: without the magic in flash the defaults are saved first
LoadAtBoot ==
    /\ power = "off"
    /\ entries' = Loaded(flash) /\ settingsSaveFailed' = FALSE
    /\ \/ flash[0] # Blank /\ power' = "on" /\ UNCHANGED padded
       \/ flash[0] = Blank /\ SaveBegins(entries')
       \/ flash[0] = Blank /\ power' = "booster" /\ UNCHANGED padded
    /\ UNCHANGED <<flash, page, stored, cut, torn>>

\* Mutant: a save that failed is not remembered.
Change_IgnoresFailure(i, v) ==
    /\ power = "on" /\ i # 0
    /\ entries' = [entries EXCEPT ![i] = v]
    /\ SaveBegins(entries') \/ UNCHANGED <<power, padded>>
    /\ UNCHANGED <<settingsSaveFailed, flash, page, stored, cut, torn>>

\* a menu command changes an entry and saves
Change(i, v) ==
    /\ power = "on" /\ i # 0
    /\ entries' = [entries EXCEPT ![i] = v]
    /\ \/ SaveBegins(entries') /\ UNCHANGED settingsSaveFailed
       \/ settingsSaveFailed' = TRUE /\ UNCHANGED <<power, padded>>
    /\ UNCHANGED <<flash, page, stored, cut, torn>>

Erase ==
    /\ power = "erase"
    /\ flash' = Nowhere /\ page' = 0 /\ power' = "program"
    /\ UNCHANGED <<entries, padded, settingsSaveFailed, stored, cut, torn>>

ProgramPage ==
    /\ power = "program"
    /\ flash' = [i \in Setting |-> IF i \div PerPage = page THEN padded[i] ELSE flash[i]]
    /\ page' = page + 1
    /\ \/ (page + 1) * PerPage <= LastEntry
          /\ UNCHANGED <<power, settingsSaveFailed, stored, cut, torn>>
       \/ /\ (page + 1) * PerPage > LastEntry
          /\ power' = "on" /\ settingsSaveFailed' = FALSE
          /\ stored' = padded /\ cut' = FALSE /\ UNCHANGED torn
    /\ UNCHANGED <<entries, padded>>

\* the power goes, or the chip is reset
PowerOff ==
    /\ power # "off" /\ power' = "off"
    /\ \/ power = "program" /\ cut' = TRUE /\ torn' = padded
       \/ power # "program" /\ UNCHANGED <<cut, torn>>
    /\ UNCHANGED <<flash, entries, padded, page, settingsSaveFailed, stored>>

SettingsNext ==
    \/ LoadAtBoot \/ Erase \/ ProgramPage \/ PowerOff
    \/ \E i \in Setting, v \in Values : Change(i, v)

SettingsSpec == SettingsInit /\ [][SettingsNext]_settingsVars

----------------------------------------------------------------------------
\* the first n entries of an image, and the defaults behind them
FirstOf(image, n) == [i \in Setting |-> IF i < n THEN image[i] ELSE Default]

\* What the next boot loads is what was saved last, as long as no save was
\* cut; a cut save leaves the first entries of what it was saving and the
\* defaults behind them, never anything older or unreadable; and while the
\* program runs and its menu shows no failed save, the settings in use are
\* the ones the next boot loads (settings_save, settingsLoadAllEntries,
\* saveAppSettings).
SettingsSurvive ==
    /\ ~cut /\ power # "program" => Loaded(flash) = stored
    /\ cut /\ power # "program" =>
           \E n \in 0..(LastEntry + 1) : Loaded(flash) = FirstOf(torn, n)
    /\ power = "on" /\ ~settingsSaveFailed => entries = Loaded(flash)
====
