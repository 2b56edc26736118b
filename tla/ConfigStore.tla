------------------------------ MODULE ConfigStore ------------------------------
(***************************************************************************)
(* The settings in flash: config_save and config_load of                   *)
(* src/persistence/config.c, called from api_setup.c and at boot.  Two     *)
(* sectors hold settings and the first byte of a header sector says which  *)
(* is active.  Power may be lost at any step of a save; nothing else can   *)
(* come between, for no handler is preempted.                              *)
(*                                                                         *)
(* NOR flash: an erase sets every bit and a write can only clear bits.     *)
(***************************************************************************)
EXTENDS Naturals

CONSTANTS
  Settings,            \* what a user may save
  Blank,               \* an erased sector
  Torn                 \* a sector erased or written in part

ASSUME ContentAssumption == Blank \notin Settings /\ Torn \notin Settings /\ Blank # Torn

VARIABLES
  header,              \* ConfigHeader.active_sector, as it is in flash
  flash,               \* the contents of the sectors A and B
  cfg,                 \* the settings in memory
  update,              \* run_state.wifi_cfg_update
  step,                \* what config_save does next; "off" before config_load
  saves,               \* history: how many saves came to their end, up to 3
  last, previous,      \* history: what the last two of them saved
  faults               \* history: what went wrong in a save: "flash", "power"

vars == <<header, flash, cfg, update, step, saves, last, previous, faults>>

Sectors == {"A", "B"}
Content == Settings \cup {Blank, Torn}

\* The bytes the header ever holds, 0xFF, 1 and 0, are nested bit patterns:
\* writing one over another leaves their AND, which is the smaller.
Erased == 255
Program(old, new) == IF new < old THEN new ELSE old

\* The sector config_save writes, and the one config_load reads: the same.
SaveLocation == IF header = 1 THEN "B" ELSE "A"

\* Mutant: config_load takes the header at its word.
LoadOther == IF header = 1 THEN "A" ELSE "B"

LoadLocation == IF header = 1 THEN "B" ELSE "A"

Init == /\ header = Erased
        /\ flash = [s \in Sectors |-> Blank]
        /\ cfg = Blank
        /\ update = FALSE
        /\ step = "off"
        /\ saves = 0 /\ last = Blank /\ previous = Blank
        /\ faults = {}

-----------------------------------------------------------------------------
\* app_init.
config_load ==
  /\ step = "off" /\ step' = "idle"
  /\ cfg' = flash[LoadLocation]
  /\ UNCHANGED <<header, flash, update, saves, last, previous, faults>>

\* api_setup_request with settings it can parse: they are in cfg, and
\* config_save is called.
api_setup_request(settings) ==
  /\ step = "idle" /\ step' = "erase"
  /\ cfg' = settings
  /\ UNCHANGED <<header, flash, update, saves, last, previous, faults>>

\* api_setup_request with settings it cannot parse to the end: some are in
\* cfg by then, and config_load takes their place.
api_setup_reject ==
  /\ step = "idle"
  /\ cfg' = flash[LoadLocation]
  /\ UNCHANGED <<header, flash, update, step, saves, last, previous, faults>>

\* Mutant: config_save makes room in both sectors.
EraseBoth ==
  /\ step = "erase" /\ step' = "write"
  /\ flash' = [s \in Sectors |-> Blank]
  /\ UNCHANGED <<header, cfg, update, saves, last, previous, faults>>

EraseSector ==
  /\ step = "erase" /\ step' = "write"
  /\ flash' = [flash EXCEPT ![SaveLocation] = Blank]
  /\ UNCHANGED <<header, cfg, update, saves, last, previous, faults>>

\* The erase fails: config_save returns, and api_setup_request sets the flag
\* for wifi.c as it does after a save.
EraseFails ==
  /\ step = "erase" /\ step' = "idle"
  /\ \E left \in {flash[SaveLocation], Torn} :
       flash' = [flash EXCEPT ![SaveLocation] = left]
  /\ update' = TRUE
  /\ faults' = faults \cup {"flash"}
  /\ UNCHANGED <<header, cfg, saves, last, previous>>

\* The result of the write is not looked at.
WriteSector(ok) ==
  /\ step = "write" /\ step' = "activate"
  /\ flash' = [flash EXCEPT ![SaveLocation] = IF ok THEN cfg ELSE Torn]
  /\ faults' = IF ok THEN faults ELSE faults \cup {"flash"}
  /\ UNCHANGED <<header, cfg, update, saves, last, previous>>

Flipped == IF header = 1 THEN 0 ELSE 1

\* Nor is that of the header, which is not erased before.
WriteHeader(ok) ==
  /\ step = "activate" /\ step' = "idle"
  /\ header' = IF ok THEN Program(header, Flipped) ELSE header
  /\ faults' = IF ok THEN faults ELSE faults \cup {"flash"}
  /\ saves' = IF saves < 3 THEN saves + 1 ELSE 3
  /\ last' = cfg /\ previous' = last
  /\ update' = TRUE
  /\ UNCHANGED <<flash, cfg>>

\* Power is lost, in the middle of the step if there is one.
PowerLoss ==
  /\ step # "off" /\ step' = "off"
  /\ cfg' = Blank /\ update' = FALSE
  /\ \/ step \in {"erase", "write"} /\ flash' = [flash EXCEPT ![SaveLocation] = Torn]
     \/ UNCHANGED flash
  /\ \/ step = "activate" /\ header' = Program(header, Flipped)
     \/ UNCHANGED header
  /\ faults' = IF step = "idle" THEN faults ELSE faults \cup {"power"}
  /\ UNCHANGED <<saves, last, previous>>

\* wifi_check_ip or wifi_check_cfg takes the settings.
TakeSettings ==
  /\ step = "idle"
  /\ update /\ update' = FALSE
  /\ UNCHANGED <<header, flash, cfg, step, saves, last, previous, faults>>

config_save == \/ EraseSector \/ EraseFails
               \/ \E ok \in BOOLEAN : WriteSector(ok) \/ WriteHeader(ok)

Next == \/ config_load \/ config_save \/ PowerLoss \/ TakeSettings \/ api_setup_reject
        \/ \E settings \in Settings : api_setup_request(settings)

Spec == Init /\ [][Next]_vars

-----------------------------------------------------------------------------
(* While nothing failed, what a boot would load is what was saved last or  *)
(* what was saved before that; from the third save on it is the last.      *)
LoadLags ==
  faults = {} /\ step \in {"off", "idle"} =>
    /\ flash[LoadLocation] \in {last, previous}
    /\ saves = 3 => flash[LoadLocation] = last

(* Whenever power is lost, some sector holds settings that were saved      *)
(* whole, once a save came to its end, if the flash itself never failed.   *)
SomethingSurvives ==
  saves > 0 /\ "flash" \notin faults => \E s \in Sectors : flash[s] \in Settings

(* After a save that did not fail its settings are the ones that config_load *)
(* finds: "activate new config", config.c:24.                              *)
SaveActivates == faults = {} /\ step = "idle" /\ saves > 0 => flash[LoadLocation] = last
=============================================================================
