------------------------------ MODULE SetupProofs ------------------------------
(***************************************************************************)
(* The setup of a device: the scan for access points (WifiScan), the page  *)
(* that asks for it (SetupPage) and the settings that the page's form ends *)
(* up as in flash (ConfigStore), whoever asks, however many clicks there   *)
(* are and whatever the settings are.                                      *)
(***************************************************************************)
EXTENDS SetupPage, ConfigStore, TLAPS

-----------------------------------------------------------------------------
(* The scan.  The status, the list and the scans of the SDK are three      *)
(* variables that wifi_scan.c and its callers keep in step: while there is *)
(* anybody left to answer, or a scan to report, the status says so and the *)
(* list is empty; a scan that runs is never started again.                 *)

Answers == [status : Status \cup {"none", "BAD_REQUEST"}, aps : 0..MaxAps]

ScanTypeOK == /\ ap_scan_status \in Status \ {"SCAN_ERROR"}
              /\ ap_count \in 0..MaxAps
              /\ pending \in {0, 1}
              /\ answer \in [Users -> Answers]
              /\ waiting \subseteq Users
              /\ declined \in BOOLEAN

\* A status of SCANNING lasts as long as a scan of the SDK, or for ever when
\* the SDK declined it.
StatusTells == /\ ap_scan_status = "SCANNING" <=> pending = 1 \/ declined
               /\ pending = 1 => ~declined
               /\ ap_scan_status # "SCAN_FINISHED" => ap_count = 0
               /\ waiting # {} => ap_scan_status = "SCANNING"

ScanInv == ScanTypeOK /\ StatusTells /\ FinishedIsFresh

LEMMA InitScanInv == ScanInit => ScanInv
<1> SUFFICES ASSUME ScanInit PROVE ScanInv
  OBVIOUS
<1>1. NoAnswer \in Answers
  BY MaxApsAssumption DEF NoAnswer, Answers
<1>2. ScanTypeOK
  <2>1. answer \in [Users -> Answers] /\ waiting \subseteq Users
    BY <1>1 DEF ScanInit
  <2>2. ap_count \in 0..MaxAps /\ pending \in {0, 1}
    BY MaxApsAssumption DEF ScanInit
  <2>4. declined \in BOOLEAN
    BY Zenon DEF ScanInit
  <2>3. ap_scan_status \in Status \ {"SCAN_ERROR"}
    BY DEF ScanInit, Status
  <2> QED BY <2>1, <2>2, <2>3, <2>4 DEF ScanTypeOK
<1>3. StatusTells
  BY DEF ScanInit, StatusTells
<1>4. \A u \in Users : answer[u].status = "none" /\ answer[u].aps = 0
  BY DEF ScanInit, NoAnswer
<1>5. FinishedIsFresh
  <2> SUFFICES ASSUME NEW u \in Users
               PROVE  /\ answer[u].status = "SCAN_FINISHED" => u \notin waiting
                      /\ answer[u].aps > 0 =>
                           answer[u].status \in {"SCAN_FINISHED", "BAD_REQUEST"}
    BY DEF FinishedIsFresh
  <2> QED BY <1>4
<1> QED BY <1>2, <1>3, <1>5 DEF ScanInv

(* The end of a scan answers everybody.                                    *)
LEMMA FinishScanInv == ScanInv /\ Finish => ScanInv'
<1> SUFFICES ASSUME ScanInv, NEW found \in 0 .. MaxAps + 1, wifi_scan_finish(found)
             PROVE  ScanInv'
  BY DEF Finish
<1> USE MaxApsAssumption DEF ScanInv, wifi_scan_finish
<1>1. ScanTypeOK' /\ StatusTells'
  BY DEF ScanTypeOK, StatusTells, Status
<1>2. FinishedIsFresh'
  BY DEF FinishedIsFresh
<1> QED BY <1>1, <1>2

(* What one user is told leaves what the others were told alone.           *)
LEMMA ToldAlone ==
  ASSUME ScanTypeOK, NEW u \in Users, NEW status, Told(u, status)
  PROVE  /\ answer'[u] = [status |-> status, aps |-> ap_count']
         /\ \A v \in Users \ {u} : answer'[v] = answer[v]
BY DEF ScanTypeOK, Told

(* A refresh starts a scan only where none runs.                           *)
LEMMA RefreshScanInv ==
  ASSUME ScanInv, NEW u \in Users, NEW taken \in BOOLEAN, Refresh(u, taken)
  PROVE  ScanInv'
<1> USE MaxApsAssumption DEF ScanInv, Refresh, wifi_start_scan
<1>1. ap_scan_status' = "SCANNING" /\ ap_count' = 0 /\ waiting' = waiting \cup {u}
  BY DEF StatusTells
<1>2. /\ answer'[u] = [status |-> "SCANNING", aps |-> 0]
      /\ \A v \in Users \ {u} : answer'[v] = answer[v]
  BY <1>1, ToldAlone
<1>3. answer' \in [Users -> Answers]
  BY <1>1 DEF ScanTypeOK, Told, Answers, Status
<1>4. declined' \in BOOLEAN
  BY Zenon DEF ScanTypeOK
<1>5. pending' \in {0, 1} /\ (pending' = 1 <=> ~declined')
  <2>1. CASE ap_scan_status = "SCANNING"
    BY <2>1 DEF ScanTypeOK, StatusTells
  <2>2. CASE ap_scan_status # "SCANNING"
    <3>1. pending = 0
      BY <2>2 DEF ScanTypeOK, StatusTells
    <3>2. pending' = pending + (IF taken THEN 1 ELSE 0)
      BY <2>2
    <3>3. declined' = ~taken
      BY <2>2, Zenon
    <3>4. declined' <=> ~taken
      BY <3>3, Zenon
    <3>5. pending' = 1 \/ pending' = 0
      BY <3>1, <3>2
    <3>6. pending' = 1 <=> taken
      BY <3>1, <3>2
    <3> QED BY <3>4, <3>5, <3>6
  <2> QED BY <2>1, <2>2
<1>6. ScanTypeOK' /\ StatusTells'
  BY <1>1, <1>3, <1>4, <1>5 DEF ScanTypeOK, StatusTells, Status
<1>7. FinishedIsFresh'
  BY <1>1, <1>2 DEF FinishedIsFresh
<1> QED BY <1>6, <1>7

(* The other requests leave the scan alone.                                *)
LEMMA AskScanInv ==
  ASSUME ScanInv, NEW u \in Users, List(u) \/ BadRequest(u)
  PROVE  ScanInv'
<1> USE DEF ScanInv, List, BadRequest
<1> DEFINE status == IF List(u) THEN ap_scan_status ELSE "BAD_REQUEST"
<1>1. UNCHANGED <<ap_scan_status, ap_count, pending, waiting, declined>> /\ Told(u, status)
  OBVIOUS
<1>2. /\ answer'[u] = [status |-> status, aps |-> ap_count]
      /\ \A v \in Users \ {u} : answer'[v] = answer[v]
  BY <1>1, ToldAlone
<1>3. status \in Status \cup {"BAD_REQUEST"}
  BY DEF ScanTypeOK
<1>4. answer' \in [Users -> Answers]
  BY <1>1, <1>3 DEF ScanTypeOK, Told, Answers
<1>5. ScanTypeOK' /\ StatusTells'
  BY <1>1, <1>4 DEF ScanTypeOK, StatusTells
<1>6. /\ status = "SCAN_FINISHED" => u \notin waiting
      /\ ap_count > 0 => status \in {"SCAN_FINISHED", "BAD_REQUEST"}
  BY DEF ScanTypeOK, StatusTells
<1> HIDE DEF status
<1>7. FinishedIsFresh'
  BY <1>1, <1>2, <1>6 DEF FinishedIsFresh
<1> QED BY <1>5, <1>7

LEMMA StepScanInv == ScanInv /\ [ScanNext]_scanVars => ScanInv'
<1> SUFFICES ASSUME ScanInv, [ScanNext]_scanVars PROVE ScanInv'
  OBVIOUS
<1>1. CASE Finish
  BY <1>1, FinishScanInv
<1>2. ASSUME NEW u \in Users, Asks(u) PROVE ScanInv'
  BY <1>2, RefreshScanInv, AskScanInv DEF Asks
<1>3. CASE UNCHANGED scanVars
  BY <1>3 DEF scanVars, ScanInv, ScanTypeOK, StatusTells, FinishedIsFresh
<1> QED BY <1>1, <1>2, <1>3 DEF ScanNext

LEMMA ScanInvariance == ScanSpec => []ScanInv
BY InitScanInv, StepScanInv, PTL DEF ScanSpec

(* Whoever asks for lists and refreshes meanwhile, a scan that is reported *)
(* finds the list empty, so wifi_scan_finish loses no allocated entry.     *)
THEOREM NothingIsOverwritten == ScanSpec => []NothingOverwritten
<1>1. ScanInv => NothingOverwritten
  BY DEF ScanInv, ScanTypeOK, StatusTells, NothingOverwritten
<1> QED BY <1>1, ScanInvariance, PTL

-----------------------------------------------------------------------------
(* The page.  A chain knows of the device only what it was answered, which *)
(* may be old when it looks; but the answers of a chain go through its own *)
(* stages alone, so what it was told last is still true of its own wait.   *)

PageTypeOK == /\ stage \in [Clicks -> Stage]
              /\ refreshAps \in {"enabled", "disabled"}
              /\ apTable \in {"empty", "loading", "list"}
              /\ setup \in {"none", "get", "set"}
              /\ overlay \in {"none", "wait", "message"}

\* What a chain was told, and what its stage says of its wait.
ChainTold(u) ==
  /\ stage[u] \in {"unclicked", "refresh", "over"} => u \notin waiting
  /\ stage[u] = "refreshed" => answer[u].status = "SCANNING"
  /\ stage[u] = "listed" /\ answer[u].status # "SCANNING" => u \notin waiting

PageInv == PageTypeOK /\ ScanInv /\ \A u \in Clicks : ChainTold(u)

LEMMA InitPageInv == PageInit => PageInv
<1> SUFFICES ASSUME PageInit PROVE PageInv
  OBVIOUS
<1>1. ScanInv
  BY InitScanInv DEF PageInit
<1>2. PageTypeOK
  BY DEF PageInit, PageTypeOK, Stage
<1>3. \A u \in Clicks : ChainTold(u)
  BY DEF PageInit, ScanInit, ChainTold
<1> QED BY <1>1, <1>2, <1>3 DEF PageInv

(* The page is a user of the scan like any other.                          *)
LEMMA PageStepsScan == [PageNext]_pageVars => [ScanNext]_scanVars
<1> SUFFICES ASSUME [PageNext]_pageVars PROVE [ScanNext]_scanVars
  OBVIOUS
<1> USE ClicksAssumption
<1>1. CASE Device
  BY <1>1 DEF Device, Others, ScanNext
<1>2. ASSUME NEW u \in Clicks, Serve(u) PROVE ScanNext
  BY <1>2 DEF Serve, Asks, ScanNext
<1>3. ASSUME NEW u \in Clicks, sendRefresh(u) \/ RefreshAnswered(u) \/ PollAgain(u)
                                 \/ ListAnswered(u) \/ PostFails(u)
      PROVE  UNCHANGED scanVars
  BY <1>3 DEF sendRefresh, RefreshAnswered, PollAgain, ListAnswered, PostFails
<1>4. CASE sendSetup \/ SetupAnswered \/ CloseMessage \/ UNCHANGED pageVars
  BY <1>4 DEF sendSetup, SetupAnswered, CloseMessage, pageVars
<1> QED BY <1>1, <1>2, <1>3, <1>4 DEF PageNext, Progress

THEOREM PageUsesScan == PageSpec => ScanSpec
<1>1. PageInit => ScanInit
  BY DEF PageInit
<1> QED BY <1>1, PageStepsScan, PTL DEF PageSpec, ScanSpec

(* What others ask and what the SDK reports says nothing new to a chain,   *)
(* and can only end its wait.                                              *)
LEMMA DeviceChains ==
  ASSUME PageInv, Device
  PROVE  \A u \in Clicks : ChainTold(u)'
<1> TAKE u \in Clicks
<1> USE ClicksAssumption DEF PageInv, ChainTold
<1>1. stage' = stage
  BY DEF Device, page
<1>2. CASE Finish
  BY <1>1, <1>2 DEF Finish, wifi_scan_finish
<1>3. CASE Others
  <2>1. PICK v \in Users \ Clicks : Asks(v)
    BY <1>3 DEF Others
  <2>2. waiting' = waiting \/ waiting' = waiting \cup {v}
    BY <2>1 DEF Asks, Refresh, List, BadRequest
  <2>3. answer'[u] = answer[u]
    BY <2>1 DEF Asks, Refresh, List, BadRequest, Told, ScanInv, ScanTypeOK
  <2> QED BY <1>1, <2>2, <2>3
<1> QED BY <1>2, <1>3 DEF Device

(* The chain of one click leaves the chains of the others as they are.     *)
LEMMA OtherChains ==
  ASSUME PageInv, NEW u \in Clicks, NEW v \in Clicks \ {u},
         sendRefresh(u) \/ Progress(u) \/ PostFails(u)
  PROVE  ChainTold(v)'
<1> USE ClicksAssumption
        DEF PageInv, ScanInv, ScanTypeOK, PageTypeOK, sendRefresh, Progress, PostFails,
            RefreshAnswered, PollAgain, ListAnswered, Serve, Reaches, scanVars
<1>1. stage'[v] = stage[v]
  OBVIOUS
<1>2. waiting' = waiting \/ waiting' = waiting \cup {u}
  BY DEF Refresh, List
<1>3. answer'[v] = answer[v]
  BY DEF Refresh, List, Told
<1> QED BY <1>1, <1>2, <1>3 DEF ChainTold

(* A chain is told the truth about its own wait at each of its stages.     *)
LEMMA OwnChain ==
  ASSUME PageInv, NEW u \in Clicks, sendRefresh(u) \/ Progress(u) \/ PostFails(u)
  PROVE  ChainTold(u)'
<1> USE ClicksAssumption DEF PageInv, PageTypeOK, Reaches, scanVars
<1>1. CASE sendRefresh(u)
  BY <1>1 DEF sendRefresh, ChainTold
<1>2. CASE stage[u] = "refresh" /\ Serve(u)
  <2>1. stage'[u] = "refreshed" /\ Told(u, "SCANNING")
    BY <1>2 DEF Serve, Refresh
  <2>2. answer'[u].status = "SCANNING"
    <3>1. ScanTypeOK /\ u \in Users
      BY DEF ScanInv
    <3>2. answer'[u] = [status |-> "SCANNING", aps |-> ap_count']
      BY <2>1, <3>1, ToldAlone
    <3> QED BY <3>2
  <2> QED BY <2>1, <2>2 DEF ChainTold
<1>3. CASE stage[u] = "list" /\ Serve(u)
  <2>1. stage'[u] = "listed" /\ Told(u, ap_scan_status) /\ waiting' = waiting
    BY <1>3 DEF Serve, List
  <2>2. answer'[u].status = ap_scan_status
    <3>1. ScanTypeOK /\ u \in Users
      BY DEF ScanInv
    <3>2. answer'[u] = [status |-> ap_scan_status, aps |-> ap_count']
      BY <2>1, <3>1, ToldAlone
    <3> QED BY <3>2
  <2>3. ap_scan_status # "SCANNING" => u \notin waiting
    BY DEF ScanInv, StatusTells
  <2> QED BY <2>1, <2>2, <2>3 DEF ChainTold
<1>4. CASE RefreshAnswered(u)
  <2>1. stage'[u] = "timer"
    BY <1>4 DEF RefreshAnswered, ChainTold
  <2> QED BY <2>1 DEF ChainTold
<1>5. CASE PollAgain(u)
  BY <1>5 DEF PollAgain, ChainTold
<1>6. CASE ListAnswered(u)
  BY <1>6 DEF ListAnswered, ChainTold
<1>7. CASE PostFails(u)
  BY <1>7 DEF PostFails, ChainTold
<1> QED BY <1>1, <1>2, <1>3, <1>4, <1>5, <1>6, <1>7 DEF Progress, Serve

LEMMA PageTypeStep == PageInv /\ [PageNext]_pageVars => PageTypeOK'
<1> SUFFICES ASSUME PageTypeOK, [PageNext]_pageVars PROVE PageTypeOK'
  BY DEF PageInv
<1> USE DEF PageTypeOK
<1>1. CASE Device
  BY <1>1 DEF Device, page
<1>2. ASSUME NEW u \in Clicks, sendRefresh(u) \/ Progress(u) \/ PostFails(u)
      PROVE  PageTypeOK'
  BY <1>2 DEF sendRefresh, Progress, PostFails, Serve, RefreshAnswered, PollAgain, ListAnswered,
              Reaches, Stage, OnItsWay
<1>3. CASE sendSetup \/ SetupAnswered \/ CloseMessage \/ UNCHANGED pageVars
  BY <1>3 DEF sendSetup, SetupAnswered, CloseMessage, pageVars, page
<1> QED BY <1>1, <1>2, <1>3 DEF PageNext

LEMMA StepPageInv == PageInv /\ [PageNext]_pageVars => PageInv'
<1> SUFFICES ASSUME PageInv, [PageNext]_pageVars PROVE PageInv'
  OBVIOUS
<1>1. ScanInv' /\ PageTypeOK'
  BY PageStepsScan, StepScanInv, PageTypeStep DEF PageInv
<1>2. \A u \in Clicks : ChainTold(u)'
  <2>1. CASE Device
    BY <2>1, DeviceChains
  <2>2. ASSUME NEW u \in Clicks, sendRefresh(u) \/ Progress(u) \/ PostFails(u)
        PROVE  \A v \in Clicks : ChainTold(v)'
    BY <2>2, OtherChains, OwnChain
  <2>3. CASE sendSetup \/ SetupAnswered \/ CloseMessage \/ UNCHANGED pageVars
    <3>1. UNCHANGED <<stage, answer, waiting>>
      BY <2>3 DEF sendSetup, SetupAnswered, CloseMessage, pageVars, page, scanVars
    <3> QED BY <3>1 DEF PageInv, ChainTold
  <2> QED BY <2>1, <2>2, <2>3 DEF PageNext
<1> QED BY <1>1, <1>2 DEF PageInv

(* However many clicks overlap and whoever else asks, a chain that came to *)
(* its end was answered by a scan that ended after its click, and nobody   *)
(* is told of a finished scan that is older than what he asked for.        *)
THEOREM ListsAreFresh == PageSpec => []ListIsFresh
<1>1. PageInv => ListIsFresh
  BY DEF PageInv, ScanInv, ChainTold, ListIsFresh
<1> QED BY <1>1, InitPageInv, StepPageInv, PTL DEF PageSpec

-----------------------------------------------------------------------------
(* The settings in flash.  The invariant ties the header to the sectors: a *)
(* header of 1 means that A was saved whole and is not written again       *)
(* before the header falls to 0, and from then on B is not written again.  *)

\* What holds however often power was lost, while the flash works.
Sound ==
  /\ header \in {255, 1, 0}
  /\ flash \in [Sectors -> Content]
  /\ cfg \in Content /\ last \in Content /\ previous \in Content
  /\ step \in {"off", "idle", "erase", "write", "activate"}
  /\ saves \in 0..3
  /\ step \in {"erase", "write", "activate"} => cfg \in Settings
  /\ "flash" \notin faults =>
       /\ step = "activate" => flash[SaveLocation] = cfg
       /\ header = 1 => flash["A"] \in Settings
       /\ header = 0 => flash["B"] \in Settings
       /\ saves > 0 => header # 255

LEMMA InitSound == Init => Sound
BY DEF Init, Sound, Erased, SaveLocation, Sectors, Content

LEMMA StepSound == Sound /\ [Next]_vars => Sound'
<1> SUFFICES ASSUME Sound, [Next]_vars PROVE Sound'
  OBVIOUS
<1> USE DEF Sound, SaveLocation, Sectors, Content
<1>1. CASE config_load
  BY <1>1 DEF config_load, LoadLocation
<1>2. ASSUME NEW settings \in Settings, api_setup_request(settings) PROVE Sound'
  BY <1>2 DEF api_setup_request
<1>3. CASE api_setup_reject
  BY <1>3 DEF api_setup_reject, LoadLocation
<1>4. CASE EraseSector
  <2>1. /\ header' = header /\ saves' = saves /\ cfg' = cfg /\ last' = last
        /\ previous' = previous /\ faults' = faults
        /\ step = "erase" /\ step' = "write"
    BY <1>4 DEF EraseSector
  <2>2. flash' \in [Sectors -> Content] /\ flash' = [flash EXCEPT ![SaveLocation] = Blank]
    BY <1>4 DEF EraseSector
  <2>3. header = 1 => flash'["A"] = flash["A"]
    BY <2>2
  <2>4. header = 0 => flash'["B"] = flash["B"]
    BY <2>2
  <2> QED BY <2>1, <2>2, <2>3, <2>4
<1>5. CASE EraseFails
  BY <1>5 DEF EraseFails
<1>6. ASSUME NEW ok \in BOOLEAN, WriteSector(ok) PROVE Sound'
  BY <1>6 DEF WriteSector
<1>7. ASSUME NEW ok \in BOOLEAN, WriteHeader(ok) PROVE Sound'
  BY <1>7 DEF WriteHeader, Program, Flipped
<1>8. CASE PowerLoss
  <2>1. CASE step = "activate"
    <3>1. header' \in {header, Program(header, Flipped)} /\ flash' = flash
      BY <1>8, <2>1 DEF PowerLoss
    <3>2. /\ step' = "off" /\ saves' = saves /\ faults' = faults \cup {"power"}
          /\ cfg' = Blank /\ last' = last /\ previous' = previous
      BY <1>8, <2>1 DEF PowerLoss
    <3> QED BY <2>1, <3>1, <3>2 DEF Program, Flipped
  <2>2. CASE step # "activate"
    <3>1. /\ header' = header /\ saves' = saves /\ step' = "off"
          /\ cfg' = Blank /\ last' = last /\ previous' = previous
      BY <1>8, <2>2 DEF PowerLoss
    <3>2. flash' = flash \/ flash' = [flash EXCEPT ![SaveLocation] = Torn]
      BY <1>8, <2>2 DEF PowerLoss
    <3>3. "flash" \in faults' <=> "flash" \in faults
      BY <1>8 DEF PowerLoss
    <3> QED BY <3>1, <3>2, <3>3
  <2> QED BY <2>1, <2>2
<1>9. CASE TakeSettings
  BY <1>9 DEF TakeSettings
<1>10. CASE UNCHANGED vars
  BY <1>10 DEF vars
<1> QED BY <1>1, <1>2, <1>3, <1>4, <1>5, <1>6, <1>7, <1>8, <1>9, <1>10
        DEF Next, config_save

LEMMA SoundAlways == Spec => []Sound
BY InitSound, StepSound, PTL DEF Spec

\* However often power is lost in a save, once one has come to its end some
\* sector holds settings that were saved whole, unless the flash fails.
THEOREM SettingsSurvive == Spec => []SomethingSurvives
<1>1. Sound => SomethingSurvives
  BY DEF Sound, SomethingSurvives, Sectors
<1> QED BY SoundAlways, <1>1, PTL

-----------------------------------------------------------------------------
(* While nothing fails at all, the header tells how many saves there were. *)

InStep ==
  faults = {} =>
    /\ saves = 0 <=> header = 255
    /\ saves = 1 <=> header = 1
    /\ saves >= 2 <=> header = 0
    /\ saves = 0 => last = Blank
    /\ saves \in {0, 1} => previous = Blank
    /\ saves = 0 => flash["B"] = Blank
    /\ saves = 1 => flash["A"] = last
    /\ saves = 2 => flash["B"] = last
    /\ step \in {"off", "idle"} => /\ saves = 0 => flash["A"] = Blank
                                   /\ saves = 1 => flash["B"] = Blank
                                   /\ saves = 2 => flash["A"] = previous
                                   /\ saves = 3 => flash["A"] = last

LEMMA InitInStep == Init => InStep
BY DEF Init, InStep, Erased, Sectors

LEMMA StepInStep == Sound /\ InStep /\ [Next]_vars => InStep'
<1> SUFFICES ASSUME Sound, InStep, [Next]_vars PROVE InStep'
  OBVIOUS
<1> USE DEF Sound, InStep, SaveLocation, Sectors
<1>1. CASE config_load
  BY <1>1 DEF config_load
<1>2. ASSUME NEW settings \in Settings, api_setup_request(settings) PROVE InStep'
  BY <1>2 DEF api_setup_request
<1>3. CASE api_setup_reject
  BY <1>3 DEF api_setup_reject
<1>4. CASE EraseSector
  BY <1>4 DEF EraseSector
<1>5. CASE EraseFails
  BY <1>5 DEF EraseFails
<1>6. ASSUME NEW ok \in BOOLEAN, WriteSector(ok) PROVE InStep'
  BY <1>6 DEF WriteSector
<1>7. ASSUME NEW ok \in BOOLEAN, WriteHeader(ok) PROVE InStep'
  BY <1>7 DEF WriteHeader, Program, Flipped
<1>8. CASE PowerLoss
  BY <1>8 DEF PowerLoss, Program, Flipped
<1>9. CASE TakeSettings
  BY <1>9 DEF TakeSettings
<1>10. CASE UNCHANGED vars
  BY <1>10 DEF vars
<1> QED BY <1>1, <1>2, <1>3, <1>4, <1>5, <1>6, <1>7, <1>8, <1>9, <1>10
        DEF Next, config_save

\* While nothing fails a boot finds the settings saved last or the ones
\* before; from the third save on, the last.
THEOREM LoadNeverLagsMore == Spec => []LoadLags
<1>1. Sound /\ InStep => LoadLags
  BY DEF Sound, InStep, LoadLags, LoadLocation
<1> QED BY InitInStep, StepInStep, SoundAlways, <1>1, PTL DEF Spec
=============================================================================
