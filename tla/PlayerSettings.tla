---------------------------- MODULE PlayerSettings ----------------------------
(***************************************************************************)
(* The two handlers through which the client keeps its settings here:      *)
(* SavePlayerDataProcessor and GetPlayerDataProcessor (whose string        *)
(* GetLoginDataProcessor sends too).                                       *)
(***************************************************************************)
EXTENDS SettingsString

CONSTANTS
  Player,
  Config,    \* settings: sequences of fields
  Default    \* those of the resource file

VARIABLES
  settings,  \* of the data column
  handed     \* the string last handed to a player, since his settings were saved

vars == <<settings, handed>>

NotAsked == <<>>

Init ==
  /\ settings = [p \in Player |-> Default]
  /\ handed = [p \in Player |-> NotAsked]

\* When nothing can be read the handler throws, and saves nothing.
SavePlayerData(p, sent) ==
  \E config \in Config :
    /\ ReadPayload(Body(sent)) = Text(config) \o <<"}">>
    /\ settings' = [settings EXCEPT ![p] = config]
    /\ handed' = [handed EXCEPT ![p] = NotAsked]

GetPlayerData(p) ==
  /\ handed' = [handed EXCEPT ![p] = WrittenString(Text(settings[p]))]
  /\ UNCHANGED settings

Next ==
  \E p \in Player : GetPlayerData(p) \/ \E sent \in Config : SavePlayerData(p, sent)

Spec == Init /\ [][Next]_vars

\* A player is handed a string that reads as the settings he has saved, as the comment over the
\* loop has it ("quote it the way the game expects").
HandedIsStored ==
  \A p \in Player : handed[p] # NotAsked => handed[p] = AsString(Text(settings[p]))
=============================================================================
