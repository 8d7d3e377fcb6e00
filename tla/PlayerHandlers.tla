---------------------------- MODULE PlayerHandlers ----------------------------
(***************************************************************************)
(* The websocket handlers that change a player's columns.  A handler's     *)
(* first action is its read and its changes, its second the save and the   *)
(* answer (Answer).  Packets/Implementation: SetPlayerPresenceHandler,     *)
(* GetFriendsListAndRegisterOnlineHandler, UpdatePresenceForPlayerHandler, *)
(* SaveWeaponLoadoutProcessor, SaveOutfitLoadoutProcessor,                 *)
(* UpdateItemsV0Processor, UpdateItemV4Processor, SavePlayerDataProcessor. *)
(***************************************************************************)
EXTENDS PlayerDatabase

CONSTANTS
  Conn, Owner,     \* the connections and the player of each
  LoadoutId,       \* up to case, which the handlers ignore
  Loadout,         \* what a loadout holds besides its owner
  Nobody,          \* the playerIds of the default columns
  Context, Config, Rest, Endorsement, Discriminator,
  Item,            \* the instanced items of every inventory
  Unknown,         \* stands for the ids no item of the player has
  MaxRequests      \* bound: how many requests each connection makes

PlayerIds == Player \union {Nobody}

VARIABLES
  requests,  \* how many requests a connection has made
  shown,     \* history: the versions and presences in the notifications of a player
  viewed     \* history: the items a player was told, with success, are marked as viewed

handlerVars == <<requests, shown, viewed>>

Presences == {"Online", "Offline"}
Presence == [basicPresence : Presences, presenceContext : Context, version : Nat]
InstancedItem == [viewed : BOOLEAN, activeEndorsement : Endorsement]

IsLoadouts(v) ==
  \A i \in DOMAIN v : i \in LoadoutId /\ v[i] \in [playerId : PlayerIds, loadout : Loadout]

IsInventory(v) ==
  /\ DOMAIN v = Item \union {"version"}
  /\ v["version"] \in Nat
  /\ \A i \in Item : v[i] \in InstancedItem

IsColumn(f, v) ==
  \/ f = "presence" /\ v \in Presence
  \/ f \in {"weapons", "outfits"} /\ IsLoadouts(v)
  \/ f = "inventory" /\ IsInventory(v)
  \/ f = "data" /\ v \in [playerId : PlayerIds, matchmakingPlayerId : PlayerIds,
                          data : Config, rest : Rest]
  \/ f = "profile" /\ v \in [playerId : PlayerIds, discriminator : Discriminator]

\* The resource files are parsed as the columns' messages.
ASSUME PlayerHandlersAssumption ==
  /\ DOMAIN Default = Field
  /\ \A f \in Field : IsColumn(f, Default[f])
  /\ "version" \notin Item
  /\ \A c \in Conn : MaxRequests[c] \in Nat

HandlersInit ==
  /\ requests = [c \in Conn |-> 0]
  /\ shown = [p \in Player |-> {}]
  /\ viewed = [p \in Player |-> {}]

Request(c) ==
  /\ requests[c] < MaxRequests[c]
  /\ requests' = [requests EXCEPT ![c] = @ + 1]

\* A request that changes the column f of its player.
Change(c, f, change) ==
  /\ Request(c)
  /\ Edit(c, Owner[c], f, change)
  /\ UNCHANGED <<shown, viewed>>

\* mutants: the version is not raised, or lowered
SameVersion(version) == version
PreviousVersion(version) == version - 1
NextVersion(version) == version + 1

SetPresence(c, basic) ==
  Change(c, "presence",
    [basicPresence |-> basic,
     version |-> NextVersion(GetField(Owner[c], "presence").version)])

\* The handler for the friends list, which nothing writes, registers its player online.
RegisterOnline(c) == SetPresence(c, "Online")

UpdatePresence(c, context) == Change(c, "presence", [presenceContext |-> context])

OwnLoadout(p, loadout, sent) == [playerId |-> p, loadout |-> loadout]

\* A loadout the player does not have is added.
SaveLoadout(c, f, id, loadout, sent) ==
  Change(c, f, [i \in {id} |-> OwnLoadout(Owner[c], loadout, sent)])

SaveWeaponLoadout(c, id, loadout, sent) == SaveLoadout(c, "weapons", id, loadout, sent)
SaveOutfitLoadout(c, id, loadout, sent) == SaveLoadout(c, "outfits", id, loadout, sent)

\* Ids that no item has are skipped; the version rises in any case.
UpdateItemsV0(c, ids, flag) ==
  LET inventory == GetField(Owner[c], "inventory")
      found == ids \intersect Item
  IN  Change(c, "inventory",
        [u \in found \union {"version"} |->
           IF u = "version" THEN NextVersion(inventory["version"])
           ELSE [inventory[u] EXCEPT !.viewed = flag]])

Viewed(p, i) == viewed' = [viewed EXCEPT ![p] = @ \union {i}]

\* A request names no instanced item or one; one that names no endorsement is here one that
\* names the present one.
UpdateItemV4(c, ids, flag, endorsement) ==
  LET inventory == GetField(Owner[c], "inventory")
  IN  Change(c, "inventory",
        [u \in ids |-> [viewed |-> inventory[u].viewed \/ flag,
                        activeEndorsement |-> endorsement]])

\* The request's item is not found, or is found and its stackable is not (the inventory the
\* resources give has no stackables, and nothing adds one): success, and nothing is saved.
UpdateItemV4Skips(c, i, flag) ==
  /\ Request(c)
  /\ edit[c] = NoEdit
  /\ IF flag /\ i \in Item THEN Viewed(Owner[c], i) ELSE UNCHANGED viewed
  /\ UNCHANGED <<dbVars, shown>>

\* A request without an outfit's id replaces the settings, any other the whole column.
SavePlayerData(c, config) == Change(c, "data", [data |-> config])

SaveWholePlayerData(c, config, rest, sent) ==
  Change(c, "data",
    [playerId |-> Owner[c], matchmakingPlayerId |-> sent, data |-> config, rest |-> rest])

\* Presences shown are told from those that a stale save took back.
Show(c) ==
  LET e == edit[c]
      now == [version |-> e.column.version, basicPresence |-> e.column.basicPresence]
  IN  IF e.field = "presence"
      THEN shown' = [shown EXCEPT ![e.player] = {now} \union IF e.stale THEN {} ELSE @]
      ELSE UNCHANGED shown

\* What the player was told is viewed, by an answer to an update of his items.
Tell(c) ==
  LET e == edit[c]
      told == {u \in DOMAIN e.change \intersect Item : e.change[u].viewed}
  IN  IF e.field = "inventory"
      THEN viewed' = [viewed EXCEPT ![e.player] =
             IF e.stale THEN {} ELSE (@ \ DOMAIN e.change) \union told]
      ELSE UNCHANGED viewed

Answer(c) ==
  /\ SetField(c)
  /\ Show(c)
  /\ Tell(c)
  /\ UNCHANGED requests

\* The statement that saves throws; the connection stays open, the client is told.
SaveFails(c) == Discard(c) /\ UNCHANGED handlerVars

-----------------------------------------------------------------------------
\* A version of a player's presence, in the notifications he was sent, names one presence;
\* only a stale save begins the versions anew.
VersionNamesPresence ==
  \A p \in Player : \A a, b \in shown[p] : a.version = b.version => a = b

\* UpdateItemV4Processor.cpp:54 logs that an item it cannot find is skipped: what the answer
\* calls a success is then done for the item that was found.
OnlyMissingItemsAreSkipped ==
  \A p \in Player : \A i \in viewed[p] : GetField(p, "inventory")[i].viewed
=============================================================================
