------------------------------ MODULE Accounts ------------------------------
(***************************************************************************)
(* Logins, and the players they create, with the websocket handlers of the *)
(* players who have a token: Packets/Implementation/AuthenticateHandler,   *)
(* Persistence/Implementation/ProviderLinkDatabase and BanDatabase.        *)
(*                                                                         *)
(* The id of a player is a name-based UUID of his Steam id, so the two are *)
(* one here.  A login creates the player column by column, links him, and  *)
(* answers with a token; any statement may fail, and the process may end   *)
(* between any two.                                                        *)
(***************************************************************************)
EXTENDS PlayerHandlers, Sequences

CONSTANTS
  Login,          \* the threads that run logins
  NoPlayer,
  MaxLogins,      \* bound: logins of a thread
  MaxRestarts,    \* bound: restarts
  MaxBans         \* bound: changes to the table of bans

ASSUME AccountsAssumption ==
  /\ Actor = Conn \union Login
  /\ Conn \intersect Login = {}
  /\ Owner \in [Conn -> Player]
  /\ NoPlayer \notin Player
  /\ {MaxLogins, MaxRestarts, MaxBans} \subseteq Nat

VARIABLES
  providers,  \* the player each Steam id is linked to
  bans,       \* banned_until: "none" for no row, "forever" for 0, in the future, in the past
  login,      \* where each login thread is, and for whom
  logins,     \* how many logins it has begun
  tokens,     \* the players who were given a token
  restarts,   \* how often the process ended
  banned      \* how often bans changed

accountVars == <<providers, bans, login, logins, tokens, restarts, banned>>
vars == <<dbVars, handlerVars, accountVars>>

Ban == {"none", "forever", "future", "past"}
Created == <<"profile", "data", "outfits", "weapons">>
NoLogin == [pc |-> "idle", player |-> NoPlayer, step |-> 0]

Init ==
  /\ DbInit
  /\ HandlersInit
  /\ providers = [p \in Player |-> NoPlayer]
  /\ bans = [p \in Player |-> "none"]
  /\ login = [l \in Login |-> NoLogin]
  /\ logins = [l \in Login |-> 0]
  /\ tokens = {}
  /\ restarts = 0
  /\ banned = 0

GoesOn(l, pc, step) == login' = [login EXCEPT ![l].pc = pc, ![l].step = step]

\* mutant: the provider's link is not looked up
NotLinked(p) == TRUE
NoLink(p) == providers[p] = NoPlayer

LookupPlayerByProvider(l, p) ==
  /\ login[l] = NoLogin
  /\ logins[l] < MaxLogins
  /\ logins' = [logins EXCEPT ![l] = @ + 1]
  /\ login' = [login EXCEPT ![l] =
       [pc |-> IF NoLink(p) THEN "create" ELSE "ban", player |-> p, step |-> 1]]
  /\ UNCHANGED <<dbVars, handlerVars, providers, bans, tokens, restarts, banned>>

\* What CreatePlayerFromSteam changes in a column: all the ids of players in it.
NewProfile(p, d) == [playerId |-> p, discriminator |-> d]
NewData(p) == [playerId |-> p, matchmakingPlayerId |-> p]
NewLoadouts(p, f) ==
  [i \in DOMAIN GetField(p, f) |-> Merge([playerId |-> p], GetField(p, f)[i])]

ReadToCreate(l) ==
  /\ login[l].pc = "create"
  /\ LET p == login[l].player
         f == Created[login[l].step]
     IN  \/ f = "profile" /\ \E d \in Discriminator : Edit(l, p, f, NewProfile(p, d))
         \/ f = "data" /\ Edit(l, p, f, NewData(p))
         \/ f \in {"outfits", "weapons"} /\ Edit(l, p, f, NewLoadouts(p, f))
  /\ GoesOn(l, "save", login[l].step)
  /\ UNCHANGED <<handlerVars, providers, bans, logins, tokens, restarts, banned>>

\* mutant: the last column is forgotten
LinksEarly(step) == step >= Len(Created) - 1
IsLast(step) == step = Len(Created)

SaveCreated(l) ==
  /\ login[l].pc = "save"
  /\ SetField(l)
  /\ IF IsLast(login[l].step) THEN GoesOn(l, "link", 0)
     ELSE GoesOn(l, "create", login[l].step + 1)
  /\ UNCHANGED <<handlerVars, providers, bans, logins, tokens, restarts, banned>>

UpsertProviderMap(p) == providers' = [providers EXCEPT ![p] = p]

Link(l) ==
  /\ login[l].pc = "link"
  /\ UpsertProviderMap(login[l].player)
  /\ GoesOn(l, "ban", 0)
  /\ UNCHANGED <<dbVars, handlerVars, bans, logins, tokens, restarts, banned>>

IsBanned(p) == bans[p] \in {"forever", "future"}

Ends(l) == login' = [login EXCEPT ![l] = NoLogin]

Refuse(l) ==
  /\ login[l].pc = "ban"
  /\ IsBanned(login[l].player)
  /\ Ends(l)
  /\ UNCHANGED <<dbVars, handlerVars, providers, bans, logins, tokens, restarts, banned>>

Authenticate(l) ==
  /\ login[l].pc = "ban"
  /\ ~IsBanned(login[l].player)
  /\ tokens' = tokens \union {login[l].player}
  /\ Ends(l)
  /\ UNCHANGED <<dbVars, handlerVars, providers, bans, logins, restarts, banned>>

\* Any statement of a login may throw: it is answered with an error.
LoginFails(l) ==
  /\ login[l] # NoLogin
  /\ Ends(l)
  /\ IF edit[l] = NoEdit THEN UNCHANGED dbVars ELSE Discard(l)
  /\ UNCHANGED <<handlerVars, providers, bans, logins, tokens, restarts, banned>>

\* Bans are rows that somebody else writes, and that time ends.
ChangeBan ==
  /\ banned < MaxBans
  /\ banned' = banned + 1
  /\ \E p \in Player, b \in Ban : bans' = [bans EXCEPT ![p] = b]
  /\ UNCHANGED <<dbVars, handlerVars, providers, login, logins, tokens, restarts>>

\* The process is killed, or throws where nothing catches (a request of SavePlayerData that
\* cannot be parsed), and is started again.
Restart ==
  /\ restarts < MaxRestarts
  /\ restarts' = restarts + 1
  /\ LoseCopies
  /\ login' = [l \in Login |-> NoLogin]
  /\ UNCHANGED <<handlerVars, providers, bans, logins, tokens, banned>>

LoginStep(l) ==
  \/ \E p \in Player : LookupPlayerByProvider(l, p)
  \/ ReadToCreate(l)
  \/ SaveCreated(l)
  \/ Link(l)
  \/ Refuse(l)
  \/ Authenticate(l)
  \/ LoginFails(l)

HandlerStep(c) ==
  \/ \E basic \in Presences : SetPresence(c, basic)
  \/ RegisterOnline(c)
  \/ \E context \in Context : UpdatePresence(c, context)
  \/ \E id \in LoadoutId, loadout \in Loadout, sent \in PlayerIds :
        SaveWeaponLoadout(c, id, loadout, sent) \/ SaveOutfitLoadout(c, id, loadout, sent)
  \/ \E ids \in SUBSET (Item \union {Unknown}), flag \in BOOLEAN : UpdateItemsV0(c, ids, flag)
  \/ \E ids \in {{}} \union {{i} : i \in Item}, flag \in BOOLEAN, e \in Endorsement :
        UpdateItemV4(c, ids, flag, e)
  \/ \E i \in Item \union {Unknown}, flag \in BOOLEAN : UpdateItemV4Skips(c, i, flag)
  \/ \E config \in Config : SavePlayerData(c, config)
  \/ \E config \in Config, rest \in Rest, sent \in PlayerIds :
        SaveWholePlayerData(c, config, rest, sent)
  \/ Answer(c)
  \/ SaveFails(c)

Next ==
  \/ \E l \in Login : LoginStep(l)
  \/ \E c \in Conn : Owner[c] \in tokens /\ HandlerStep(c) /\ UNCHANGED accountVars
  \/ ChangeBan
  \/ Restart

Spec == Init /\ [][Next]_vars

-----------------------------------------------------------------------------
(* Properties *)

TypeOK ==
  /\ \A p \in Player, f \in Field :
       /\ IsColumn(f, GetField(p, f))
       /\ IsColumn(f, kept[p][f])
  /\ \A a \in Actor : edit[a] = NoEdit \/
       /\ edit[a].player \in Player
       /\ edit[a].field \in Field
       /\ IsColumn(edit[a].field, edit[a].column)
       /\ edit[a].stale \in BOOLEAN
  /\ \A c \in Conn : requests[c] \in 0..MaxRequests[c]
  /\ shown \in [Player -> SUBSET [version : Nat, basicPresence : Presences]]
  /\ viewed \in [Player -> SUBSET Item]
  /\ providers \in [Player -> Player \union {NoPlayer}]
  /\ bans \in [Player -> Ban]
  /\ login \in [Login -> [pc : {"idle", "create", "save", "link", "ban"},
                          player : Player \union {NoPlayer}, step : 0..Len(Created)]]
  /\ logins \in [Login -> 0..MaxLogins]
  /\ tokens \subseteq Player
  /\ restarts \in 0..MaxRestarts
  /\ banned \in 0..MaxBans

Belongs(p, f, column) ==
  IF f \in {"outfits", "weapons"} THEN \A i \in DOMAIN column : column[i].playerId = p
  ELSE column.playerId = p

\* A player who is linked, and so one who has a token, was created to the end: no failure,
\* restart, racing login or request leaves him with a default column, which says that it
\* belongs to somebody else.
LinkedIsComplete ==
  /\ \A p \in tokens : providers[p] = p
  /\ \A p \in Player : providers[p] # NoPlayer =>
       \A n \in 1..Len(Created) :
         /\ Created[n] \in DOMAIN players[p]
         /\ Belongs(p, Created[n], players[p][Created[n]])

\* A player who was given a token is not created anew by later logins: he keeps his
\* discriminator, which his tokens name. (Two first logins that race may both create him.)
NameIsKept ==
  [][\A p \in tokens :
       GetField(p, "profile")'.discriminator = GetField(p, "profile").discriminator]_vars
=============================================================================
