--------------------------- MODULE AccountsProofs ---------------------------
(***************************************************************************)
(* The accounts and the columns of players, for any players, connections,  *)
(* logins, columns and bounds: a linked player was created to the end; the *)
(* saves keep the columns' types and lose nothing; the versions shown of a *)
(* presence name one presence each; a player with a token keeps his name.  *)
(***************************************************************************)
EXTENDS Accounts, TLAPS

CreatedField == {"profile", "data", "outfits", "weapons"}

LEMMA CreatedFacts ==
  /\ Len(Created) = 4
  /\ Created[1] = "profile" /\ Created[2] = "data"
  /\ Created[3] = "outfits" /\ Created[4] = "weapons"
  /\ \A n \in 1..4 : Created[n] \in CreatedField
  BY DEF Created, CreatedField

\* A column belongs to its player, and says so.
Own(p, f, column) ==
  /\ Belongs(p, f, column)
  /\ f \in {"profile", "data"} => "playerId" \in DOMAIN column

EditDomain == {"player", "field", "change", "column", "stale"}

Shape ==
  /\ DOMAIN players = Player
  /\ DOMAIN edit = Actor
  /\ login \in [Login -> [pc : {"idle", "create", "save", "link", "ban"},
                          player : Player \union {NoPlayer}, step : 0..4]]
  /\ providers \in [Player -> Player \union {NoPlayer}]

\* Who has a copy of a created column has one that belongs to its player.
EditsOwn ==
  \A a \in Actor : edit[a] # NoEdit =>
    /\ DOMAIN edit[a] = EditDomain
    /\ edit[a].player \in Player
    /\ edit[a].field \in CreatedField => Own(edit[a].player, edit[a].field, edit[a].column)

TableOwns ==
  \A p \in Player : \A f \in CreatedField \intersect DOMAIN players[p] : Own(p, f, players[p][f])

\* The columns a login has saved are there.
SavedUpTo(p, step) == \A n \in 1..4 : n < step => Created[n] \in DOMAIN players[p]

LoginSaves(l) ==
  /\ login[l].pc # "idle" => login[l].player \in Player
  /\ login[l].pc \in {"create", "save"} =>
       login[l].step \in 1..4 /\ SavedUpTo(login[l].player, login[l].step)
  /\ login[l].pc = "save" /\ edit[l] # NoEdit =>
       edit[l].player = login[l].player /\ edit[l].field = Created[login[l].step]
  /\ login[l].pc = "link" => SavedUpTo(login[l].player, 5)
  /\ login[l].pc = "ban" => providers[login[l].player] = login[l].player

LoginsSave == \A l \in Login : LoginSaves(l)

LinksHold ==
  /\ \A p \in Player : providers[p] # NoPlayer => providers[p] = p /\ SavedUpTo(p, 5)
  /\ tokens \subseteq {p \in Player : providers[p] = p}

IInv == Shape /\ EditsOwn /\ TableOwns /\ LoginsSave /\ LinksHold

-----------------------------------------------------------------------------
\* A read with changes that make the copy the player's keeps the copies right.
LEMMA EditKeeps ==
  ASSUME IInv, NEW a \in Actor, NEW p \in Player, NEW f, NEW change, Edit(a, p, f, change),
         f \in CreatedField => Own(p, f, Merge(change, GetField(p, f)))
  PROVE  /\ EditsOwn'
         /\ DOMAIN edit' = Actor
         /\ edit'[a].player = p /\ edit'[a].field = f
         /\ \A b \in Actor : b # a => edit'[b] = edit[b]
  BY DEF Edit, IInv, Shape, EditsOwn, EditDomain, Own, Belongs

\* A save adds a column that is its player's and takes none away.
LEMMA SaveKeeps ==
  ASSUME IInv, NEW a \in Actor, SetField(a)
  PROVE  /\ EditsOwn' /\ TableOwns'
         /\ DOMAIN edit' = Actor /\ DOMAIN players' = Player
         /\ \A p \in Player : DOMAIN players[p] \subseteq DOMAIN players'[p]
         /\ edit[a].field \in DOMAIN players'[edit[a].player]
         /\ edit'[a] = NoEdit
         /\ \A b \in Actor : edit'[b] # NoEdit =>
              /\ edit[b] # NoEdit
              /\ edit'[b].player = edit[b].player /\ edit'[b].field = edit[b].field
<1> DEFINE e == edit[a]
           new == Merge([g \in {e.field} |-> e.column], players[e.player])
<1>1. /\ edit[a] # NoEdit /\ e.player \in Player
      /\ DOMAIN players = Player /\ DOMAIN edit = Actor
  BY DEF SetField, IInv, EditsOwn, Shape
<1>2. /\ players' = [players EXCEPT ![e.player] = new]
      /\ edit' = [b \in Actor |->
              IF b = a THEN NoEdit
              ELSE IF SameColumn(b, e) THEN [edit[b] EXCEPT !.stale = TRUE]
              ELSE edit[b]]
  BY DEF SetField, Upsert
<1>3. /\ DOMAIN new = {e.field} \union DOMAIN players[e.player]
      /\ new[e.field] = e.column
      /\ \A f \in DOMAIN players[e.player] : f # e.field => new[f] = players[e.player][f]
  BY DEF Merge
<1>4. /\ DOMAIN players' = Player /\ players'[e.player] = new
      /\ \A p \in Player : p # e.player => players'[p] = players[p]
  BY <1>1, <1>2
<1>5. TableOwns'
  <2> SUFFICES ASSUME NEW p \in Player, NEW f \in CreatedField, f \in DOMAIN players'[p]
               PROVE  Own(p, f, players'[p][f])
    BY DEF TableOwns, Own, Belongs
  <2>1. CASE p = e.player /\ f = e.field
    BY <1>1, <1>3, <1>4, <2>1 DEF IInv, EditsOwn
  <2>2. CASE p = e.player /\ f # e.field
    BY <1>3, <1>4, <2>2 DEF IInv, TableOwns
  <2>3. CASE p # e.player
    BY <1>4, <2>3 DEF IInv, TableOwns
  <2> QED BY <2>1, <2>2, <2>3
<1>6. ASSUME NEW b \in Actor, edit'[b] # NoEdit
      PROVE  /\ edit[b] # NoEdit
             /\ DOMAIN edit'[b] = EditDomain
             /\ edit'[b].player = edit[b].player /\ edit'[b].field = edit[b].field
             /\ edit'[b].column = edit[b].column
  <2>1. edit[b] # NoEdit
    BY <1>2, <1>6 DEF SameColumn
  <2>2. DOMAIN edit[b] = EditDomain
    BY <2>1 DEF IInv, EditsOwn
  <2>3. CASE SameColumn(b, e)
    BY <1>2, <1>6, <2>1, <2>2, <2>3 DEF EditDomain
  <2>4. CASE ~SameColumn(b, e)
    BY <1>2, <1>6, <2>1, <2>2, <2>4
  <2> QED BY <2>1, <2>3, <2>4
<1>7. EditsOwn'
  <2> SUFFICES ASSUME NEW b \in Actor, edit'[b] # NoEdit
               PROVE  /\ DOMAIN edit'[b] = EditDomain
                      /\ edit'[b].player \in Player
                      /\ edit'[b].field \in CreatedField =>
                           Own(edit'[b].player, edit'[b].field, edit'[b].column)
    BY DEF EditsOwn, Own, Belongs
  <2> QED BY <1>6 DEF IInv, EditsOwn
<1> QED
  BY <1>1, <1>2, <1>3, <1>4, <1>5, <1>6, <1>7

\* What is true of the created columns stays so while columns are only added.
LEMMA SavedStays ==
  ASSUME NEW p \in Player, NEW n \in Nat, SavedUpTo(p, n),
         DOMAIN players[p] \subseteq DOMAIN players'[p]
  PROVE  SavedUpTo(p, n)'
  BY DEF SavedUpTo

\* A login that stays where it is keeps its part of the invariant.
LEMMA StaysSaved ==
  ASSUME NEW m \in Login, LoginSaves(m), login'[m] = login[m],
         \A q \in Player : DOMAIN players[q] \subseteq DOMAIN players'[q],
         \A q \in Player : providers[q] = q => providers'[q] = q,
         edit'[m] # NoEdit =>
           /\ edit[m] # NoEdit
           /\ edit'[m].player = edit[m].player /\ edit'[m].field = edit[m].field
  PROVE  LoginSaves(m)'
  BY DEF LoginSaves, SavedUpTo

\* The created columns of a player with a token are there, and his.
LEMMA TokenOwns ==
  ASSUME IInv, NEW p \in tokens, NEW f \in CreatedField
  PROVE  GetField(p, f) = players[p][f] /\ Own(p, f, GetField(p, f))
<1>1. p \in Player /\ SavedUpTo(p, 5)
  BY AccountsAssumption DEF IInv, LinksHold
<1>2. f \in DOMAIN players[p]
  <2>1. \A n \in 1..4 : Created[n] \in DOMAIN players[p]
    BY <1>1 DEF SavedUpTo
  <2> QED BY <2>1, CreatedFacts DEF CreatedField
<1> QED BY <1>1, <1>2 DEF GetField, IInv, TableOwns

\* A request whose changes leave a column its player's keeps the invariant.
LEMMA ChangeKeeps ==
  ASSUME IInv, NEW c \in Conn, Owner[c] \in tokens, UNCHANGED accountVars,
         NEW f, NEW change, Change(c, f, change),
         f \in CreatedField /\ Own(Owner[c], f, GetField(Owner[c], f)) =>
           Own(Owner[c], f, Merge(change, GetField(Owner[c], f)))
  PROVE  IInv'
<1>1. c \in Actor /\ Owner[c] \in Player /\ \A l \in Login : l \in Actor /\ l # c
  BY AccountsAssumption
<1>2. Edit(c, Owner[c], f, change) /\ UNCHANGED players
  BY DEF Change, Edit
<1>3. f \in CreatedField => Own(Owner[c], f, Merge(change, GetField(Owner[c], f)))
  BY TokenOwns
<1>4. /\ EditsOwn' /\ DOMAIN edit' = Actor
      /\ \A l \in Login : edit'[l] = edit[l]
  BY <1>1, <1>2, <1>3, EditKeeps
<1>5. TableOwns'
  BY <1>2 DEF IInv, TableOwns, Own, Belongs
<1>6. Shape' /\ LinksHold'
  BY <1>2, <1>4 DEF IInv, Shape, LinksHold, SavedUpTo, accountVars
<1>7. LoginsSave'
  BY <1>2, <1>4 DEF IInv, LoginsSave, LoginSaves, SavedUpTo, accountVars
<1> QED BY <1>4, <1>5, <1>6, <1>7 DEF IInv

LEMMA HandlerKeeps ==
  ASSUME IInv, NEW c \in Conn, Owner[c] \in tokens, HandlerStep(c), UNCHANGED accountVars
  PROVE  IInv'
<1> DEFINE p == Owner[c]
<1>1. ASSUME NEW basic, SetPresence(c, basic)
      PROVE  IInv'
  BY <1>1, ChangeKeeps DEF SetPresence, CreatedField
<1>2. CASE RegisterOnline(c)
  BY <1>1, <1>2 DEF RegisterOnline
<1>3. ASSUME NEW context, UpdatePresence(c, context)
      PROVE  IInv'
  BY <1>3, ChangeKeeps DEF UpdatePresence, CreatedField
<1>4. ASSUME NEW f \in {"weapons", "outfits"}, NEW id, NEW loadout, NEW sent,
             SaveLoadout(c, f, id, loadout, sent)
      PROVE  IInv'
  <2> DEFINE change == [i \in {id} |-> OwnLoadout(p, loadout, sent)]
  <2>1. Own(p, f, GetField(p, f)) => Own(p, f, Merge(change, GetField(p, f)))
    BY DEF Own, Belongs, Merge, OwnLoadout
  <2>2. Change(c, f, change)
    BY <1>4 DEF SaveLoadout
  <2> HIDE DEF change
  <2> QED BY <2>1, <2>2, ChangeKeeps
<1>5. ASSUME NEW ids, NEW flag, UpdateItemsV0(c, ids, flag)
      PROVE  IInv'
  BY <1>5, ChangeKeeps DEF UpdateItemsV0, CreatedField
<1>6. ASSUME NEW ids, NEW flag, NEW en, UpdateItemV4(c, ids, flag, en)
      PROVE  IInv'
  BY <1>6, ChangeKeeps DEF UpdateItemV4, CreatedField
<1>7. ASSUME NEW i, NEW flag, UpdateItemV4Skips(c, i, flag)
      PROVE  IInv'
  BY <1>7 DEF UpdateItemV4Skips, dbVars, accountVars, IInv, Shape, EditsOwn, TableOwns,
     LoginsSave, LoginSaves, LinksHold, SavedUpTo, Own, Belongs
<1>8. ASSUME NEW config, SavePlayerData(c, config)
      PROVE  IInv'
  <2> DEFINE change == [data |-> config]
  <2>1. Own(p, "data", GetField(p, "data")) => Own(p, "data", Merge(change, GetField(p, "data")))
    BY DEF Own, Belongs, Merge
  <2>2. Change(c, "data", change)
    BY <1>8 DEF SavePlayerData
  <2> HIDE DEF change
  <2> QED BY <2>1, <2>2, ChangeKeeps
<1>9. ASSUME NEW config, NEW rest, NEW sent, SaveWholePlayerData(c, config, rest, sent)
      PROVE  IInv'
  <2> DEFINE change == [playerId |-> p, matchmakingPlayerId |-> sent, data |-> config,
                        rest |-> rest]
  <2>1. Own(p, "data", Merge(change, GetField(p, "data")))
    BY DEF Own, Belongs, Merge
  <2>2. Change(c, "data", change)
    BY <1>9 DEF SaveWholePlayerData
  <2> HIDE DEF change
  <2> QED BY <2>1, <2>2, ChangeKeeps
<1>10. CASE Answer(c)
  <2>1. c \in Actor /\ \A l \in Login : l \in Actor
    BY AccountsAssumption
  <2>2. SetField(c)
    BY <1>10 DEF Answer
  <2>3. /\ EditsOwn' /\ TableOwns' /\ Shape'
        /\ \A q \in Player : DOMAIN players[q] \subseteq DOMAIN players'[q]
        /\ \A l \in Login : edit'[l] # NoEdit =>
             /\ edit[l] # NoEdit
             /\ edit'[l].player = edit[l].player /\ edit'[l].field = edit[l].field
    BY <2>1, <2>2, SaveKeeps DEF IInv, Shape, accountVars
  <2>4. \A q \in Player, n \in Nat : SavedUpTo(q, n) => SavedUpTo(q, n)'
    BY <2>3, SavedStays
  <2>5. LoginsSave'
    BY <2>3, <2>4 DEF IInv, Shape, LoginsSave, LoginSaves, accountVars
  <2>6. LinksHold'
    BY <2>4 DEF IInv, LinksHold, accountVars
  <2> QED BY <2>3, <2>5, <2>6 DEF IInv
<1>11. CASE SaveFails(c)
  <2>1. c \in Actor /\ \A l \in Login : l \in Actor /\ l # c
    BY AccountsAssumption
  <2>2. /\ UNCHANGED <<players, kept>> /\ DOMAIN edit' = Actor /\ edit'[c] = NoEdit
        /\ \A b \in Actor : b # c => edit'[b] = edit[b]
    BY <1>11, <2>1 DEF SaveFails, Discard, IInv, Shape
  <2>3. EditsOwn'
    BY <2>2 DEF IInv, EditsOwn, Own, Belongs
  <2>4. TableOwns' /\ Shape' /\ LinksHold'
    BY <2>2 DEF IInv, TableOwns, Own, Belongs, Shape, LinksHold, SavedUpTo, accountVars
  <2>5. LoginsSave'
    BY <2>1, <2>2 DEF IInv, LoginsSave, LoginSaves, SavedUpTo, accountVars
  <2> QED BY <2>3, <2>4, <2>5 DEF IInv
<1> QED
  BY <1>1, <1>2, <1>3, <1>4, <1>5, <1>6, <1>7, <1>8, <1>9, <1>10, <1>11
  DEF HandlerStep, SaveWeaponLoadout, SaveOutfitLoadout

LEMMA GoesOnShape ==
  ASSUME Shape, NEW l \in Login, NEW pc \in {"idle", "create", "save", "link", "ban"},
         NEW n \in 0..4, GoesOn(l, pc, n)
  PROVE  login' \in [Login -> [pc : {"idle", "create", "save", "link", "ban"},
                               player : Player \union {NoPlayer}, step : 0..4]]
  BY DEF Shape, GoesOn

LEMMA LoginKeeps ==
  ASSUME IInv, NEW l \in Login, LoginStep(l)
  PROVE  IInv'
<1>0. l \in Actor /\ \A m \in Login : m \in Actor
  BY AccountsAssumption
<1>1. ASSUME NEW p \in Player, LookupPlayerByProvider(l, p)
      PROVE  IInv'
  <2>1. Shape' /\ EditsOwn' /\ TableOwns' /\ LinksHold'
    BY <1>1 DEF LookupPlayerByProvider, dbVars, IInv, Shape, EditsOwn, TableOwns, LinksHold,
       SavedUpTo, Own, Belongs
  <2>2. login'[l] = [pc |-> IF NoLink(p) THEN "create" ELSE "ban", player |-> p, step |-> 1]
    BY <1>1 DEF LookupPlayerByProvider, IInv, Shape
  <2>3. \A m \in Login : m # l => login'[m] = login[m]
    BY <1>1 DEF LookupPlayerByProvider, IInv, Shape
  <2>4. ~NoLink(p) => providers[p] = p
    BY DEF NoLink, IInv, LinksHold
  <2>5. LoginsSave'
    BY <1>1, <2>2, <2>3, <2>4
    DEF LookupPlayerByProvider, dbVars, IInv, LoginsSave, LoginSaves, SavedUpTo
  <2> QED BY <2>1, <2>5 DEF IInv
<1>2. CASE ReadToCreate(l)
  <2> DEFINE p == login[l].player
             f == Created[login[l].step]
  <2>1. /\ p \in Player /\ login[l].step \in 1..4 /\ f \in CreatedField
        /\ login[l].pc = "create"
    BY <1>2, CreatedFacts DEF ReadToCreate, IInv, LoginsSave, LoginSaves
  <2>2. PICK change : Edit(l, p, f, change) /\ Own(p, f, Merge(change, GetField(p, f)))
    <3>1. ASSUME NEW d \in Discriminator, f = "profile", Edit(l, p, f, NewProfile(p, d))
          PROVE  Own(p, f, Merge(NewProfile(p, d), GetField(p, f)))
      BY <3>1 DEF Own, Belongs, Merge, NewProfile
    <3>2. ASSUME f = "data", Edit(l, p, f, NewData(p))
          PROVE  Own(p, f, Merge(NewData(p), GetField(p, f)))
      BY <3>2 DEF Own, Belongs, Merge, NewData
    <3>3. ASSUME f \in {"outfits", "weapons"}, Edit(l, p, f, NewLoadouts(p, f))
          PROVE  Own(p, f, Merge(NewLoadouts(p, f), GetField(p, f)))
      BY <3>3 DEF Own, Belongs, Merge, NewLoadouts
    <3> QED BY <1>2, <3>1, <3>2, <3>3 DEF ReadToCreate
  <2>3. /\ EditsOwn' /\ DOMAIN edit' = Actor
        /\ edit'[l].player = p /\ edit'[l].field = f
        /\ \A b \in Actor : b # l => edit'[b] = edit[b]
    BY <1>0, <2>1, <2>2, EditKeeps
  <2>4. UNCHANGED players
    BY <2>2 DEF Edit
  <2>5. TableOwns' /\ LinksHold'
    BY <1>2, <2>4 DEF ReadToCreate, IInv, TableOwns, LinksHold, SavedUpTo, Own, Belongs
  <2>6. Shape'
    BY <1>2, <2>1, <2>3, <2>4 DEF ReadToCreate, GoesOn, IInv, Shape
  <2>7. /\ login'[l].pc = "save" /\ login'[l].player = p /\ login'[l].step = login[l].step
        /\ \A m \in Login : m # l => login'[m] = login[m]
    BY <1>2 DEF ReadToCreate, GoesOn, IInv, Shape
  <2>8. LoginsSave'
    BY <1>0, <1>2, <2>1, <2>3, <2>4, <2>7 DEF ReadToCreate, IInv, LoginsSave, LoginSaves, SavedUpTo
  <2> QED BY <2>3, <2>5, <2>6, <2>8 DEF IInv
<1>3. CASE SaveCreated(l)
  <2> DEFINE p == login[l].player
             step == login[l].step
  <2>1. /\ SetField(l) /\ login[l].pc = "save" /\ edit[l] # NoEdit
        /\ UNCHANGED <<providers, tokens>>
    BY <1>3 DEF SaveCreated, SetField
  <2>2. /\ p \in Player /\ step \in 1..4 /\ SavedUpTo(p, step)
        /\ edit[l].player = p /\ edit[l].field = Created[step]
    BY <2>1 DEF IInv, LoginsSave, LoginSaves
  <2>3. /\ EditsOwn' /\ TableOwns'
        /\ DOMAIN edit' = Actor /\ DOMAIN players' = Player
        /\ \A q \in Player : DOMAIN players[q] \subseteq DOMAIN players'[q]
        /\ Created[step] \in DOMAIN players'[p]
        /\ \A m \in Login : edit'[m] # NoEdit =>
             /\ edit[m] # NoEdit
             /\ edit'[m].player = edit[m].player /\ edit'[m].field = edit[m].field
    BY <1>0, <2>1, <2>2, SaveKeeps
  <2>4. \A q \in Player, n \in Nat : SavedUpTo(q, n) => SavedUpTo(q, n)'
    BY <2>3, SavedStays
  <2>5. \A n \in 1..4 : n < step + 1 => Created[n] \in DOMAIN players'[p]
    BY <2>2, <2>3 DEF SavedUpTo
  <2>6. /\ \A m \in Login : m # l => login'[m] = login[m]
        /\ login'[l].player = p
        /\ IF step = 4 THEN login'[l].pc = "link" /\ login'[l].step = 0
           ELSE login'[l].pc = "create" /\ login'[l].step = step + 1
    BY <1>3, CreatedFacts DEF SaveCreated, IsLast, GoesOn, IInv, Shape
  <2>7. Shape'
    <3>1. PICK pc \in {"create", "link"}, n \in 0..4 : GoesOn(l, pc, n)
      BY <1>3, <2>2, CreatedFacts DEF SaveCreated, IsLast
    <3> QED BY <2>1, <2>3, <3>1, GoesOnShape DEF IInv, Shape
  <2>8. ASSUME NEW m \in Login, m # l
        PROVE  LoginSaves(m)'
    BY <2>1, <2>3, <2>6, <2>8, StaysSaved DEF IInv, LoginsSave
  <2>9. LoginSaves(l)'
    <3>1. edit'[l] = NoEdit
      BY <1>0, <2>1, SaveKeeps
    <3>2. CASE step = 4
      BY <2>2, <2>5, <2>6, <3>2 DEF LoginSaves, SavedUpTo
    <3>3. CASE step # 4
      BY <2>2, <2>5, <2>6, <3>1, <3>3 DEF LoginSaves, SavedUpTo
    <3> QED BY <3>2, <3>3
  <2>10. LinksHold'
    BY <2>1, <2>4 DEF IInv, LinksHold
  <2> QED BY <2>3, <2>7, <2>8, <2>9, <2>10 DEF IInv, LoginsSave
<1>4. CASE Link(l)
  <2>1. /\ login[l].pc = "link" /\ login[l].player \in Player
        /\ SavedUpTo(login[l].player, 5)
    BY <1>4 DEF Link, IInv, LoginsSave, LoginSaves
  <2>2. /\ UNCHANGED <<players, edit, tokens>>
        /\ providers' = [providers EXCEPT ![login[l].player] = login[l].player]
        /\ login' = [login EXCEPT ![l].pc = "ban", ![l].step = 0]
    BY <1>4 DEF Link, UpsertProviderMap, GoesOn, dbVars
  <2>3. Shape' /\ EditsOwn' /\ TableOwns'
    <3>1. Shape'
      BY <1>4, <2>1, <2>2, GoesOnShape DEF Link, IInv, Shape
    <3>2. EditsOwn' /\ TableOwns'
      BY <2>2 DEF IInv, EditsOwn, TableOwns, Own, Belongs
    <3> QED BY <3>1, <3>2
  <2>4. LinksHold'
    BY <2>1, <2>2 DEF IInv, Shape, LinksHold, SavedUpTo
  <2>5. /\ login'[l].pc = "ban" /\ login'[l].player = login[l].player
        /\ \A m \in Login : m # l => login'[m] = login[m]
    BY <2>2 DEF IInv, Shape
  <2>6. \A q \in Player : providers[q] = q => providers'[q] = q
    BY <2>2 DEF IInv, Shape
  <2>7. providers'[login[l].player] = login[l].player
    BY <2>1, <2>2 DEF IInv, Shape
  <2>8. ASSUME NEW m \in Login, m # l
        PROVE  LoginSaves(m)'
    BY <2>2, <2>5, <2>6, <2>8, StaysSaved DEF IInv, LoginsSave
  <2>9. LoginSaves(l)'
    BY <2>1, <2>5, <2>7 DEF LoginSaves
  <2> QED BY <2>3, <2>4, <2>8, <2>9 DEF IInv, LoginsSave
<1>5. CASE Refuse(l)
  BY <1>5, AccountsAssumption DEF Refuse, Ends, NoLogin, dbVars, IInv, Shape, EditsOwn,
     TableOwns, LoginsSave, LoginSaves, LinksHold, SavedUpTo, Own, Belongs
<1>6. CASE Authenticate(l)
  <2>1. providers[login[l].player] = login[l].player /\ login[l].player \in Player
    BY <1>6 DEF Authenticate, IInv, LoginsSave, LoginSaves
  <2>2. LinksHold'
    BY <1>6, <2>1 DEF Authenticate, dbVars, IInv, LinksHold, SavedUpTo
  <2> QED
    BY <1>6, <2>2 DEF Authenticate, Ends, NoLogin, dbVars, IInv, Shape, EditsOwn, TableOwns,
       LoginsSave, LoginSaves, SavedUpTo, Own, Belongs
<1>7. CASE LoginFails(l)
  <2>1. /\ UNCHANGED <<players, kept, providers, tokens>>
        /\ DOMAIN edit' = Actor
        /\ \A b \in Actor : edit'[b] \in {NoEdit, edit[b]}
    BY <1>7 DEF LoginFails, Discard, dbVars, IInv, Shape
  <2>2. /\ login'[l] = NoLogin
        /\ \A m \in Login : m # l => login'[m] = login[m]
    BY <1>7 DEF LoginFails, Ends, IInv, Shape
  <2>3. Shape'
    BY <1>7, <2>1 DEF LoginFails, Ends, NoLogin, IInv, Shape
  <2>4. EditsOwn' /\ TableOwns' /\ LinksHold'
    BY <2>1 DEF IInv, EditsOwn, TableOwns, LinksHold, SavedUpTo, Own, Belongs
  <2>5. LoginsSave'
    BY <1>0, <2>1, <2>2 DEF NoLogin, IInv, LoginsSave, LoginSaves, SavedUpTo
  <2> QED BY <2>3, <2>4, <2>5 DEF IInv
<1> QED
  BY <1>1, <1>2, <1>3, <1>4, <1>5, <1>6, <1>7 DEF LoginStep

\* The inductive invariant: every copy and every stored column that a creation writes is its
\* player's, a login has saved the columns before its step, and links and tokens come after.
THEOREM AccountsInductive == Spec => []IInv
<1>1. Init => IInv
  BY CreatedFacts, AccountsAssumption
  DEF Init, DbInit, NoLogin, IInv, Shape, EditsOwn, TableOwns, LoginsSave, LoginSaves, LinksHold
<1>2. IInv /\ [Next]_vars => IInv'
  <2> SUFFICES ASSUME IInv, [Next]_vars PROVE IInv'
    OBVIOUS
  <2>1. ASSUME NEW l \in Login, LoginStep(l) PROVE IInv'
    BY <2>1, LoginKeeps
  <2>2. ASSUME NEW c \in Conn, Owner[c] \in tokens, HandlerStep(c), UNCHANGED accountVars
        PROVE IInv'
    BY <2>2, HandlerKeeps
  <2>3. CASE ChangeBan
    BY <2>3 DEF ChangeBan, dbVars, IInv, Shape, EditsOwn, TableOwns, LoginsSave, LoginSaves,
       LinksHold, SavedUpTo, Own, Belongs
  <2>4. CASE Restart
    BY <2>4, AccountsAssumption DEF Restart, LoseCopies, NoLogin, IInv, Shape, EditsOwn,
       TableOwns, LoginsSave, LoginSaves, LinksHold, SavedUpTo, Own, Belongs
  <2>5. CASE UNCHANGED vars
    BY <2>5 DEF vars, dbVars, accountVars, IInv, Shape, EditsOwn, TableOwns, LoginsSave, LoginSaves,
       LinksHold, SavedUpTo, Own, Belongs
  <2> QED BY <2>1, <2>2, <2>3, <2>4, <2>5 DEF Next
<1> QED BY <1>1, <1>2, PTL DEF Spec

\* Whoever is linked or has a token was created to the end, and reads columns of his own.
THEOREM AccountsComplete == Spec => []LinkedIsComplete
<1>1. IInv => LinkedIsComplete
  <2> SUFFICES ASSUME IInv PROVE LinkedIsComplete
    OBVIOUS
  <2>1. \A p \in tokens : providers[p] = p
    BY DEF IInv, LinksHold
  <2>2. ASSUME NEW p \in Player, providers[p] # NoPlayer, NEW n \in 1..Len(Created)
        PROVE  /\ Created[n] \in DOMAIN players[p]
               /\ Belongs(p, Created[n], players[p][Created[n]])
    <3>1. n \in 1..4 /\ Created[n] \in CreatedField
      BY CreatedFacts
    <3>2. Created[n] \in DOMAIN players[p]
      BY <2>2, <3>1 DEF IInv, LinksHold, SavedUpTo
    <3> QED BY <3>1, <3>2 DEF IInv, TableOwns, Own
  <2> QED BY <2>1, <2>2 DEF LinkedIsComplete
<1> QED BY <1>1, AccountsInductive, PTL

-----------------------------------------------------------------------------
(* The columns: their types, what the saves leave in them, and the          *)
(* presences that are shown.                                                *)

Loadouts == [playerId : PlayerIds, loadout : Loadout]
Data == [playerId : PlayerIds, matchmakingPlayerId : PlayerIds, data : Config, rest : Rest]
Profile == [playerId : PlayerIds, discriminator : Discriminator]

\* A version of a presence is raised with every change of what it names.
Follows(new, old) ==
  \/ new.version > old.version
  \/ new.version = old.version /\ new.basicPresence = old.basicPresence

CopyTyped(a) ==
  edit[a] # NoEdit =>
    /\ DOMAIN edit[a] = EditDomain
    /\ edit[a].player \in Player
    /\ edit[a].field \in Field
    /\ edit[a].stale \in BOOLEAN
    /\ IsColumn(edit[a].field, edit[a].column)

\* A copy that is not stale is the stored column with the handler's changes, and only those.
CopyFresh(a) ==
  edit[a] # NoEdit /\ ~edit[a].stale =>
    LET now == GetField(edit[a].player, edit[a].field)
    IN  /\ edit[a].column = Merge(edit[a].change, now)
        /\ edit[a].field = "presence" => Follows(edit[a].column, now)

TablesInv ==
  /\ DOMAIN players = Player
  /\ DOMAIN edit = Actor
  /\ DOMAIN kept = Player
  /\ \A p \in Player : DOMAIN kept[p] = Field
  /\ \A p \in Player, f \in Field : IsColumn(f, GetField(p, f)) /\ GetField(p, f) = kept[p][f]

ColumnsInv == TablesInv /\ \A a \in Actor : CopyTyped(a) /\ CopyFresh(a)

\* What was shown names the present presence or an older version.
ShownInv ==
  /\ shown \in [Player -> SUBSET [version : Nat, basicPresence : Presences]]
  /\ \A p \in Player : \A s \in shown[p] : Follows(GetField(p, "presence"), s)
  /\ VersionNamesPresence

\* The three things a step does to the columns: it reads one and changes its copy, it saves
\* a copy, or it loses copies.
Reads(a, p, f, change) ==
  /\ Edit(a, p, f, change)
  /\ IsColumn(f, Merge(change, GetField(p, f)))
  /\ f = "presence" => Follows(Merge(change, GetField(p, f)), GetField(p, f))

Saves(a) == SetField(a) /\ Show(a)

Drops ==
  /\ UNCHANGED <<players, kept>>
  /\ DOMAIN edit' = Actor
  /\ \A a \in Actor : edit'[a] \in {NoEdit, edit[a]}

ColumnsStep ==
  \/ \E a \in Actor, p \in Player, f \in Field : \E change :
       Reads(a, p, f, change) /\ UNCHANGED shown
  \/ \E a \in Actor : Saves(a)
  \/ Drops /\ UNCHANGED shown

\* While the table stays, so does every column that is read from it.
LEMMA SameTable ==
  ASSUME UNCHANGED players
  PROVE  \A p, f : GetField(p, f)' = GetField(p, f)
  BY DEF GetField

LEMMA ReadKeepsColumns ==
  ASSUME ColumnsInv, NEW a \in Actor, NEW p \in Player, NEW f \in Field, NEW change,
         Reads(a, p, f, change)
  PROVE  ColumnsInv'
<1>1. /\ UNCHANGED <<players, kept>> /\ DOMAIN edit' = Actor
      /\ edit'[a] = [player |-> p, field |-> f, change |-> change,
                     column |-> Merge(change, GetField(p, f)), stale |-> FALSE]
      /\ \A b \in Actor : b # a => edit'[b] = edit[b]
  BY DEF Reads, Edit, ColumnsInv, TablesInv
<1>2. TablesInv'
  BY <1>1, SameTable DEF ColumnsInv, TablesInv
<1>3. ASSUME NEW b \in Actor
      PROVE  CopyTyped(b)' /\ CopyFresh(b)'
  <2>1. CASE b = a
    <3>1. CopyTyped(a)'
      BY <1>1 DEF CopyTyped, EditDomain, Reads
    <3>2. CopyFresh(a)'
      BY <1>1, SameTable DEF CopyFresh, Reads
    <3> QED BY <2>1, <3>1, <3>2
  <2>2. CASE b # a
    BY <1>1, <2>2, SameTable DEF ColumnsInv, CopyTyped, CopyFresh
  <2> QED BY <2>1, <2>2
<1> QED BY <1>2, <1>3 DEF ColumnsInv

LEMMA DropKeepsColumns ==
  ASSUME ColumnsInv, Drops
  PROVE  ColumnsInv'
<1>1. TablesInv'
  BY SameTable DEF Drops, ColumnsInv, TablesInv
<1>2. ASSUME NEW b \in Actor
      PROVE  CopyTyped(b)' /\ CopyFresh(b)'
  BY SameTable DEF Drops, ColumnsInv, CopyTyped, CopyFresh
<1> QED BY <1>1, <1>2 DEF ColumnsInv

\* A save writes its copy to its column and leaves every other column alone.
LEMMA SaveWrites ==
  ASSUME ColumnsInv, NEW a \in Actor, SetField(a)
  PROVE  \A p \in Player, f \in Field :
           GetField(p, f)' = IF p = edit[a].player /\ f = edit[a].field THEN edit[a].column
                             ELSE GetField(p, f)
<1> DEFINE e == edit[a]
           new == Merge([g \in {e.field} |-> e.column], players[e.player])
<1>1. e.player \in Player /\ DOMAIN players = Player
  BY DEF SetField, ColumnsInv, CopyTyped, TablesInv
<1>2. players' = [players EXCEPT ![e.player] = new]
  BY DEF SetField, Upsert
<1>3. /\ DOMAIN new = {e.field} \union DOMAIN players[e.player]
      /\ new[e.field] = e.column
      /\ \A f \in DOMAIN players[e.player] : f # e.field => new[f] = players[e.player][f]
  BY DEF Merge
<1>4. /\ players'[e.player] = new
      /\ \A p \in Player : p # e.player => players'[p] = players[p]
  BY <1>1, <1>2
<1> HIDE DEF new
<1> QED BY <1>3, <1>4 DEF GetField

LEMMA SaveKeepsColumns ==
  ASSUME ColumnsInv, NEW a \in Actor, SetField(a)
  PROVE  ColumnsInv'
<1> DEFINE e == edit[a]
<1>1. /\ e # NoEdit /\ e.player \in Player /\ e.field \in Field /\ e.stale \in BOOLEAN
      /\ IsColumn(e.field, e.column)
  BY DEF SetField, ColumnsInv, CopyTyped
<1>2. \A p \in Player, f \in Field :
        GetField(p, f)' = IF p = e.player /\ f = e.field THEN e.column ELSE GetField(p, f)
  BY SaveWrites
<1>3. /\ DOMAIN players' = Player /\ DOMAIN edit' = Actor /\ DOMAIN kept' = Player
      /\ \A p \in Player : DOMAIN kept'[p] = Field
      /\ \A p \in Player, f \in Field :
           kept'[p][f] = IF p = e.player /\ f = e.field
                         THEN IF e.stale THEN e.column ELSE Merge(e.change, kept[p][f])
                         ELSE kept[p][f]
  BY <1>1 DEF SetField, Upsert, ColumnsInv, TablesInv
<1>4. ~e.stale => e.column = Merge(e.change, kept[e.player][e.field])
  BY <1>1 DEF ColumnsInv, TablesInv, CopyFresh
<1>5. TablesInv'
  <2>1. ASSUME NEW p \in Player, NEW f \in Field
        PROVE  IsColumn(f, GetField(p, f)') /\ GetField(p, f)' = kept'[p][f]
    <3>1. CASE p = e.player /\ f = e.field
      BY <1>1, <1>2, <1>3, <1>4, <3>1
    <3>2. CASE ~(p = e.player /\ f = e.field)
      BY <1>2, <1>3, <3>2 DEF ColumnsInv, TablesInv
    <3> QED BY <3>1, <3>2
  <2> QED BY <1>3, <2>1 DEF TablesInv, IsColumn, IsLoadouts, IsInventory
<1>6. ASSUME NEW b \in Actor
      PROVE  CopyTyped(b)' /\ CopyFresh(b)'
  <2>1. edit'[b] = IF b = a THEN NoEdit
                   ELSE IF SameColumn(b, e) THEN [edit[b] EXCEPT !.stale = TRUE]
                   ELSE edit[b]
    BY DEF SetField
  <2>2. CASE b = a
    BY <2>1, <2>2 DEF CopyTyped, CopyFresh
  <2>3. CASE b # a /\ SameColumn(b, e)
    <3>1. edit[b] # NoEdit /\ CopyTyped(b)
      BY <2>3 DEF SameColumn, ColumnsInv
    <3>2. /\ DOMAIN edit'[b] = EditDomain /\ edit'[b].stale
          /\ edit'[b].player = edit[b].player /\ edit'[b].field = edit[b].field
          /\ edit'[b].column = edit[b].column
      BY <2>1, <2>3, <3>1 DEF CopyTyped, EditDomain
    <3> QED BY <3>1, <3>2 DEF CopyTyped, CopyFresh
  <2>4. CASE b # a /\ ~SameColumn(b, e)
    <3>1. edit'[b] = edit[b] /\ CopyTyped(b) /\ CopyFresh(b)
      BY <2>1, <2>4 DEF ColumnsInv
    <3>2. edit[b] # NoEdit =>
            GetField(edit[b].player, edit[b].field)' = GetField(edit[b].player, edit[b].field)
      BY <1>2, <2>4, <3>1 DEF SameColumn, CopyTyped
    <3> QED BY <3>1, <3>2 DEF CopyTyped, CopyFresh
  <2> QED BY <2>2, <2>3, <2>4
<1> QED BY <1>5, <1>6 DEF ColumnsInv

LEMMA StepKeepsColumns ==
  ASSUME ColumnsInv, ColumnsStep
  PROVE  ColumnsInv'
  BY ReadKeepsColumns, SaveKeepsColumns, DropKeepsColumns DEF ColumnsStep, Saves

\* What a save shows follows what was shown before, unless its copy was stale.
LEMMA StepKeepsShown ==
  ASSUME ColumnsInv, ShownInv, ColumnsStep
  PROVE  ShownInv'
<1>1. CASE UNCHANGED <<players, shown>>
  BY <1>1, SameTable DEF ShownInv, VersionNamesPresence
<1>2. ASSUME NEW a \in Actor, Saves(a)
      PROVE  ShownInv'
  <2> DEFINE e == edit[a]
             now == [version |-> e.column.version, basicPresence |-> e.column.basicPresence]
  <2>1. /\ e # NoEdit /\ e.player \in Player /\ e.field \in Field /\ e.stale \in BOOLEAN
        /\ IsColumn(e.field, e.column)
    BY <1>2 DEF Saves, SetField, ColumnsInv, CopyTyped
  <2>2. \A p \in Player, f \in Field :
          GetField(p, f)' = IF p = e.player /\ f = e.field THEN e.column ELSE GetField(p, f)
    BY <1>2, SaveWrites DEF Saves
  <2>3. CASE e.field # "presence"
    <3>1. \A p \in Player : GetField(p, "presence")' = GetField(p, "presence")
      BY <2>2, <2>3 DEF Field
    <3>2. UNCHANGED shown
      BY <1>2, <2>3 DEF Saves, Show
    <3> QED BY <3>1, <3>2 DEF ShownInv, VersionNamesPresence
  <2>4. CASE e.field = "presence"
    <3>1. shown' = [shown EXCEPT ![e.player] = {now} \union IF e.stale THEN {} ELSE @]
      BY <1>2, <2>4 DEF Saves, Show
    <3>2. e.column \in Presence
      BY <2>1, <2>4 DEF IsColumn
    <3>3. now \in [version : Nat, basicPresence : Presences]
      BY <3>2 DEF Presence
    <3>4. shown' \in [Player -> SUBSET [version : Nat, basicPresence : Presences]]
      BY <2>1, <3>1, <3>3 DEF ShownInv
    <3>5. \A p \in Player :
            GetField(p, "presence")' = IF p = e.player THEN e.column ELSE GetField(p, "presence")
      BY <2>1, <2>2, <2>4 DEF Field
    <3>6. GetField(e.player, "presence") \in Presence
      BY <2>1 DEF ColumnsInv, TablesInv, IsColumn, Field
    <3>7. ~e.stale => \A s \in shown[e.player] : Follows(e.column, s)
      <4> SUFFICES ASSUME ~e.stale, NEW s \in shown[e.player]
                   PROVE  Follows(e.column, s)
        OBVIOUS
      <4>1. Follows(e.column, GetField(e.player, "presence"))
        BY <2>1, <2>4 DEF ColumnsInv, CopyFresh
      <4>2. Follows(GetField(e.player, "presence"), s) /\ s \in [version : Nat, basicPresence : Presences]
        BY <2>1 DEF ShownInv
      <4> QED BY <3>2, <3>6, <4>1, <4>2 DEF Follows, Presence
    <3>8. shown'[e.player] = {now} \union IF e.stale THEN {} ELSE shown[e.player]
      BY <2>1, <3>1 DEF ShownInv
    <3>9. \A p \in Player : p # e.player => shown'[p] = shown[p]
      BY <3>1 DEF ShownInv
    <3>10. ASSUME NEW p \in Player, NEW s \in shown'[p]
           PROVE  Follows(GetField(p, "presence")', s)
      <4>1. CASE p # e.player
        BY <3>5, <3>9, <3>10, <4>1 DEF ShownInv
      <4>2. CASE p = e.player /\ s = now
        BY <3>2, <3>5, <4>2 DEF Follows, Presence
      <4>3. CASE p = e.player /\ s # now
        <5>1. ~e.stale /\ s \in shown[e.player]
          BY <3>8, <3>10, <4>3
        <5> QED BY <3>5, <3>7, <4>3, <5>1
      <4> QED BY <4>1, <4>2, <4>3
    <3>11. ASSUME NEW p \in Player, NEW s \in shown'[p], NEW t \in shown'[p],
                  s.version = t.version
           PROVE  s = t
      <4>1. CASE p # e.player
        BY <3>9, <3>11, <4>1 DEF ShownInv, VersionNamesPresence
      <4>2. CASE p = e.player
        <5>1. \A u \in shown'[p] : u.version = now.version => u = now
          <6> SUFFICES ASSUME NEW u \in shown'[p], u.version = now.version
                       PROVE  u = now
            OBVIOUS
          <6>1. CASE u = now
            BY <6>1
          <6>2. CASE u # now
            <7>1. ~e.stale /\ u \in shown[e.player]
              BY <3>8, <4>2, <6>2
            <7>2. u \in [version : Nat, basicPresence : Presences] /\ Follows(e.column, u)
              BY <2>1, <3>7, <7>1 DEF ShownInv
            <7>3. u.basicPresence = now.basicPresence
              BY <3>2, <7>2 DEF Follows, Presence
            <7> QED BY <3>3, <7>2, <7>3
          <6> QED BY <6>1, <6>2
        <5>2. s # now /\ t # now => s \in shown[p] /\ t \in shown[p]
          BY <3>8, <4>2
        <5> HIDE DEF now
        <5>3. CASE s = now \/ t = now
          BY <3>11, <5>1, <5>3
        <5>4. CASE s # now /\ t # now
          BY <3>11, <5>2, <5>4 DEF ShownInv, VersionNamesPresence
        <5> QED BY <5>3, <5>4
      <4> QED BY <4>1, <4>2
    <3>12. VersionNamesPresence'
      BY <3>11 DEF VersionNamesPresence
    <3>13. \A p \in Player : \A s \in shown'[p] : Follows(GetField(p, "presence")', s)
      BY <3>10
    <3> QED BY <3>4, <3>12, <3>13 DEF ShownInv, Follows
  <2> QED BY <2>3, <2>4
<1> QED BY <1>1, <1>2 DEF ColumnsStep, Reads, Edit, Drops

\* What merging a handler's changes makes of a column.
LEMMA PresenceMerges ==
  ASSUME NEW v \in Presence
  PROVE  /\ \A basic \in Presences :
              LET new == Merge([basicPresence |-> basic, version |-> v.version + 1], v)
              IN  new \in Presence /\ Follows(new, v)
         /\ \A context \in Context :
              LET new == Merge([presenceContext |-> context], v)
              IN  new \in Presence /\ Follows(new, v)
<1>1. ASSUME NEW basic \in Presences
      PROVE  LET new == Merge([basicPresence |-> basic, version |-> v.version + 1], v)
             IN  new \in Presence /\ new.version = v.version + 1
  BY DEF Merge, Presence
<1>2. ASSUME NEW context \in Context
      PROVE  LET new == Merge([presenceContext |-> context], v)
             IN  /\ new \in Presence /\ new.version = v.version
                 /\ new.basicPresence = v.basicPresence
  BY DEF Merge, Presence
<1> QED BY <1>1, <1>2 DEF Follows, Presence

LEMMA LoadoutsMerge ==
  ASSUME NEW v, IsLoadouts(v), NEW p \in Player
  PROVE  /\ \A id \in LoadoutId, loadout \in Loadout, sent \in PlayerIds :
              IsLoadouts(Merge([i \in {id} |-> OwnLoadout(p, loadout, sent)], v))
         /\ IsLoadouts(Merge([i \in DOMAIN v |-> Merge([playerId |-> p], v[i])], v))
<1>1. ASSUME NEW id \in LoadoutId, NEW loadout \in Loadout, NEW sent \in PlayerIds
      PROVE  IsLoadouts(Merge([i \in {id} |-> OwnLoadout(p, loadout, sent)], v))
  BY DEF IsLoadouts, Merge, OwnLoadout, PlayerIds
<1>2. \A w \in Loadouts : Merge([playerId |-> p], w) \in Loadouts
  BY DEF Merge, PlayerIds, Loadouts
<1>3. \A i \in DOMAIN v : i \in LoadoutId /\ v[i] \in Loadouts
  BY DEF IsLoadouts, Loadouts
<1>4. \A i \in DOMAIN v : i \in LoadoutId /\ Merge([playerId |-> p], v[i]) \in Loadouts
  BY <1>2, <1>3
<1> DEFINE new == [i \in DOMAIN v |-> Merge([playerId |-> p], v[i])]
<1>5. /\ DOMAIN Merge(new, v) = DOMAIN v
      /\ \A i \in DOMAIN v : Merge(new, v)[i] = Merge([playerId |-> p], v[i])
  BY DEF Merge
<1>6. IsLoadouts(Merge(new, v))
  BY <1>4, <1>5 DEF IsLoadouts, Loadouts
<1> QED BY <1>1, <1>6

LEMMA InventoryMerges ==
  ASSUME NEW v, IsInventory(v), NEW ids \in SUBSET Item, NEW flag \in BOOLEAN
  PROVE  /\ IsInventory(Merge([u \in ids \union {"version"} |->
                                  IF u = "version" THEN v["version"] + 1
                                  ELSE [v[u] EXCEPT !.viewed = flag]], v))
         /\ \A e \in Endorsement :
              IsInventory(Merge([u \in ids |-> [viewed |-> v[u].viewed \/ flag,
                                                activeEndorsement |-> e]], v))
<1>1. "version" \notin Item
  BY PlayerHandlersAssumption
<1>2. \A u \in Item : [v[u] EXCEPT !.viewed = flag] \in InstancedItem
  BY DEF IsInventory, InstancedItem
<1>3. ASSUME NEW e \in Endorsement, NEW u \in Item
      PROVE  [viewed |-> v[u].viewed \/ flag, activeEndorsement |-> e] \in InstancedItem
  BY DEF IsInventory, InstancedItem
<1>4. IsInventory(Merge([u \in ids \union {"version"} |->
                           IF u = "version" THEN v["version"] + 1
                           ELSE [v[u] EXCEPT !.viewed = flag]], v))
  <2> DEFINE item(u) == [v[u] EXCEPT !.viewed = flag]
             new == Merge([u \in ids \union {"version"} |->
                           IF u = "version" THEN v["version"] + 1 ELSE item(u)], v)
  <2> HIDE DEF item
  <2>1. /\ DOMAIN new = Item \union {"version"}
        /\ new["version"] = v["version"] + 1
        /\ \A u \in Item : new[u] = IF u \in ids THEN item(u) ELSE v[u]
    BY <1>1 DEF Merge, IsInventory
  <2>2. \A u \in Item : item(u) \in InstancedItem
    BY <1>2 DEF item
  <2>3. IsInventory(new)
    <3> HIDE DEF new
    <3> QED BY <2>1, <2>2 DEF IsInventory
  <2> QED BY <2>3 DEF item
<1>5. ASSUME NEW e \in Endorsement
      PROVE  IsInventory(Merge([u \in ids |-> [viewed |-> v[u].viewed \/ flag,
                                               activeEndorsement |-> e]], v))
  <2> DEFINE item(u) == [viewed |-> v[u].viewed \/ flag, activeEndorsement |-> e]
             new == Merge([u \in ids |-> item(u)], v)
  <2>2. \A u \in Item : item(u) \in InstancedItem
    BY <1>3
  <2> HIDE DEF item
  <2>1. /\ DOMAIN new = Item \union {"version"}
        /\ new["version"] = v["version"]
        /\ \A u \in Item : new[u] = IF u \in ids THEN item(u) ELSE v[u]
    BY <1>1 DEF Merge, IsInventory
  <2>3. IsInventory(new)
    <3> HIDE DEF new
    <3> QED BY <2>1, <2>2 DEF IsInventory
  <2> QED BY <2>3 DEF item
<1> QED BY <1>4, <1>5

LEMMA DataMerges ==
  ASSUME NEW v \in Data, NEW p \in Player
  PROVE  /\ Merge(NewData(p), v) \in Data
         /\ \A config \in Config : Merge([data |-> config], v) \in Data
         /\ \A config \in Config, rest \in Rest, sent \in PlayerIds :
              Merge([playerId |-> p, matchmakingPlayerId |-> sent, data |-> config,
                     rest |-> rest], v) \in Data
  BY DEF Merge, Data, PlayerIds, NewData

LEMMA ProfileMerges ==
  ASSUME NEW v \in Profile, NEW p \in Player, NEW d \in Discriminator
  PROVE  Merge(NewProfile(p, d), v) \in Profile
  BY DEF Merge, Profile, PlayerIds, NewProfile

\* Every handler reads and changes its column as ColumnsStep says.
LEMMA ChangeReads ==
  ASSUME NEW c \in Conn, NEW f \in Field, NEW change, Change(c, f, change),
         IsColumn(f, Merge(change, GetField(Owner[c], f))),
         f = "presence" => Follows(Merge(change, GetField(Owner[c], f)), GetField(Owner[c], f))
  PROVE  ColumnsStep
  BY AccountsAssumption DEF Change, ColumnsStep, Reads

LEMMA HandlerStepIsColumnsStep ==
  ASSUME ColumnsInv, NEW c \in Conn, HandlerStep(c)
  PROVE  ColumnsStep
<1> DEFINE p == Owner[c]
<1>1. /\ c \in Actor /\ p \in Player
      /\ \A f \in Field : IsColumn(f, GetField(p, f))
  BY AccountsAssumption DEF ColumnsInv, TablesInv
<1>2. /\ GetField(p, "presence") \in Presence
      /\ IsLoadouts(GetField(p, "weapons")) /\ IsLoadouts(GetField(p, "outfits"))
      /\ IsInventory(GetField(p, "inventory"))
      /\ GetField(p, "data") \in Data
  BY <1>1 DEF IsColumn, Field, Data
<1>3. ASSUME NEW basic \in Presences, SetPresence(c, basic)
      PROVE  ColumnsStep
  <2> DEFINE change == [basicPresence |-> basic,
                        version |-> GetField(p, "presence").version + 1]
  <2>1. Change(c, "presence", change)
    BY <1>3 DEF SetPresence, NextVersion
  <2>2. /\ Merge(change, GetField(p, "presence")) \in Presence
        /\ Follows(Merge(change, GetField(p, "presence")), GetField(p, "presence"))
    BY <1>2, PresenceMerges
  <2>3. "presence" \in Field /\ IsColumn("presence", Merge(change, GetField(p, "presence")))
    BY <2>2 DEF IsColumn, Field
  <2> HIDE DEF change
  <2> QED BY <2>1, <2>2, <2>3, ChangeReads
<1>4. CASE RegisterOnline(c)
  BY <1>3, <1>4 DEF RegisterOnline, Presences
<1>5. ASSUME NEW context \in Context, UpdatePresence(c, context)
      PROVE  ColumnsStep
  <2> DEFINE change == [presenceContext |-> context]
  <2>1. Change(c, "presence", change)
    BY <1>5 DEF UpdatePresence
  <2>2. /\ Merge(change, GetField(p, "presence")) \in Presence
        /\ Follows(Merge(change, GetField(p, "presence")), GetField(p, "presence"))
    BY <1>2, PresenceMerges
  <2>3. "presence" \in Field /\ IsColumn("presence", Merge(change, GetField(p, "presence")))
    BY <2>2 DEF IsColumn, Field
  <2> HIDE DEF change
  <2> QED BY <2>1, <2>2, <2>3, ChangeReads
<1>6. ASSUME NEW f \in {"weapons", "outfits"}, NEW id \in LoadoutId, NEW loadout \in Loadout,
             NEW sent \in PlayerIds, SaveLoadout(c, f, id, loadout, sent)
      PROVE  ColumnsStep
  <2> DEFINE change == [i \in {id} |-> OwnLoadout(p, loadout, sent)]
  <2>1. Change(c, f, change)
    BY <1>6 DEF SaveLoadout
  <2>2. IsLoadouts(Merge(change, GetField(p, f)))
    BY <1>1, <1>2, LoadoutsMerge
  <2>3. f \in Field /\ f # "presence" /\ IsColumn(f, Merge(change, GetField(p, f)))
    BY <2>2 DEF IsColumn, Field
  <2> HIDE DEF change
  <2> QED BY <2>1, <2>3, ChangeReads
<1>7. ASSUME NEW ids, NEW flag \in BOOLEAN, UpdateItemsV0(c, ids, flag)
      PROVE  ColumnsStep
  <2> DEFINE v == GetField(p, "inventory")
             found == ids \intersect Item
             change == [u \in found \union {"version"} |->
                          IF u = "version" THEN v["version"] + 1
                          ELSE [v[u] EXCEPT !.viewed = flag]]
  <2>1. Change(c, "inventory", change)
    BY <1>7, Zenon DEF UpdateItemsV0, NextVersion
  <2>2. found \in SUBSET Item
    OBVIOUS
  <2>3. IsInventory(Merge(change, v))
    BY <1>2, <2>2, InventoryMerges, Zenon
  <2> HIDE DEF change
  <2>4. "inventory" \in Field /\ IsColumn("inventory", Merge(change, v))
    BY <2>3 DEF IsColumn, Field
  <2> QED BY <2>1, <2>4, ChangeReads
<1>8. ASSUME NEW ids \in SUBSET Item, NEW flag \in BOOLEAN, NEW en \in Endorsement,
             UpdateItemV4(c, ids, flag, en)
      PROVE  ColumnsStep
  <2> DEFINE v == GetField(p, "inventory")
             change == [u \in ids |-> [viewed |-> v[u].viewed \/ flag, activeEndorsement |-> en]]
  <2>1. Change(c, "inventory", change)
    BY <1>8 DEF UpdateItemV4
  <2>2. IsInventory(Merge(change, v))
    BY <1>2, InventoryMerges, Zenon
  <2> HIDE DEF change
  <2>3. "inventory" \in Field /\ IsColumn("inventory", Merge(change, v))
    BY <2>2 DEF IsColumn, Field
  <2> QED BY <2>1, <2>3, ChangeReads
<1>9. ASSUME NEW i, NEW flag, UpdateItemV4Skips(c, i, flag)
      PROVE  ColumnsStep
  BY <1>9 DEF UpdateItemV4Skips, dbVars, ColumnsStep, Drops, ColumnsInv, TablesInv
<1>10. ASSUME NEW config \in Config, SavePlayerData(c, config)
       PROVE  ColumnsStep
  <2> DEFINE change == [data |-> config]
  <2>1. Change(c, "data", change)
    BY <1>10 DEF SavePlayerData
  <2>2. Merge(change, GetField(p, "data")) \in Data
    BY <1>1, <1>2, DataMerges
  <2>3. "data" \in Field /\ IsColumn("data", Merge(change, GetField(p, "data")))
    BY <2>2 DEF IsColumn, Field, Data
  <2> HIDE DEF change
  <2> QED BY <2>1, <2>3, ChangeReads
<1>11. ASSUME NEW config \in Config, NEW rest \in Rest, NEW sent \in PlayerIds,
              SaveWholePlayerData(c, config, rest, sent)
       PROVE  ColumnsStep
  <2> DEFINE change == [playerId |-> p, matchmakingPlayerId |-> sent, data |-> config,
                        rest |-> rest]
  <2>1. Change(c, "data", change)
    BY <1>11 DEF SaveWholePlayerData
  <2>2. Merge(change, GetField(p, "data")) \in Data
    BY <1>1, <1>2, DataMerges
  <2>3. "data" \in Field /\ IsColumn("data", Merge(change, GetField(p, "data")))
    BY <2>2 DEF IsColumn, Field, Data
  <2> HIDE DEF change
  <2> QED BY <2>1, <2>3, ChangeReads
<1>12. CASE Answer(c)
  BY <1>1, <1>12 DEF Answer, ColumnsStep, Saves
<1>13. CASE SaveFails(c)
  BY <1>13 DEF SaveFails, Discard, handlerVars, ColumnsStep, Drops, ColumnsInv, TablesInv
<1>14. \A i \in Item : {i} \in SUBSET Item
  OBVIOUS
<1> QED
  BY <1>3, <1>4, <1>5, <1>6, <1>7, <1>8, <1>9, <1>10, <1>11, <1>12, <1>13, <1>14
  DEF HandlerStep, SaveWeaponLoadout, SaveOutfitLoadout

\* A login writes no presence, and so shows none.
LEMMA LoginStepIsColumnsStep ==
  ASSUME IInv, ColumnsInv, NEW l \in Login, LoginStep(l)
  PROVE  ColumnsStep
<1>1. l \in Actor
  BY AccountsAssumption
<1>2. CASE UNCHANGED <<dbVars, handlerVars>>
  BY <1>2 DEF dbVars, handlerVars, ColumnsStep, Drops, ColumnsInv, TablesInv
<1>3. CASE ReadToCreate(l)
  <2> DEFINE p == login[l].player
             f == Created[login[l].step]
  <2>1. /\ p \in Player /\ f \in CreatedField /\ f \in Field /\ f # "presence"
        /\ UNCHANGED shown
    BY <1>3, CreatedFacts
    DEF ReadToCreate, IInv, LoginsSave, LoginSaves, CreatedField, Field, handlerVars
  <2>2. IsColumn(f, GetField(p, f))
    BY <2>1 DEF ColumnsInv, TablesInv
  <2>3. ASSUME NEW d \in Discriminator, f = "profile"
        PROVE  IsColumn(f, Merge(NewProfile(p, d), GetField(p, f)))
    <3>1. GetField(p, f) \in Profile
      BY <2>2, <2>3 DEF IsColumn, Profile
    <3> QED BY <2>1, <2>3, <3>1, ProfileMerges DEF IsColumn, Profile
  <2>4. ASSUME f = "data"
        PROVE  IsColumn(f, Merge(NewData(p), GetField(p, f)))
    <3>1. GetField(p, f) \in Data
      BY <2>2, <2>4 DEF IsColumn, Data
    <3> QED BY <2>1, <2>4, <3>1, DataMerges DEF IsColumn, Data
  <2>5. ASSUME f \in {"outfits", "weapons"}
        PROVE  IsColumn(f, Merge(NewLoadouts(p, f), GetField(p, f)))
    <3>1. IsLoadouts(GetField(p, f))
      BY <2>2, <2>5 DEF IsColumn
    <3> QED BY <2>1, <2>5, <3>1, LoadoutsMerge DEF IsColumn, NewLoadouts
  <2>6. PICK change : Edit(l, p, f, change) /\ IsColumn(f, Merge(change, GetField(p, f)))
    BY <1>3, <2>3, <2>4, <2>5 DEF ReadToCreate
  <2> QED BY <1>1, <2>1, <2>6 DEF ColumnsStep, Reads
<1>4. CASE SaveCreated(l)
  <2>1. SetField(l) /\ UNCHANGED shown
    BY <1>4 DEF SaveCreated, handlerVars
  <2>2. edit[l].field # "presence"
    BY <1>4, CreatedFacts DEF SaveCreated, SetField, IInv, LoginsSave, LoginSaves, CreatedField
  <2> QED BY <1>1, <2>1, <2>2 DEF Show, Saves, ColumnsStep
<1>5. CASE LoginFails(l)
  BY <1>5 DEF LoginFails, Discard, dbVars, handlerVars, ColumnsStep, Drops, ColumnsInv, TablesInv
<1>6. ASSUME NEW p \in Player, LookupPlayerByProvider(l, p)
      PROVE  ColumnsStep
  BY <1>2, <1>6 DEF LookupPlayerByProvider
<1>7. CASE Link(l) \/ Refuse(l) \/ Authenticate(l)
  BY <1>2, <1>7 DEF Link, Refuse, Authenticate
<1> QED BY <1>3, <1>4, <1>5, <1>6, <1>7 DEF LoginStep

LEMMA NextIsColumnsStep ==
  ASSUME IInv, ColumnsInv, [Next]_vars
  PROVE  ColumnsStep
<1>1. CASE UNCHANGED <<dbVars, handlerVars>>
  BY <1>1 DEF dbVars, handlerVars, ColumnsStep, Drops, ColumnsInv, TablesInv
<1>2. CASE Restart
  BY <1>2 DEF Restart, LoseCopies, handlerVars, ColumnsStep, Drops
<1> QED
  BY <1>1, <1>2, LoginStepIsColumnsStep, HandlerStepIsColumnsStep DEF Next, ChangeBan, vars

LEMMA InitColumns ==
  ASSUME Init
  PROVE  ColumnsInv /\ ShownInv
<1>1. \A p \in Player, f \in Field : GetField(p, f) = Default[f]
  BY DEF Init, DbInit, GetField
<1>2. ColumnsInv
  BY <1>1, PlayerHandlersAssumption DEF Init, DbInit, ColumnsInv, TablesInv, CopyTyped, CopyFresh
<1>3. ShownInv
  BY DEF Init, HandlersInit, ShownInv, VersionNamesPresence
<1> QED BY <1>2, <1>3

\* The columns keep their types and their history, and so does what is shown of presences.
THEOREM ColumnsInductive == Spec => [](ColumnsInv /\ ShownInv)
<1>1. Init => ColumnsInv /\ ShownInv
  BY InitColumns
<1>2. IInv /\ ColumnsInv /\ ShownInv /\ [Next]_vars => (ColumnsInv /\ ShownInv)'
  BY NextIsColumnsStep, StepKeepsColumns, StepKeepsShown
<1> QED BY <1>1, <1>2, AccountsInductive, PTL DEF Spec

\* No save takes back what another has saved, unless it saves a copy read before.
THEOREM ColumnsLoseNothing == Spec => []NothingSavedIsLost
<1>1. ColumnsInv => NothingSavedIsLost
  BY DEF ColumnsInv, TablesInv, NothingSavedIsLost
<1> QED BY <1>1, ColumnsInductive, PTL

\* The versions that a player was shown name one presence each.
THEOREM VersionsNamePresences == Spec => []VersionNamesPresence
<1>1. ShownInv => VersionNamesPresence
  BY DEF ShownInv
<1> QED BY <1>1, ColumnsInductive, PTL

-----------------------------------------------------------------------------
(* The rest of the types, and the names of players.                         *)

CountsInv ==
  /\ DOMAIN requests = Conn
  /\ \A c \in Conn : requests[c] \in 0..MaxRequests[c]
  /\ viewed \in [Player -> SUBSET Item]
  /\ bans \in [Player -> Ban]
  /\ logins \in [Login -> 0..MaxLogins]
  /\ restarts \in 0..MaxRestarts
  /\ banned \in 0..MaxBans

LEMMA RequestCounts ==
  ASSUME CountsInv, NEW c \in Conn, Request(c)
  PROVE  DOMAIN requests' = Conn /\ \A d \in Conn : requests'[d] \in 0..MaxRequests[d]
  BY PlayerHandlersAssumption DEF CountsInv, Request

LEMMA ChangeCounts ==
  ASSUME CountsInv, UNCHANGED accountVars, NEW c \in Conn, NEW f, NEW change, Change(c, f, change)
  PROVE  CountsInv'
  BY RequestCounts DEF Change, CountsInv, accountVars

LEMMA HandlerCounts ==
  ASSUME CountsInv, ColumnsInv, UNCHANGED accountVars, NEW c \in Conn, HandlerStep(c)
  PROVE  CountsInv'
<1>1. ASSUME NEW i, NEW flag, UpdateItemV4Skips(c, i, flag)
      PROVE  CountsInv'
  <2>1. viewed' \in [Player -> SUBSET Item]
    BY <1>1, AccountsAssumption DEF UpdateItemV4Skips, Viewed, CountsInv
  <2> QED BY <1>1, <2>1, RequestCounts DEF UpdateItemV4Skips, CountsInv, accountVars
<1>2. CASE Answer(c)
  <2> DEFINE e == edit[c]
             told == {u \in DOMAIN e.change \intersect Item : e.change[u].viewed}
  <2>1. e.player \in Player
    BY <1>2, AccountsAssumption DEF Answer, SetField, ColumnsInv, CopyTyped
  <2>2. told \in SUBSET Item
    OBVIOUS
  <2>3. \/ UNCHANGED viewed
        \/ viewed' = [viewed EXCEPT ![e.player] =
                        IF e.stale THEN {} ELSE (@ \ DOMAIN e.change) \union told]
    BY <1>2 DEF Answer, Tell
  <2>4. viewed' \in [Player -> SUBSET Item]
    <3> HIDE DEF told
    <3> QED BY <2>1, <2>2, <2>3 DEF CountsInv
  <2> QED BY <1>2, <2>4 DEF Answer, CountsInv, accountVars
<1>3. CASE SaveFails(c)
  BY <1>3 DEF SaveFails, handlerVars, CountsInv, accountVars
<1> QED
  BY <1>1, <1>2, <1>3, ChangeCounts
  DEF HandlerStep, SetPresence, RegisterOnline, UpdatePresence, SaveWeaponLoadout,
      SaveOutfitLoadout, SaveLoadout, UpdateItemsV0, UpdateItemV4, SavePlayerData,
      SaveWholePlayerData

LEMMA NextCounts ==
  ASSUME CountsInv, ColumnsInv, [Next]_vars
  PROVE  CountsInv'
<1>1. ASSUME NEW l \in Login, LoginStep(l)
      PROVE  CountsInv'
  <2>1. UNCHANGED <<handlerVars, bans, restarts, banned>>
    BY <1>1 DEF LoginStep, LookupPlayerByProvider, ReadToCreate, SaveCreated, Link, Refuse,
       Authenticate, LoginFails
  <2>2. logins' \in [Login -> 0..MaxLogins]
    <3>1. \/ UNCHANGED logins
          \/ logins[l] < MaxLogins /\ logins' = [logins EXCEPT ![l] = @ + 1]
      BY <1>1 DEF LoginStep, LookupPlayerByProvider, ReadToCreate, SaveCreated, Link, Refuse,
         Authenticate, LoginFails
    <3> QED BY <3>1, AccountsAssumption DEF CountsInv
  <2> QED BY <2>1, <2>2 DEF handlerVars, CountsInv
<1>2. CASE ChangeBan
  <2>1. bans' \in [Player -> Ban] /\ banned' \in 0..MaxBans
    BY <1>2, AccountsAssumption DEF ChangeBan, CountsInv
  <2> QED BY <1>2, <2>1 DEF ChangeBan, handlerVars, CountsInv
<1>3. CASE Restart
  <2>1. restarts' \in 0..MaxRestarts
    BY <1>3, AccountsAssumption DEF Restart, CountsInv
  <2> QED BY <1>3, <2>1 DEF Restart, handlerVars, CountsInv
<1>4. CASE UNCHANGED vars
  BY <1>4 DEF vars, handlerVars, accountVars, CountsInv
<1> QED BY <1>1, <1>2, <1>3, <1>4, HandlerCounts DEF Next

\* Every variable keeps its type.
THEOREM AccountsTypeOK == Spec => []TypeOK
<1>1. Init => CountsInv
  BY PlayerHandlersAssumption, AccountsAssumption DEF Init, HandlersInit, CountsInv, Ban
<1>2. CountsInv /\ ColumnsInv /\ ShownInv /\ [Next]_vars => CountsInv'
  BY NextCounts
<1>3. IInv /\ ColumnsInv /\ ShownInv /\ CountsInv => TypeOK
  <2> SUFFICES ASSUME IInv, ColumnsInv, ShownInv, CountsInv PROVE TypeOK
    OBVIOUS
  <2>1. \A p \in Player, f \in Field : IsColumn(f, GetField(p, f)) /\ IsColumn(f, kept[p][f])
    BY DEF ColumnsInv, TablesInv
  <2>2. \A a \in Actor : edit[a] = NoEdit \/
          /\ edit[a].player \in Player
          /\ edit[a].field \in Field
          /\ IsColumn(edit[a].field, edit[a].column)
          /\ edit[a].stale \in BOOLEAN
    BY DEF ColumnsInv, CopyTyped
  <2>3. /\ providers \in [Player -> Player \union {NoPlayer}]
        /\ login \in [Login -> [pc : {"idle", "create", "save", "link", "ban"},
                                player : Player \union {NoPlayer}, step : 0..Len(Created)]]
        /\ tokens \subseteq Player
    BY CreatedFacts DEF IInv, Shape, LinksHold
  <2> QED BY <2>1, <2>2, <2>3 DEF CountsInv, ShownInv, TypeOK
<1> QED BY <1>1, <1>2, <1>3, AccountsInductive, ColumnsInductive, PTL DEF Spec

\* No two logins of one player are under way at once.
OneAtATime ==
  \A l, m \in Login : l # m /\ login[l].player = login[m].player => login[l].player = NoPlayer

\* A login that creates has a player without a token; nobody else has a copy of a profile.
NamesInv ==
  /\ \A l \in Login : login[l].pc \in {"create", "save", "link"} => login[l].player \notin tokens
  /\ \A a \in Actor : edit[a] # NoEdit /\ edit[a].field = "profile" =>
       a \in Login /\ login[a].pc = "save"

LEMMA ChangeKeepsNames ==
  ASSUME IInv, NamesInv, NEW c \in Conn, NEW f, NEW change, Change(c, f, change),
         f # "profile", UNCHANGED accountVars
  PROVE  NamesInv'
<1>1. /\ edit'[c].field = f
      /\ \A a \in Actor : a # c => edit'[a] = edit[a]
  BY AccountsAssumption DEF Change, Edit, IInv, Shape
<1> QED BY <1>1 DEF NamesInv, accountVars

LEMMA HandlerKeepsNames ==
  ASSUME IInv, NamesInv, NEW c \in Conn, HandlerStep(c), UNCHANGED accountVars
  PROVE  NamesInv'
<1>1. ASSUME NEW i, NEW flag, UpdateItemV4Skips(c, i, flag)
      PROVE  NamesInv'
  BY <1>1 DEF UpdateItemV4Skips, dbVars, accountVars, NamesInv
<1>2. CASE Answer(c)
  <2>1. \A a \in Actor : edit'[a] # NoEdit =>
          edit[a] # NoEdit /\ edit'[a].field = edit[a].field
    BY <1>2, SaveKeeps, AccountsAssumption DEF Answer
  <2> QED BY <2>1 DEF NamesInv, accountVars
<1>3. CASE SaveFails(c)
  <2>1. \A a \in Actor : edit'[a] \in {NoEdit, edit[a]}
    BY <1>3 DEF SaveFails, Discard, IInv, Shape
  <2> QED BY <2>1 DEF NamesInv, accountVars
<1> QED
  BY <1>1, <1>2, <1>3, ChangeKeepsNames
  DEF HandlerStep, SetPresence, RegisterOnline, UpdatePresence, SaveWeaponLoadout,
      SaveOutfitLoadout, SaveLoadout, UpdateItemsV0, UpdateItemV4, SavePlayerData,
      SaveWholePlayerData

LEMMA LoginKeepsNames ==
  ASSUME IInv, NamesInv, OneAtATime, NEW l \in Login, LoginStep(l)
  PROVE  NamesInv'
<1>0. l \in Actor /\ \A m \in Login : m \in Actor
  BY AccountsAssumption
<1>1. ASSUME NEW p \in Player, LookupPlayerByProvider(l, p)
      PROVE  NamesInv'
  <2>1. login'[l] = [pc |-> IF NoLink(p) THEN "create" ELSE "ban", player |-> p, step |-> 1]
    BY <1>1 DEF LookupPlayerByProvider, IInv, Shape
  <2>2. \A m \in Login : m # l => login'[m] = login[m]
    BY <1>1 DEF LookupPlayerByProvider, IInv, Shape
  <2>3. NoLink(p) => p \notin tokens
    BY AccountsAssumption DEF NoLink, IInv, LinksHold
  <2>4. login[l].pc = "idle" /\ UNCHANGED <<edit, tokens>>
    BY <1>1 DEF LookupPlayerByProvider, NoLogin, dbVars
  <2> QED BY <1>0, <2>1, <2>2, <2>3, <2>4 DEF NamesInv
<1>2. CASE ReadToCreate(l)
  <2>1. /\ login[l].pc = "create" /\ login'[l].pc = "save" /\ login'[l].player = login[l].player
        /\ \A m \in Login : m # l => login'[m] = login[m]
        /\ UNCHANGED tokens
    BY <1>2 DEF ReadToCreate, GoesOn, IInv, Shape
  <2>2. \A a \in Actor : a # l => edit'[a] = edit[a]
    BY <1>2 DEF ReadToCreate, Edit, IInv, Shape
  <2> QED BY <1>0, <2>1, <2>2 DEF NamesInv
<1>3. CASE SaveCreated(l)
  <2>1. /\ login[l].pc = "save" /\ login'[l].player = login[l].player
        /\ \A m \in Login : m # l => login'[m] = login[m]
        /\ UNCHANGED tokens
    BY <1>3 DEF SaveCreated, GoesOn, IInv, Shape
  <2>2. /\ edit'[l] = NoEdit
        /\ \A a \in Actor : edit'[a] # NoEdit => edit[a] # NoEdit /\ edit'[a].field = edit[a].field
    BY <1>0, <1>3, SaveKeeps DEF SaveCreated
  <2> QED BY <1>0, <2>1, <2>2 DEF NamesInv
<1>4. CASE Link(l)
  <2>1. /\ login[l].pc = "link" /\ login'[l].pc = "ban"
        /\ \A m \in Login : m # l => login'[m] = login[m]
        /\ UNCHANGED <<edit, tokens>>
    BY <1>4 DEF Link, GoesOn, dbVars, IInv, Shape
  <2> QED BY <2>1 DEF NamesInv
<1>5. CASE Refuse(l) \/ Authenticate(l)
  <2>1. /\ login'[l].pc = "idle" /\ login[l].pc = "ban"
        /\ \A m \in Login : m # l => login'[m] = login[m]
        /\ UNCHANGED edit /\ tokens' \subseteq tokens \union {login[l].player}
    BY <1>5 DEF Refuse, Authenticate, Ends, NoLogin, dbVars, IInv, Shape
  <2>2. login[l].player \in Player
    BY <2>1 DEF IInv, LoginsSave, LoginSaves
  <2>3. \A m \in Login : m # l => login[m].player # login[l].player
    BY <2>2, AccountsAssumption DEF OneAtATime
  <2> QED BY <2>1, <2>3 DEF NamesInv
<1>6. CASE LoginFails(l)
  <2>1. /\ login'[l].pc = "idle"
        /\ \A m \in Login : m # l => login'[m] = login[m]
        /\ UNCHANGED tokens
    BY <1>6 DEF LoginFails, Ends, NoLogin, IInv, Shape
  <2>2. /\ edit'[l] = NoEdit
        /\ \A a \in Actor : a # l => edit'[a] = edit[a]
    BY <1>0, <1>6 DEF LoginFails, Discard, dbVars, IInv, Shape
  <2> QED BY <1>0, <2>1, <2>2 DEF NamesInv
<1> QED BY <1>1, <1>2, <1>3, <1>4, <1>5, <1>6 DEF LoginStep

LEMMA NextKeepsNames ==
  ASSUME IInv, NamesInv, OneAtATime, [Next]_vars
  PROVE  NamesInv'
<1>1. CASE ChangeBan
  BY <1>1 DEF ChangeBan, dbVars, NamesInv
<1>2. CASE Restart
  BY <1>2 DEF Restart, LoseCopies, NoLogin, NamesInv
<1>3. CASE UNCHANGED vars
  BY <1>3 DEF vars, dbVars, accountVars, NamesInv
<1> QED BY <1>1, <1>2, <1>3, LoginKeepsNames, HandlerKeepsNames DEF Next

NameStays ==
  \A p \in tokens : GetField(p, "profile")'.discriminator = GetField(p, "profile").discriminator

LEMMA NamesStay ==
  ASSUME IInv, ColumnsInv, NamesInv, [Next]_vars
  PROVE  NameStays
<1>1. ColumnsStep
  BY NextIsColumnsStep
<1>2. CASE UNCHANGED players
  BY <1>2, SameTable DEF NameStays
<1>3. ASSUME NEW a \in Actor, SetField(a)
      PROVE  NameStays
  <2>1. \A p \in Player, f \in Field :
          GetField(p, f)' = IF p = edit[a].player /\ f = edit[a].field THEN edit[a].column
                            ELSE GetField(p, f)
    BY <1>3, SaveWrites
  <2>2. edit[a].field = "profile" => edit[a].player \notin tokens
    BY <1>3, CreatedFacts DEF SetField, NamesInv, IInv, LoginsSave, LoginSaves
  <2>3. tokens \subseteq Player /\ "profile" \in Field
    BY DEF IInv, LinksHold, Field
  <2> QED BY <2>1, <2>2, <2>3 DEF NameStays
<1> QED BY <1>1, <1>2, <1>3 DEF ColumnsStep, Reads, Edit, Drops, Saves

\* While no two logins of one player are under way at once, as in any behaviour of one login
\* thread, whoever has a token keeps his discriminator.
THEOREM NameIsKeptHolds == Spec /\ []OneAtATime => NameIsKept
<1>1. Init => NamesInv
  BY AccountsAssumption DEF Init, DbInit, NoLogin, NamesInv
<1>2. IInv /\ NamesInv /\ OneAtATime /\ [Next]_vars => NamesInv'
  BY NextKeepsNames
<1>3. IInv /\ ColumnsInv /\ ShownInv /\ NamesInv /\ [Next]_vars => [NameStays]_vars
  BY NamesStay
<1>4. NameIsKept <=> [][NameStays]_vars
  BY DEF NameIsKept, NameStays
<1> QED BY <1>1, <1>2, <1>3, <1>4, AccountsInductive, ColumnsInductive, PTL DEF Spec
=============================================================================
