----------------------------- MODULE MCAccounts -----------------------------
(* Small instances of Accounts for TLC. *)
EXTENDS Accounts, TLC

CONSTANTS c1, c2, p1, w1, w2, i1, g1, g2, r1, e1, e2, d0, d1

Threads == Conn \union Login

AllOfOne == [c \in Conn |-> p1]

TwoAndOne == c1 :> 2 @@ c2 :> 1
OneForEach == [c \in Conn |-> 1]

\* What the resource files hold: nothing is viewed, and somebody else's loadout.
Defaults ==
  LET loadouts == w1 :> [playerId |-> Nobody, loadout |-> g1]
  IN  [presence |-> [basicPresence |-> "Offline", presenceContext |-> g1, version |-> 0],
       weapons |-> loadouts,
       outfits |-> loadouts,
       inventory |-> "version" :> 0 @@ i1 :> [viewed |-> FALSE, activeEndorsement |-> e1],
       data |-> [playerId |-> Nobody, matchmakingPlayerId |-> Nobody, data |-> g1, rest |-> r1],
       profile |-> [playerId |-> Nobody, discriminator |-> d0]]

-----------------------------------------------------------------------------
(* What the conversions behind the handlers do, over bounded inputs. *)

Steam == INSTANCE SteamAuthTicket
Settings == INSTANCE SettingsString

\* A token as Steam writes it: a size, the GC token with the account in it, the rest.
TokenOf(size, account, universe, type, rest) ==
  LET bytes == size \o <<7, 0, 255, 1, 2, 3, 4, 5>> \o account \o <<0, type, universe>>
                    \o <<0, 0, 0, 0>>
  IN  [i \in 1 .. 48 |-> IF i % 2 = 1 THEN bytes[(i + 1) \div 2] \div 16
                                      ELSE bytes[i \div 2] % 16] \o rest

\* An account's tokens name it, whatever else they hold and however long they are; a token of
\* another kind, one cut off and one with a character that is no digit name nobody.
ASSUME TokensNameTheirAccounts ==
  \A account \in [1 .. 5 -> {0, 9, 255}], rest \in {<<>>, <<Steam!NotHex>>} :
    LET token == TokenOf(<<20, 0, 0, 0>>, account, 1, 16, rest)
        none == Steam!NoSteamId
    IN  /\ Steam!ExtractSteamId64(token) = account \o <<0, 16, 1>>
        /\ \A i \in {1, 25, 48} :
             /\ Steam!ExtractSteamId64([token EXCEPT ![i] = Steam!NotHex]) = none
             /\ Steam!ExtractSteamId64(SubSeq(token, 1, i - 1)) = none
        /\ \A universe \in {0, 1, 2}, type \in {0, 16, 32}, size \in {<<20, 0, 0, 0>>, <<0, 0, 0, 20>>} :
             Steam!ExtractSteamId64(TokenOf(size, account, universe, type, rest)) # none
               <=> size[1] = 20 /\ universe = 1 /\ type = 16

Read(fields) == Settings!ReadPayload(Settings!Body(fields))
Payload(fields) == Settings!Text(fields) \o <<"}">>

\* Settings are read as they were sent, unless a string among them holds a quote, when the
\* payload is no longer JSON, or a backslash, which is lost.
ASSUME SettingsReadAsSent ==
  LET sent == UNION {[1 .. n -> Settings!Field] : n \in 0 .. 2}
      lost == [f \in Settings!Field |-> IF f = "path" THEN "plain" ELSE f]
  IN  \A fields \in sent :
        IF \E i \in DOMAIN fields : fields[i] = "quoting"
        THEN \A other \in sent : Read(fields) # Payload(other)
        ELSE Read(fields) = Payload([i \in DOMAIN fields |-> lost[fields[i]]])
=============================================================================
