---------------------------- MODULE SteamAuthTicket ----------------------------
(***************************************************************************)
(* The Steam id in a session ticket, as AuthenticateHandler takes it from  *)
(* the providerToken.  A character of the token is its value as a          *)
(* hexadecimal digit of either case; an id is its eight bytes, the lowest  *)
(* first (a number of 64 bits, printed in decimal, in the code).           *)
(***************************************************************************)
EXTENDS Naturals, Sequences

NotHex == 16
HexNibble == 0 .. NotHex

HeaderBytes == 24
RequiredHexChars == 2 * HeaderBytes

NoSteamId == <<>>

Bytes(token) == [i \in 1 .. HeaderBytes |-> 16 * token[2 * i - 1] + token[2 * i]]

\* The length of the GC token, the lowest byte first.
ExpectedGcTokenSize == <<20, 0, 0, 0>>

\* An account of one person ...
Individual(steamId) == steamId[7] \div 16 = 1
\* ... in the public universe.
Public(steamId) == steamId[8] = 1

Accepted(token) ==
  /\ Len(token) >= RequiredHexChars
  /\ \A i \in 1 .. RequiredHexChars : token[i] # NotHex
  /\ SubSeq(Bytes(token), 1, 4) = ExpectedGcTokenSize
  /\ Public(SubSeq(Bytes(token), 13, 20))
  /\ Individual(SubSeq(Bytes(token), 13, 20))

ExtractSteamId64(token) ==
  IF Accepted(token) THEN SubSeq(Bytes(token), 13, 20) ELSE NoSteamId
=============================================================================
