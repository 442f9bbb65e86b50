--------------------------- MODULE MCSecureStats ---------------------------
EXTENDS SecureStats

Tokens(stampSet, hashSet) ==
  {[timestamp |-> ts, ha |-> h[1], hb |-> h[2]] : ts \in stampSet, h \in hashSet}

(* of 5 bits: {0, 1}, {1, 3}, and {0, 3} by the wrap of a 4 bit word *)
MCToken == Tokens({1, 3, 4}, {<<0, 1>>, <<1, 2>>, <<15, 4>>})
(* Two seconds that share a filter, and one that does not. *)
MCFewTokens == Tokens({1}, {<<0, 1>>, <<1, 2>>, <<15, 4>>}) \cup Tokens({2, 3}, {<<15, 4>>})

(* bound: datagrams with the clock set back, or ticks with the increments that make a
   counter wrap, or ticks with two increments, or ticks and a request with one. *)
Scene ==
  \/ ticks = 0 /\ requests = 0
  \/ clock = Start /\ packets = 0 /\ requests = 0
  \/ backs = 0 /\ requests = 0 /\ incs <= 2
  \/ backs = 0 /\ incs <= 1

MCNext ==
  \/ SecurePacket /\ Scene'
  \/ OtherWorker /\ Scene'
  \/ Clock /\ Scene'
  \/ InternalSample /\ Scene'
  \/ HttpRequest /\ Scene'

MCSpec == SecureInit /\ [][MCNext]_allVars
=============================================================================
