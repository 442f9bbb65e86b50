------------------------------ MODULE MCStatsd ------------------------------
(* Inputs: well-formed datagrams and everything one edit away from them. *)
EXTENDS Statsd, SequencesExt

Alphabet == {"k", ".", " ", ":", "0", "1", "-", "|", "c", "m", "s", "@", "nl", "nul"}

Template == {
  <<"k", ":", "1", "|", "c", "|", "@", "0", ".", "1">>,
  <<"k", ".", "k", ":", "-", "1", ".", "0", "|", "m", "s">>,
  <<"k", ":", "1", "|", "g", "nl", "k", ":", "+", "1", "0", "|", "C", "nl">>,
  <<"k", ":", "|", "h", "|", "@", "1">>}

Edits(t) ==
  {t} \cup {RemoveAt(t, n) : n \in DOMAIN t}
      \cup {[t EXCEPT ![n] = c] : n \in DOMAIN t, c \in Alphabet}
      \cup {InsertAt(t, n, c) : n \in 1 .. (Len(t) + 1), c \in Alphabet}

EditedDatagram == UNION {Edits(t) : t \in Template}

FewDatagrams == {
  <<"k", ":", "1", "|", "c">>,
  <<"k", ":", "1", "|", "c", "nl", "k", " ", "nl", "k", ":", "1", "|", "c">>,
  <<"nl", "k", ":", "1", "|", "c">>,
  <<"k">>,
  <<>>}

MCDatagram == <<EditedDatagram, FewDatagrams>>
MCMaxReads == <<1, 3>>
=============================================================================
