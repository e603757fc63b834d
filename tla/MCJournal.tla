----------------------------- MODULE MCJournal -----------------------------
(***************************************************************************)
(* Instances of the settings journal.  Numbers end at Erased = 6, so the   *)
(* sequence counter reaches its top; a sector of 13 to 16 words holds two  *)
(* or three records of five or six words.                                  *)
(***************************************************************************)
EXTENDS Journal

\* Payloads of several lengths: one ends in a word that cannot be told from
\* erased flash, one has the magic word in it (a Totem called TTM1), and one
\* is the payload Save refuses.
Mixed == {<<Erased>>, <<1>>, <<2, Erased>>, <<2, Magic, 0>>}

Plain == {<<1>>, <<2, 3>>}

WithMagic == {<<1>>, <<2, Magic, 0>>}

\* What a previous firmware, or noise, may have left: a header with any
\* sequence number, length and checksum, words after it, and a magic word
\* beyond an erased gap.
Noise ==
    {[i \in 0 .. Size-1 |->
        CASE i = 0 -> Magic [] i = 1 -> w[1] [] i = 2 -> w[2] [] i = 3 -> w[3]
          [] i = 4 -> w[4] [] i = 5 -> w[5] [] i = Size - HeaderLen - 1 -> w[6]
          [] OTHER -> Erased] :
      w \in {3, Erased} \X {0, 1, MaxRecord + 1, Erased} \X {0, Sum(<<1>>), Erased}
            \X {Erased, Magic, 1} \X {Erased, Magic, 1} \X {Erased, Magic}}

\* Resets only, over payloads of every kind; and a driver that fails, over a
\* sector that was used before.
UsesChecked ==
    {[sectors |-> {Blank}, payloads |-> Mixed, faults |-> {}],
     [sectors |-> Noise, payloads |-> Plain, faults |-> AllFaults]}

UsesMagic == {[sectors |-> {Blank}, payloads |-> WithMagic, faults |-> {"write"}]}
=============================================================================
