------------------------------ MODULE MCStdio -------------------------------
(***************************************************************************)
(* Instance of Stdio: numbers of eight bits, formats of up to two rounds.  *)
(***************************************************************************)
EXTENDS Stdio

Conv(c, mods, arg) == [c |-> c, mods |-> mods, arg |-> arg]
End == Conv("end", <<>>, 0)
Mods == {<<>>, <<4>>, <<0, 4>>, <<Minus, 4>>, <<Space>>, <<Space, 4>>, <<Minus, 0, 2>>, <<Ell, 1, 0>>}
Numbers == {0, 7, 42, 127, 128, 255}
Convs == {Conv(c, ms, v) : c \in {"d", "u", "x"}, ms \in Mods, v \in Numbers}
         \cup {Conv("p", <<>>, v) : v \in Numbers}
         \cup {Conv("s", ms, t) : ms \in {<<>>, <<4>>, <<Minus, 4>>}, t \in {<<>>, <<30, 31>>}}
         \cup {Conv("%", <<>>, 0), Conv("bad", <<>>, 0)}
Call1(f, stream, args) == [f |-> f, fd |-> stream, args |-> args, size |-> 2]
MCCalls ==
    {Call1("fprintf", 1, << [text |-> <<>>, conv |-> c] >>) : c \in Convs}
    \cup {Call1("fprintf", stream, << [text |-> <<30>>, conv |-> Conv("d", <<2>>, 250)],
                                      [text |-> <<31, 32>>, conv |-> End] >>) : stream \in 0 .. 2}
    \cup {Call1(f, 2, << [text |-> <<30, 31>>, conv |-> Conv("%", <<>>, 0)] >>)
              : f \in {"dprintf", "swi_dprintf"}}
    \cup {Call1(f, stream, <<30, 31, 32>>) : f \in {"fputs", "write", "fwrite"}, stream \in 0 .. 2}
    \cup {Call1("puts", 1, text) : text \in {<<>>, <<30, 31>>}}
    \cup {Call1("fputc", stream, <<30>>) : stream \in 0 .. 2}
=============================================================================
