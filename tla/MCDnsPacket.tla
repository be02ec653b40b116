------------------------------ MODULE MCDnsPacket ------------------------------
EXTENDS DnsPacket, Bitwise

Rec(section, name, type, data) == [section |-> section, name |-> name, type |-> type, data |-> data]

xz == <<"x", "z">>
xy == <<"x", "y">>
yy == <<"y", "y">>
wxz == <<"w", "x", "z">>

(* Names that share what they end in, and names with a label twice.         *)
MCRecords ==
  {Rec(QD, xz, "A", <<>>), Rec(QD, xy, "MX", <<>>),
   Rec(AN, xy, "A", <<"1">>), Rec(AN, Root, "CNAME", <<xy>>), Rec(AN, xy, "MX", <<10, wxz>>),
   Rec(NS, <<"z">>, "NS", <<yy>>), Rec(NS, <<"w">>, "NS", << <<"x">> >>),
   Rec(AR, yy, "A", <<"2">>), Rec(AR, xy, "A", <<"3">>), OPT}

(* dns_k_shuffle16() over halves of three bits.                             *)
Permutor == INSTANCE DnsPermutor WITH Xor <- ^^, Half <- 8, Length <- 64, Limit <- 64, Rounds <- 8
Box == [h \in 0..7 |-> (5 * h + 3) % 8]
Shuffled == [n \in 0..63, seed \in 0..2 |-> Permutor!Shuffle(Box, [k \in 1..4 |-> seed], n)]
MCShuffle16(n, seed) == Shuffled[n, seed]
==============================================================================
