------------------------------- MODULE MCDnsConf -------------------------------
EXTENDS DnsConf, Bitwise

(* Addresses that are right and wrong and the default, more servers than    *)
(* there are places for, a search list that is too long, and words that are *)
(* not known.                                                               *)
MCResolvLines ==
  {[key |-> "nameserver", words |-> <<w>>] : w \in {"s1", "s2", Wildcard, BadAddress}}
  \cup {[key |-> "search", words |-> <<"d1", "d2", "d3">>], [key |-> "domain", words |-> <<"d1">>],
        [key |-> "lookup", words |-> <<"file", "yp", "cache">>], [key |-> "lookup", words |-> <<"file">>],
        [key |-> "family", words |-> <<"inet6">>],
        [key |-> "interface", words |-> <<"a1">>],
        [key |-> "sortlist", words |-> <<"a1">>]}

MCOptionLines ==
  {[key |-> "options", words |-> w] : w \in {
     <<<<"rotate", 1>>>>, <<<<"ndots", 0>>, <<"ndots", 2>>>>, <<<<"inet6", 1>>, <<"ndots", 0>>>>}}

MCNssEntries ==
  LET item(s, c) == [source |-> s, criteria |-> c]
  IN  {<<item("files", <<>>), item("dns", <<>>)>>,
       <<item("files", <<>>), item("mdns", <<<<"NOTFOUND", "return">>>>), item("dns", <<>>)>>,
       <<item("dns", <<<<"SUCCESS", "perhaps">>, <<"UNAVAIL", "return">>, <<"TRYAGAIN", "return">>>>),
         item("files", <<<<"FULL", "return">>, <<"NOTFOUND", "return">>>>)>>,
       <<item("dns", <<<<"NOTFOUND", "return">>, <<"NOTFOUND", "perhaps">>>>),
         item("nis", <<<<"NOTFOUND", "return">>>>), item("files", <<<<"SUCCESS", "continue">>>>)>>,
       <<item("nis", <<>>)>>, <<>>}

MCHostsLines ==
  {[addr |-> "h1", names |-> <<"n1", "n2">>], [addr |-> "h2", names |-> <<"n2">>],
   [addr |-> "h1", names |-> <<"n3">>],
   [addr |-> BadAddress, names |-> <<"n1">>], [addr |-> "h1", names |-> <<>>]}

MCSearchNames == {[anchored |-> TRUE, dots |-> 1]} \cup {[anchored |-> FALSE, dots |-> n] : n \in 0..2}

(* dns_k_shuffle16() over halves of three bits, as for DnsResolver.         *)
Permutor == INSTANCE DnsPermutor WITH Xor <- ^^, Half <- 8, Length <- 64, Limit <- 64, Rounds <- 8
Box == [h \in 0..7 |-> (5 * h + 3) % 8]
Shuffled == [n \in 0..15, seed \in 0..2 |-> Permutor!Shuffle(Box, [k \in 1..4 |-> seed], n)]
MCShuffleOf(n, seed) == Shuffled[n, seed]
==============================================================================
