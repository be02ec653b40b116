-------------------------------- MODULE DnsConf --------------------------------
(***************************************************************************)
(* How a stub resolver comes to be and goes (dns_res_stub, dns_res_close): *)
(* resolv.conf, nsswitch.conf and the hosts file are read line by line,    *)
(* the table of name servers is made, and the resolver takes over what has *)
(* been made.  Each allocation, open() and the socket may fail, and then   *)
(* everything is given back.  What was read is put to use by the names     *)
(* dns_resconf_search() gives to a resolver, one with each call.           *)
(*                                                                         *)
(* Words are strings, without their case.  An option is <<name, value>>.   *)
(* A source of nsswitch.conf is [source, criteria], the criteria pairs     *)
(* <<status, action>>; anything but a word or a group of criteria ends an  *)
(* entry and is left out.  The names that DnsSocket has too, such as Init, *)
(* are others here (ConfInit), so that DnsPartsProofs can be about both.   *)
(***************************************************************************)
EXTENDS DnsHints, FiniteSets, SequencesExt

CONSTANTS Domains,       \* what dns_d_cleave() may leave of gethostname()
          ResolvLines,   \* lines of resolv.conf, [key, words],
          OptionLines,   \* those with the key "options",
          NssEntries,    \* "hosts:" entries of nsswitch.conf
          HostsLines,    \* and lines of the hosts file, [addr, names]
          SearchNames,     \* names to search for, [anchored, dots]
          MaxLines,      \* bound: lines read in all
          MaxServers,    \* lengthof(nameserver): 3
          MaxSearch,     \* lengthof(search): 4
          MaxWords,      \* words of a line, the keyword included: 6
          MaxLookup,     \* sizeof(lookup): 36
          MaxTokens      \* lengthof(cf->token): 16

BadAddress == "bad"
Wildcard == "0.0.0.0"
Loopback == "127.0.0.1"
Itself == ""

ASSUME ConfAssumption ==
  /\ MaxLines \in Nat /\ MaxServers \in 1..Slots /\ MaxSearch \in Nat \ {0}
  /\ MaxWords \in Nat \ {0, 1} /\ MaxLookup \in Nat \ {0, 1, 2}
  /\ MaxTokens \in Nat \ {0} /\ MaxTokens % 2 = 0
  /\ \A l \in ResolvLines \cup OptionLines : l.words # <<>>
  /\ Domains \subseteq STRING
  /\ ResolvLines \subseteq [key : STRING, words : Seq(STRING)]
  /\ OptionLines \subseteq [key : {"options"}, words : Seq(STRING \X Nat)]
  /\ SearchNames \subseteq [anchored : BOOLEAN, dots : Nat]

VARIABLES stage,
          heap, count,   \* what has been allocated, and the reference counts
          mine,          \* what dns_res_stub() has pointers to
          held,          \* what the resolver has pointers to
          conf, taken,   \* resolv.conf, and the name servers taken from it
          entries,       \* of the hosts file
          table,         \* of name servers
          qname, search,     \* dns_resconf_search(): the name, and where it is
          listed, tried  \* history: what the files said, and the names given

memory == <<heap, count, mine, held>>
data == <<conf, taken, entries, table, listed>>
confVars == <<stage, memory, data, qname, search, tried>>

Objects == {"resconf", "hosts", "hints", "R"}
NoReference == [o \in Objects |-> 0]

-----------------------------------------------------------------------------
(* Reference counts.  Closing something is to release it and to free it     *)
(* with the last reference; S is closed, each once.  The definitions below  *)
(* named Fault... are faults a change of the code could introduce: each     *)
(* makes a property fail, and no specification uses them.                   *)

Alloc(o) == heap' = heap \cup {o} /\ count' = [count EXCEPT ![o] = 1]
Acquire(S) == count' = [o \in Objects |-> IF o \in S THEN count[o] + 1 ELSE count[o]]
CloseAll(S) ==
  /\ count' = [o \in Objects |-> IF o \in S THEN count[o] - 1 ELSE count[o]]
  /\ heap' = heap \ {o \in S : count[o] = 1}

(* The end of dns_res_stub(), where S is closed besides.                    *)
Epilog(S, result) ==
  /\ count' = [o \in Objects |-> count[o] - (IF o \in S THEN 1 ELSE 0) - (IF o \in mine THEN 1 ELSE 0)]
  /\ heap' = heap \ {o \in S \cup mine : count'[o] = 0}
  /\ mine' = {} /\ stage' = result

-----------------------------------------------------------------------------
(* resolv.conf                                                              *)

DefaultOptions ==
  [edns0 |-> 0, ndots |-> 1, timeout |-> 5, attempts |-> 2, rotate |-> 0,
   recurse |-> 0, smart |-> 0, tcp |-> 0]

(* dns_resconf_open()                                                       *)
OpenResconf ==
  /\ stage = "start"
  /\ \/ /\ Alloc("resconf") /\ stage' = "resolv.conf"
        /\ \E d \in Domains : conf' = [conf EXCEPT !.search = <<d>>]
        /\ UNCHANGED <<mine, held>>
     \/ Epilog({}, "failed") /\ UNCHANGED <<held, conf>>
  /\ UNCHANGED <<taken, entries, table, listed, qname, search, tried>>

(* dns_resconf_loadpath() and dns_nssconf_loadpath(): a file that does not  *)
(* exist is one without lines; any other error closes what has been made.   *)
ConfFileFails ==
  /\ \/ stage = "resolv.conf" /\ taken = 0 /\ listed.lines = 0
     \/ stage = "nsswitch.conf" /\ listed.sources = <<>>
  /\ Epilog({"resconf"}, "failed")
  /\ UNCHANGED <<held, data, qname, search, tried>>

(* The words a line is read into besides the keyword, and those places of   *)
(* an array that words written to it leave as they are.                     *)
Words(line) == SubSeq(line.words, 1, IF Len(line.words) < MaxWords THEN Len(line.words) ELSE MaxWords - 1)
UpTo(s, n) == SubSeq(s, 1, IF Len(s) < n THEN Len(s) ELSE n)
Over(s, old) == s \o SubSeq(old, Len(s) + 1, Len(old))

LookupLetter == [w \in {"file", "bind", "cache"} |->
                   CASE w = "file" -> "f" [] w = "bind" -> "b" [] w = "cache" -> "c"]
Known(s, keywords) == SelectSeq(s, LAMBDA w : w \in keywords)
Letters(s) == LET known == Known(s, DOMAIN LookupLetter)
              IN  [k \in DOMAIN known |-> LookupLetter[known[k]]]

(* dns_resconf_pton() of the first word; the address is put into the place  *)
(* after those taken, the first of which is that of the default.            *)
Nameserver(addr) ==
  IF taken >= MaxServers \/ addr = BadAddress THEN UNCHANGED <<conf, taken>>
  ELSE /\ conf' = [conf EXCEPT !.nameserver = Append(SubSeq(@, 1, taken), addr)]
       /\ taken' = taken + 1

ResolvLine(line) ==
  LET words == Words(line)
  IN  CASE line.key = "nameserver" -> Nameserver(words[1])
        [] line.key \in {"domain", "search"} ->
             conf' = [conf EXCEPT !.search = UpTo(words, MaxSearch)] /\ UNCHANGED taken
        [] line.key = "lookup" ->
             conf' = [conf EXCEPT !.lookup = Over(UpTo(Letters(words), MaxLookup), @)]
             /\ UNCHANGED taken
        [] line.key = "family" ->
             conf' = [conf EXCEPT !.family = Over(UpTo(Known(words, {"inet4", "inet6"}), 3), @)]
             /\ UNCHANGED taken
        [] line.key = "interface" ->
             conf' = [conf EXCEPT !.iface = IF words[1] = BadAddress THEN @ ELSE words[1]]
             /\ UNCHANGED taken
        [] OTHER -> UNCHANGED <<conf, taken>>

(* Options that are not known are skipped, and the last one given holds.    *)
OptionLine(line) ==
  LET words == Words(line)
      last(o) == {k \in DOMAIN words : words[k][1] = o /\ \A j \in DOMAIN words :
                                         words[j][1] = o => j <= k}
  IN  conf' = [conf EXCEPT !.options =
                 [o \in DOMAIN @ |-> IF last(o) = {} THEN @[o] ELSE words[CHOOSE k \in last(o) : TRUE][2]]]

ReadResolv ==
  /\ stage = "resolv.conf" /\ listed.lines < MaxLines
  /\ \/ \E line \in ResolvLines :
          /\ ResolvLine(line)
          /\ listed' = [listed EXCEPT !.lines = @ + 1,
                          !.servers = IF line.key = "nameserver" /\ line.words[1] # BadAddress
                                      THEN Append(@, line.words[1]) ELSE @]
     \/ \E line \in OptionLines :
          OptionLine(line) /\ listed' = [listed EXCEPT !.lines = @ + 1] /\ UNCHANGED taken
  /\ UNCHANGED <<stage, memory, entries, table, qname, search, tried>>

ResolvDone ==
  /\ stage = "resolv.conf" /\ stage' = "nsswitch.conf"
  /\ UNCHANGED <<memory, data, qname, search, tried>>

-----------------------------------------------------------------------------
(* nsswitch.conf: a letter for a source and two for each of its criteria    *)

SourceLetter == [w \in {"files", "dns", "mdns"} |->
                   CASE w = "files" -> "f" [] w = "dns" -> "b" [] w = "mdns" -> "m"]
Statuses == {"SUCCESS", "NOTFOUND", "UNAVAIL", "TRYAGAIN"}
StatusLetter == [w \in Statuses |-> CASE w = "SUCCESS" -> "S" [] w = "NOTFOUND" -> "N"
                                      [] w = "UNAVAIL" -> "U" [] w = "TRYAGAIN" -> "T"]
ActionLetter == [w \in {"continue", "return"} |-> IF w = "continue" THEN "C" ELSE "R"]

DefaultAction == [s \in Statuses |-> IF s = "SUCCESS" THEN "return" ELSE "continue"]
ActionOf(status, word) == IF word \in DOMAIN ActionLetter THEN word ELSE DefaultAction[status]

(* dns_anyconf_scan(): the source and the criteria, while there are places  *)
(* for tokens; a status that finds the last one is given back.              *)
Criteria(item) == UpTo(item.criteria, (MaxTokens - 2) \div 2)

PairLetters(pair) ==
  IF pair[1] \in Statuses THEN <<StatusLetter[pair[1]], ActionLetter[ActionOf(pair[1], pair[2])]>>
  ELSE <<>>

(* A source is dropped when it is not known or the rest of the array has no *)
(* room for all of its tokens.                                              *)
FaultAddSource(lookup, item) ==
  LET criteria == Criteria(item)
  IN  IF MaxLookup - Len(lookup) < 2 * Len(criteria) + 2 THEN lookup
      ELSE (IF item.source \in DOMAIN SourceLetter THEN Append(lookup, SourceLetter[item.source])
            ELSE lookup)
           \o FlattenSeq([k \in DOMAIN criteria |-> PairLetters(criteria[k])])

AddSource(lookup, item) ==
  LET criteria == Criteria(item)
  IN  IF MaxLookup - Len(lookup) < 2 * Len(criteria) + 2
         \/ item.source \notin DOMAIN SourceLetter
      THEN lookup
      ELSE Append(lookup, SourceLetter[item.source])
           \o FlattenSeq([k \in DOMAIN criteria |-> PairLetters(criteria[k])])

(* The last entry counts, and not even that when it names no source.        *)
EntryLetters(entry) == FoldLeft(AddSource, <<>>, entry)

ReadNss ==
  /\ stage = "nsswitch.conf" /\ listed.lines < MaxLines
  /\ \E entry \in NssEntries :
       listed' = [listed EXCEPT !.lines = @ + 1, !.sources = <<entry>>]
  /\ UNCHANGED <<stage, memory, conf, taken, entries, table, qname, search, tried>>

NssDone ==
  LET lookup == IF listed.sources = <<>> THEN <<>> ELSE EntryLetters(listed.sources[1])
  IN  /\ stage = "nsswitch.conf" /\ stage' = "hosts"
      /\ mine' = mine \cup {"resconf"}
      /\ conf' = IF lookup = <<>> THEN conf ELSE [conf EXCEPT !.lookup = lookup]
      /\ UNCHANGED <<heap, count, held, taken, entries, table, listed, qname, search, tried>>

-----------------------------------------------------------------------------
(* The hosts file: dns_hosts_local().  An insertion may find no memory.     *)

OpenHosts ==
  /\ stage = "hosts"
  /\ \/ Alloc("hosts") /\ stage' = "hosts file" /\ UNCHANGED mine
     \/ Epilog({}, "failed")
  /\ UNCHANGED <<held, data, qname, search, tried>>

LineEntries(line) ==
  IF line.addr = BadAddress THEN <<>>
  ELSE [k \in DOMAIN line.names |-> [host |-> line.names[k], addr |-> line.addr, alias |-> k > 1]]

ReadHosts ==
  /\ stage = "hosts file" /\ listed.lines < MaxLines
  /\ \E line \in HostsLines :
       /\ listed' = [listed EXCEPT !.lines = @ + 1, !.hosts = Append(@, line)]
       /\ entries' = entries \o LineEntries(line)
  /\ UNCHANGED <<stage, memory, conf, taken, table, qname, search, tried>>

(* The file cannot be opened, or there is no memory for an entry.           *)
HostsFileFails ==
  /\ stage = "hosts file"
  /\ Epilog({"hosts"}, "failed") /\ entries' = <<>>
  /\ UNCHANGED <<held, conf, taken, table, listed, qname, search, tried>>

HostsDone ==
  /\ stage = "hosts file" /\ stage' = "hints"
  /\ mine' = mine \cup {"hosts"}
  /\ UNCHANGED <<heap, count, held, data, qname, search, tried>>

(* dns_hosts_query(): an alias answers for itself alone.                    *)
HostAddresses(name) == {e.addr : e \in {e \in Range(entries) : e.host = name}}
HostNames(addr) ==
  LET found == SelectSeq(entries, LAMBDA e : ~e.alias /\ e.addr = addr)
  IN  [k \in DOMAIN found |-> found[k].host]

-----------------------------------------------------------------------------
(* dns_hints_local(), which holds resolv.conf while it is at work           *)

HintsBegin ==
  /\ stage = "hints" /\ stage' = "hinting"
  /\ Acquire({"resconf"})
  /\ UNCHANGED <<heap, mine, held, data, qname, search, tried>>

(* No memory for the table.                                                 *)
HintsOpen ==
  /\ stage = "hinting" /\ "hints" \notin heap
  /\ \/ Alloc("hints") /\ UNCHANGED <<mine, stage>>
     \/ Epilog({"resconf"}, "failed")
  /\ UNCHANGED <<held, data, qname, search, tried>>

ServerOf(addr) == IF addr = Wildcard THEN Loopback ELSE addr

(* dns_hints_insert_resconf(); the first insertion allocates a zone.        *)
HintsInsert ==
  /\ stage = "hinting" /\ "hints" \in heap
  /\ \/ /\ table' = InsertResconf([k \in DOMAIN conf.nameserver |-> ServerOf(conf.nameserver[k])],
                                  conf.options.rotate = 1)
        /\ CloseAll({"resconf"}) /\ mine' = mine \cup {"hints"} /\ stage' = "open"
     \/ Epilog({"resconf", "hints"}, "failed") /\ UNCHANGED table
  /\ UNCHANGED <<held, conf, taken, entries, listed, qname, search, tried>>

-----------------------------------------------------------------------------
(* dns_res_open() acquires all before anything can fail, and the resolver   *)
(* gets its pointers last.                                                  *)

OpenAcquire ==
  /\ stage = "open" /\ stage' = "opening"
  /\ Acquire(mine)
  /\ UNCHANGED <<heap, mine, held, data, qname, search, tried>>

OpenMake ==
  /\ stage = "opening" /\ "R" \notin heap
  /\ \/ Alloc("R") /\ UNCHANGED <<mine, stage>>
     \/ Epilog({"resconf", "hosts", "hints"}, "failed")
  /\ UNCHANGED <<held, data, qname, search, tried>>

FaultOpenSocket ==
  /\ stage = "opening" /\ "R" \in heap
  /\ \/ held' = {"resconf", "hosts", "hints"} /\ Epilog({}, "ready")
     \/ /\ count' = [o \in Objects |-> count[o] - (IF o = "R" THEN 1 ELSE 3)]
        /\ heap' = {} /\ mine' = {} /\ held' = {} /\ stage' = "failed"
  /\ UNCHANGED <<data, qname, search, tried>>

OpenSocket ==
  /\ stage = "opening" /\ "R" \in heap
  /\ \/ held' = {"resconf", "hosts", "hints"} /\ Epilog({}, "ready")
     \/ held' = {} /\ Epilog({"R", "resconf", "hosts", "hints"}, "failed")
  /\ UNCHANGED <<data, qname, search, tried>>

(* dns_res_close()                                                          *)
CloseResolver ==
  /\ stage = "ready" /\ stage' = "closed"
  /\ CloseAll({"R"} \cup held) /\ held' = {}
  /\ UNCHANGED <<mine, data, qname, search, tried>>

-----------------------------------------------------------------------------
(* dns_resconf_search(), which goes on where it returned: "self" is before  *)
(* the name itself is looked at, "list" among the domains, and "leave" at   *)
(* the end.                                                                 *)

SearchStart == [at |-> "self", srchi |-> 0]

SubmitName ==
  /\ stage = "ready" /\ search.at \in {"none", "end"}
  /\ qname' \in SearchNames /\ search' = SearchStart /\ tried' = <<>>
  /\ UNCHANGED <<stage, memory, data>>

Yields(name, at) ==
  tried' = Append(tried, name) /\ search' = [search EXCEPT !.at = at]

FaultItselfFirst == qname.anchored \/ qname.dots > conf.options.ndots
ItselfFirst == qname.anchored \/ qname.dots >= conf.options.ndots
ItselfLast == qname.dots < conf.options.ndots
MoreDomains == search.srchi < Len(conf.search)

SearchNext ==
  /\ stage = "ready"
  /\ \/ /\ search.at = "self" /\ ItselfFirst
        /\ Yields(Itself, IF qname.anchored THEN "leave" ELSE "list")
     \/ /\ search.at = "list" \/ (search.at = "self" /\ ~ItselfFirst)
        /\ MoreDomains
        /\ tried' = Append(tried, conf.search[search.srchi + 1])
        /\ search' = [at |-> "list", srchi |-> search.srchi + 1]
     \/ /\ search.at = "list" \/ (search.at = "self" /\ ~ItselfFirst)
        /\ ~MoreDomains /\ ItselfLast
        /\ Yields(Itself, "leave")
     \/ /\ \/ search.at = "leave"
           \/ search.at = "list" /\ ~MoreDomains /\ ~ItselfLast
        /\ search' = [search EXCEPT !.at = "end"] /\ UNCHANGED tried
  /\ UNCHANGED <<stage, memory, data, qname>>

-----------------------------------------------------------------------------
(* The specification                                                        *)

ConfInit ==
  /\ stage = "start"
  /\ heap = {} /\ count = NoReference /\ mine = {} /\ held = {}
  /\ conf = [nameserver |-> <<Wildcard>>, search |-> <<>>, lookup |-> <<"b", "f">>,
             family |-> <<"inet4", "inet6">>, iface |-> Wildcard, options |-> DefaultOptions]
  /\ taken = 0 /\ entries = <<>> /\ table = <<>>
  /\ qname \in SearchNames /\ search = [at |-> "none", srchi |-> 0]
  /\ listed = [lines |-> 0, servers |-> <<>>, sources |-> <<>>, hosts |-> <<>>]
  /\ tried = <<>>

ConfNext ==
  \/ OpenResconf \/ ConfFileFails \/ ReadResolv \/ ResolvDone \/ ReadNss \/ NssDone
  \/ OpenHosts \/ ReadHosts \/ HostsFileFails \/ HostsDone
  \/ HintsBegin \/ HintsOpen \/ HintsInsert \/ OpenAcquire \/ OpenMake \/ OpenSocket
  \/ SubmitName \/ SearchNext \/ CloseResolver

ConfSpec == ConfInit /\ [][ConfNext]_confVars

-----------------------------------------------------------------------------
(* Properties                                                               *)

(* Who holds a reference to what: the callee at work, dns_res_stub() and    *)
(* the resolver.                                                            *)
AtWork ==
  CASE stage \in {"resolv.conf", "nsswitch.conf"} -> {"resconf"}
    [] stage = "hosts file" -> {"hosts"}
    [] stage = "hinting" -> {"resconf"} \cup (heap \cap {"hints"})
    [] stage = "opening" -> {"resconf", "hosts", "hints"} \cup (heap \cap {"R"})
    [] stage = "ready" -> {"R"}
    [] OTHER -> {}

(* Each reference count is the number of those who hold the object, and     *)
(* what is allocated is what somebody holds.  So wherever the start fails,  *)
(* in the middle of the third file or at the socket, and whenever the       *)
(* resolver is closed, all is freed, once, and nothing before its last use. *)
NothingLeaks ==
  \A o \in Objects :
    /\ count[o] = Cardinality({s \in {<<"work", AtWork>>, <<"stub", mine>>, <<"R", held>>} : o \in s[2]})
    /\ o \in heap <=> count[o] > 0

(* The resolver's name servers are those of resolv.conf that it has places  *)
(* for, in their order unless "rotate" shuffles them, the lines with a bad  *)
(* address left out, or else this host itself.                              *)
ServersAsListed ==
  LET wanted == IF listed.servers = <<>> THEN <<Loopback>>
                ELSE [k \in DOMAIN UpTo(listed.servers, MaxServers) |-> ServerOf(listed.servers[k])]
  IN  \A seed \in Seeds :
        LET grep == Grep(seed, table)
        IN  /\ conf.options.rotate = 0 => grep = wanted
            /\ \E f \in Permutations(DOMAIN wanted) : grep = [k \in DOMAIN wanted |-> wanted[f[k]]]

(* dns_nssconf_next(): the sources that can be read from the letters, each  *)
(* with what is to be done after a status.                                  *)
Sources(lookup) ==
  LET Actions == {"C", "R"}
      StatusOf(c) == CHOOSE s \in Statuses : StatusLetter[s] = c
      IsPair(p) == p + 1 <= Len(lookup) /\ lookup[p + 1] \in Actions
                   /\ lookup[p] \in {StatusLetter[s] : s \in Statuses}
      after[p \in 1..(Len(lookup) + 2)] == IF IsPair(p) THEN after[p + 2] ELSE p
      does(p) == [s \in Statuses |->
                    LET said == {k \in p..(after[p] - 2) : (k - p) % 2 = 0 /\ StatusOf(lookup[k]) = s}
                        last == CHOOSE k \in said : \A j \in said : j <= k
                    IN  IF said = {} THEN DefaultAction[s]
                        ELSE IF lookup[last + 1] = "C" THEN "continue" ELSE "return"]
      read[p \in 1..(Len(lookup) + 2)] ==
        IF p > Len(lookup) THEN <<>>
        ELSE IF lookup[p] \notin {"f", "b", "m"} THEN read[p + 1]
        ELSE <<[source |-> lookup[p], does |-> does(p + 1)]>> \o read[after[p + 1]]
  IN  read[1]

(* What an item of nsswitch.conf means.                                     *)
Meaning(item) ==
  [source |-> SourceLetter[item.source],
   does |-> [s \in Statuses |->
               LET said == {k \in DOMAIN Criteria(item) : item.criteria[k][1] = s}
                   last == CHOOSE k \in said : \A j \in said : j <= k
               IN  IF said = {} THEN DefaultAction[s] ELSE ActionOf(s, item.criteria[last][2])]]

(* The sources read back from the array are some of those the last entry of *)
(* nsswitch.conf names, in their order and with their criteria, whatever    *)
(* unknown sources, statuses and actions stand between them; and all of     *)
(* them when the array has room for every token.                            *)
SourcesAsListed ==
  LET entry == SelectSeq(listed.sources[1], LAMBDA i : i.source \in DOMAIN SourceLetter)
      wanted == [k \in DOMAIN entry |-> Meaning(entry[k])]
      got == Sources(conf.lookup)
      size[k \in 0..Len(listed.sources[1])] ==
        IF k = 0 THEN 0 ELSE size[k - 1] + 2 * Len(Criteria(listed.sources[1][k])) + 1
  IN  listed.sources # <<>> /\ EntryLetters(listed.sources[1]) # <<>> =>
        /\ \E keep \in SUBSET DOMAIN wanted :
              got = [k \in 1..Cardinality(keep) |->
                       wanted[CHOOSE p \in keep : Cardinality({o \in keep : o < p}) = k - 1]]
        /\ size[Len(listed.sources[1])] < MaxLookup => got = wanted

(* A name of the hosts file has the addresses of all lines it is on, and an *)
(* address the first name of each of its lines: no alias, and none lost.    *)
HostsAsListed ==
  LET lines == SelectSeq(listed.hosts, LAMBDA l : l.addr # BadAddress /\ l.names # <<>>)
  IN  /\ \A l \in Range(lines) : \A n \in Range(l.names) : l.addr \in HostAddresses(n)
      /\ \A a \in {l.addr : l \in Range(lines)} :
           LET here == SelectSeq(lines, LAMBDA l : l.addr = a)
           IN  HostNames(a) = [k \in DOMAIN here |-> here[k].names[1]]

(* What a resolver is made with is what the three files say.                *)
ReadAsListed == stage = "ready" => ServersAsListed /\ SourcesAsListed /\ HostsAsListed

(* A search gives the name itself once, however many dots it has and        *)
(* wherever resolv.conf puts the limit, and each domain once and in order,  *)
(* but none for a name that ends in a dot: so a name is never tried in vain *)
(* twice, and never left out.                                               *)
NameIsTriedOnce ==
  LET list == IF qname.anchored THEN <<>> ELSE conf.search
  IN  search.at = "end" =>
        \E k \in 0..Len(list) :
          tried = SubSeq(list, 1, k) \o <<Itself>> \o SubSeq(list, k + 1, Len(list))
==============================================================================
