# A formal model of Network-labs

Network-labs is a set of independent laboratory programs about network
programming. This directory models them in TLA+, checks the models with TLC on
small instances, and proves the safety properties that matter most with TLAPS.
It covers the three programs that have most to get wrong: the UDP tree chat of
the third lab, the chat server of the fourth and fifth, and the SOCKS5 proxy of
the seventh with the DNS resolver it is linked with.

## 1. Inventory

Paths are relative to `src/`; `J` stands for `src/main/java/ru/nsu/ccfit`.

| Component | State | Operations | What is hard | What makes it correct |
|---|---|---|---|---|
| First lab, `first/J/App.java`: multicast discovery | one table from program id to the time of its last ping | ping, receive, expire | one thread does all; an entry is removed while the table is iterated; a ping is sent only after a silent timeout | a live program stays in every table, a dead one leaves it |
| Second lab, `second/server/J/Server.java`, `ConnectionTask.java`: upload server; `second/client` is its client | pool of ten threads, queue of ten tasks, sockets, files in one shared directory | accept, reject, parse header, read, report speed, finish, shut down | tasks race for a file name; answer sent on every path; timeouts 1 ms apart; interrupt does not stop a blocked read | a file reported as stored is complete and is nobody else's; every accepted socket is closed; shutdown ends |
| Third lab, `third/J/Containers/Storage.java`: blocking queue | list, wakeup flag, lock with a condition | put, get, wakeup | one signal per put, spurious returns, wakeup in any state of the consumer | FIFO, nobody sleeps beside an object, wakeup frees everybody |
| Third lab, `Sender`, `Reciever`, `Checker`, `Containers/NodeInfo`, `CheckTask`: link protocol | per neighbour: numbers sent, expected and confirmed; queue of check tasks | send, accept, confirm, check, resend, remove | loss, reordering, duplicates; confirms without a number; `send()` that throws in the middle | in order, once, nothing lost in silence, retries end |
| Third lab, `Server` and its threads: life of one program | four threads, three stop flags, two queues, one socket | connect, work, cleanup | joins across threads, threads that died or never started | nothing uses the closed socket; quitting ends |
| Third lab, the tree of programs: registration and relaying | list of neighbours per program, `messageQueue` | register, answer, relay | joining while lines are on their way; relays in a tree; programs that leave | each line printed once, in its author's order, at everybody |
| Fourth and fifth lab, servers: `UserStorage`, `User`, `LoginInfo` | list of users, map of tokens | login, logout, check of a token, timeouts | handlers run concurrently; look-up and insertion are two steps; entries stay after logout | one user per name; a token names one user |
| Fourth and fifth lab, servers: `MessageStorage` | counter and sorted map | create, getAll | read, use and increment of the counter unlocked; 32-bit range arithmetic | no message overwritten, pages without gaps |
| Fourth and fifth lab, servers: `Handlers/*`, `Server` | routes, the endless update loop of the fifth | one handler per request | size read before the list is sent; the loop keeps its thread | a client is pushed every message once |
| Fourth and fifth lab, clients | list of messages shown | poll by page; WebSocket push | counting by its own list while messages are added | the client shows the server's sequence |
| Seventh lab, `seventh/proxy.c`, `connection.h`, `socketUtils.c`: SOCKS5 proxy | table of connections, each with a state, two sockets and buffers | accept, method, request, resolve, connect, forward, drop | the table is compacted while it is iterated; `case` falls through; half-closed connections; full table | every connection is served and closed; no byte is lost |
| Seventh lab, `seventh/dns.c`, `dns.h`, configuration: `dns_resconf_*`, `dns_nssconf_*`, `dns_hosts_*`, `dns_res_open` | reference counts, resolv.conf, nsswitch.conf, hosts | open, load, search, close | any of a dozen allocations and calls fails; lines and options in any order and too many of them | no leak on any path; what is used is what the files say |
| ... packets: `dns_p_*`, `dns_d_*`, `dns_rr_*` | buffer, dictionary, memo of the sections | push, parse, grow, copy, study, iterate | compression into what was pushed before; memos kept without parsing | what is pushed is read back |
| ... socket: `dns_so_*`, `dns_k_permutor_*` | state, query, descriptors, ids | submit, check, fetch, close | `EAGAIN` in every state; late answers; change to TCP; kept and retired descriptors | only the answer to the open question; nothing leaks or blocks |
| ... resolver: `dns_res_*`, `dns_hints_*` | stack of frames, search, iterators over servers | submit, check, fetch | frames for aliases and name servers share one socket; timeouts and retries | an answer to the question, an end to every query |
| Build files, settings, the one JUnit test | none | none | none | none |

The labs share no code and do not talk to each other, except that the fourth
and the fifth lab are two versions of one design. Inside the third lab, main
and the Reciever put messages into `messageQueue`, the Sender takes them from
there, sends one datagram per neighbour and puts a `CheckTask` into `toCheck`,
the Checker takes it from there, and the Reciever updates the counters the
Checker compares the task with. Both queues are `Storage` objects. The list of
neighbours is a `CopyOnWriteArrayList` that the Reciever and main extend, the
Checker shrinks, and the Sender iterates over.

Inside the seventh lab, the proxy makes a resolver per connection that asks for
a name (`dns_res_stub`, `dns_res_submit`), polls it from its loop
(`dns_res_check`, `dns_res_fetch`) and closes it. The resolver owns a socket, a
stack of frames with packets, and references to the configuration it was made
with.

`PROJECT.json` lists the components with their status, and under "hazards" the
places in the code that a test would hardly reach, each with the property that
watches over it or the reason there is none yet.

## 2. Plan

| # | Modules | Composes | State |
|---|---|---|---|
| 1 | `FifoQueue` (abstract), `Storage`, `MCStorage`, `ThreadsProofs` | `Storage` implements `FifoQueue` | done |
| 2 | `Link`, `LinkProofs` | | done |
| 3 | `NodeLifecycle`, `ThreadsProofs` | two instances of `FifoQueue` | done |
| 4 | `TreeChat`, `MCTreeChat`, `TreeChatProofs` | the steps of `Link` and `NodeLifecycle` for N programs | done but for restarts and for names taken as datagrams |
| 5 | `UserRegistry`, `MCUserRegistry`, `UserRegistryProofs` (users and tokens of the chat servers, the handlers on them, the loop of the client) | | done |
| 6 | `MessageFeed`, `MCMessageFeed`, `MessageFeedProofs` (messages, paging client of the fourth lab, updater of the fifth) | `MessageStorage` under concurrent handlers | done; an abstract `MessageLog` is left |
| 7 | `SocksProxy`, `MCSocksProxy`, `SocksProxyProofs` | the poll loop over the table of connections, with clients and servers | done |
| 8 | `DnsQuery` (abstract), `DnsSocket`, `DnsPermutor`, `MCDnsSocket`, `DnsPartsProofs` | `DnsSocket` implements `DnsQuery` | done |
| 9 | `DnsHints`, `DnsResolver`, `MCDnsResolver`, `DnsResolverProofs` | uses the socket as `DnsQuery` describes it, and `DnsHints` and `DnsPermutor` for the order of servers | done |
| 10 | `DnsPacket`, `MCDnsPacket`, `DnsPartsProofs` | the packets the resolver works on | done |
| 11 | `DnsConf`, `MCDnsConf`, `DnsPartsProofs` | what the resolver is made from; `DnsHints` | done |

Abstract specifications: the closable queue (`FifoQueue`) and the open question
(`DnsQuery`) exist. Also worth stating: a channel that delivers a prefix of what
was sent, which `Link` should implement as long as no confirm fails; a log with
atomic append and page reads, which `MessageStorage` should implement but for
its races.

Runs: the dozen of section 4, one for each module that is not abstract or a
library of another, and one for the finding.

Theorems: those of section 6. What is left to TLC, and why, stands at its end.

## 3. The models and the code

### FifoQueue and Storage

`FifoQueue` says what a `Storage` promises: what is put while it is open is
taken in that order; once closed nothing is taken and every user is sent away.

`Storage` translates `Containers/Storage.java`. All methods hold one
`ReentrantLock`, so a critical section is one action. `get()` gives up the lock
in `notEmpty.await()`; a consumer is therefore `running`, `waiting` in the wait
set, `signalled` (moved to the lock's queue by `signal`, `signalAll` or a
spurious return) or `gone` (it got `null`). `Put` signals one waiter, `Wakeup`
all of them. The condition `update` has no waiter anywhere in the code and is
left out. `putLog` and `returned` are history variables.

### Link

One direction of one link: program A sends, its neighbour B receives. The
variables are the fields of `NodeInfo` (`sent`, `lastDelivered` at A,
`recieved` at B), the tasks of `toCheck` for this neighbour, whether each has
the other in its list, and what is in flight. The actions follow the code:

| Thread | Actions |
|---|---|
| A's Sender | `TakeMessage`, `SkipNode`, `SendMessage`, `SendFails` |
| B's Reciever, message | `Accept`, `AcceptConfirmFails`, `Ignore` |
| B's Checker | `Forget` |
| A's Reciever, confirm | `Confirm` |
| A's Checker | `CheckRemoves`, `CheckResends`, `CheckDone` |
| Network, and the loss simulated by `failPercent` | `LoseData`, `LoseConfirm`, `DuplicateConfirm` |

Three places where the order of the code decides are kept as they are:
`getSendID()` uses up a number before `send()` may throw; the confirm is sent
after the line was printed and relayed and before `updateRecv()`; the Checker
tests the number of failures before it looks at the confirms.

Time is abstracted: a task may be checked at any time after it was queued,
which contains every behaviour of `comfirmTimeout`, also those with a delay of
the network larger than the timeout. A resend that found something in flight is
counted as `wasted`; this is what `SurvivesFewLosses` needs to speak about
programs whose network is faster than the timeout. `lastDelivered` is a plain
`long` that one thread writes and another reads; an old value read by the
Checker is a confirm that comes later, which the model allows anyway.

### NodeLifecycle

The four threads of one program as program counters: main (`Server.main`,
`connect`, `work`, `cleanup`), Sender, Checker, Reciever; the flags `stopping`
of the three; the two queues as instances of `FifoQueue`, which `Storage` was
shown to implement; and the socket. Each action is a step between two places
where a thread may be overtaken. A read or write of a flag, a call of the
queue, a `join` and a call of the socket are actions of their own. `RecieverDies`
is the exception that `indexOf()` returning -1 (a datagram without a zero byte)
or a number that does not parse raises outside of any `catch`. The Checker is
running from the start because `Sender`'s constructor starts it.

### TreeChat

N programs, each with its list of neighbours, the counters of a `NodeInfo` for
each neighbour, `messageQueue`, the Sender's loop, `toCheck`, and a bag of
datagrams between them: messages (M), confirms (C), registrations (R) and the
name that answers a registration (N). One step of a thread's loop is one
action, except that the Sender serves one neighbour per action so that the
other threads can change the list and the queue meanwhile. The finer
interleavings inside a step are the business of `Storage` and `NodeLifecycle`.
`ConnectAnswered` takes any datagram for the name of the parent, as `connect()`
does. `ConnectFails` is the way of `main()` and `connect()` through their
`catch`: an unknown host, a `send()` or a `receive()` that throws is printed, and
the program works without its parent in its list, whether or not the parent has
heard of it. `taken`, `since`, `printed`, `removed`, `threw` and `unconfirmed` are
history variables. Every program is started once, and its name begins with none
of the letters M, C and R.

### UserRegistry

`UserStorage` of the chat servers and everything that calls it. The list of
users and the map of tokens are concurrent collections and the counter is a
plain `Long`; no method holds a lock, and each request is served by a thread of
its own. Therefore each access to one of the three is an action, and a client
is one program counter for itself and for the handler that serves it, since it
has one request at a time. `create()` alone takes up to nine steps:

| Code | Actions |
|---|---|
| `create`, look-up and test | `Login`, `LooksUpName`, `TestsOnline` |
| `removeToken` inside `create` | `FindsToken`, `DropsToken` |
| `new User(currID, ...)`, `add` | `ReadsID`, `AddsUser` |
| `tokenMap.put(token, currID)` | `ReadsIDAgain`, `PutsToken` |
| `currID++` | `ReadsCounter`, `WritesCounter` |
| `checkToken` at the start of every handler | `AsksList`, `AsksMessages`, `AsksInfo`, `Quits` |
| `listUsers`, `get`, `update` | `ListsUsers`, `GetsUser`, `UpdatesUser` |
| `delete` | `SetsOffline`, `RemovesToken` |
| client | `Continues`, `Crashes`, and `DiesOfList` in `ListsUsers` |

`generateToken()` hashes the name alone, so a token is modelled by its name.
Of the clock only one question matters, whether `lastseen` is more than
`TIMEOUT` ago; `MinutePasses` may answer it with yes for any user at any time.
`check()` sets `online` to null, and `update()` does not set it back. The client
unboxes `isAlive()` of each user it has not seen before, so one that timed out
ends a client that starts later; `seen` counts those it has. `overlap` is a
history variable: two `create()` were between their first read of the counter
and its increment at the same time.

### MessageFeed

`MessageStorage` with those who write into it and read from it. `create()` reads
the counter for the id, again for the key, puts, and increments, without a
lock; `getAll()` reads the counter for each end of the range and then runs a
stream over the map. A handler of POST is an element of `Posters`; a reader is
one program counter for the client and for the handler that serves it, or for
the Updater.

| Code | Actions |
|---|---|
| `MessageStorage.create`, called by `newMessage` | `NewMessage`, `ReadsKey`, `Puts`, `ReadsCount`, `WritesCount` |
| `MessageStorage.getAll` with a range | `ReadsStart`, `ReadsEnd`, then `GetsPage`, `SendsNew` or `Throws` |
| `getMessages` of the fourth lab's client | `LogsIn`, `StartsRound`, `GetsPage`, `LosesPage` |
| `Updater.onFullTextMessage` | `Connects`, `SendsAll`, `SeesMore`, `SendsNew` |
| `WSConnection` at the fifth lab's client | `ProcessMessage` |

The stream of a `ConcurrentHashMap` is weakly consistent: `Streams` collects
what was stored when it began and any subset of what has been stored since. A
message is its id and the number of its `create()`; text, author and the check
of the token (see `UserRegistry`) are left out. The list a page is made of is
sorted by id, then by `create()`: `Place` is the place of a message among those
collected. `overlap`, `late` and `missed` are history variables.

### SocksProxy

`main()` of `proxy.c`: `Poll` takes the events of all descriptors at once, and
then one action after another handles `connections[i]` with the events found
for place `i`, whoever is there by then. The switch over the status is the
choice between the actions; a `case` without `break` goes on with the actions of
the next.

| Code | Actions |
|---|---|
| `form_poll_fds`, `poll` | `Poll`, `Again`, `Signalled` |
| `CS_INCOMING` | `IncomingHangup`, `IncomingEnds`, `IncomingReads` |
| `CS_AUTH_FAILURE`, `CS_AUTH_SUCCESS` | `AuthFailure`, `AuthSuccess` |
| `CS_SOCK_REQUEST` | `RequestEnds`, `RequestReads`, then `RequestShort`, `RequestAddress`, `RequestName` or `RequestOther` |
| `CS_RESOLVING` | `ResolvingAnswered`, `ResolvingFails`, `ResolvingWaits` |
| `CS_FORWARDING` | `Forwarding`, which the cases before fall into |
| accept | `Accept`, `AcceptNone` |
| `SIGPIPE` | `KilledWriting`, `KilledForwarding`, `KilledParsing`, `KilledReading` |

`dropConnection()` moves the last entry into the freed place. Line 128 drops a
connection and goes on with the place all the same; `stray` is a history
variable that is set there, and the properties speak of what happens before.
There is at least one client. `poll()` does not fail (`proxy.c:59` prints an error
and goes on with events that nobody wrote; it fails when the table is longer than
the limit on descriptors).
A request by name has length + 7 bytes, and line 156 takes it as whole when it has
length + 2. Of a client that sends it in one piece that is the same; of a slow one
the end of the name is read from what was in the buffer before, and the last five
bytes go to the server as data. The pieces of a request are cut at these places:
`Whole` asks for piece 5 of a name and for piece 6 of an address, and a server
remembers with which piece its request ended (`from`). The cut is right for names
of 4 to 127 bytes: of a shorter one the whole of the name has come, and the length
of a longer one is a negative number where `char` is signed.
Clients and servers send numbered pieces, may be slow, reset, finish in either
order or be refused. A resolver is running, has answered, failed, or is late
(more than 30 seconds), as `DnsResolver` lets it be.

### DnsQuery, DnsSocket and DnsPermutor

`DnsQuery` says what a DNS socket promises: one question is open, it is put to
hosts, and ends with an answer to it from one of them or with an error.

`DnsSocket` is `dns_so_check()` with its twelve states, one action for each case
and outcome, `dns_so_submit`, `dns_so_fetch`, `dns_so_clear` and `dns_so_close`.
`Again` returns `EAGAIN` from any state in which a call would block. Around it,
hosts answer once, twice, late, truncated, with something too short to be an
answer, or not at all; TCP connections are made, refused or end. Descriptors
are numbered; `old` holds those `dns_so_closefd()` has put aside.

`DnsPermutor` translates the two permutations: the Feistel network that hands
out query ids, with any round function instead of TEA, and `dns_k_shuffle16()`.
`MCDnsSocket` lets TLC evaluate, for every round function over halves of one
bit, what `DnsSocket` takes for granted: each id once, none outside the range,
and decryption undoes encryption (`IdsAssumption`).

### DnsHints and DnsResolver

`DnsHints` is the table of name servers with its priorities and the iterator
that visits them in order or shuffled. `DnsResolver` is `dns_res_exec()`: each
state of the code's `switch` is an action (or a few, one for each way out), and
`sp` and `stack` are `R->sp` and `R->stack`. Names are numbers, a packet is the
set of its records. Below the first frame the resolver pushes frames for aliases
(`FollowAlias`), for addresses of name servers (`ResolveNs`) and of mail servers
(`Smart`); all share the one socket `so` and the one search list. The socket is
what `DnsQuery` promises of it. Name servers (`Says`) answer, alias, refer with
or without glue, refuse, report an error, answer with nothing, or stay silent;
`TimePasses` lets an answer be late. An address is the number of the name
it belongs to, or one of `Inet6`; these are put into the hints as AAAA records
(`GlueRec`), where nobody looks for them. Nothing bounds the referrals of a query.
`SmartAdd` copies addresses into the answer, which grows when they do not fit:
packets have no size here, so that each copy may also fail or never come back
(`"stuck"`). The cache of the code's interface is asked
and may become ready later (`Cache`, `CacheReady`).

### DnsPacket

`dns_p_push()` and all it calls, on a payload of cells instead of bytes: a
label, the end of a name, a pointer, a number are one cell each. Kept are the
room that is tested and the order in which things are written, the dictionary of
names (`Dictadd`, `Match`, `Comp`), the memo of where sections begin and end
(`Counted`, `Study`), what is taken back after an error (`PushRecord`), growth
(`Grown`) and the iterators (`IStart`, `ISkip`, `RrGrep`). A name is read as
`dns_l_expand()` does, along pointers of which it follows `MaxPtrs` at most for a
label (`Target`, `Chain`). `PushNs` and `PushMx` leave the
length of the data out until the name behind it is there. What lies in its place
(`Unwritten`) is seen by nobody but a name of the dictionary that an error took
back and that began there. It may be the rest of a record that was taken back, of
the draft of a name that has become a pointer, or what `malloc()` gave: a label of the
name that is written, or a pointer to anywhere; all else ends the name, as a length
does. Numbers in data, types and TTLs are never read as labels, and a label is one
cell, so that one never reaches from stale bytes into new ones. Actions: `Push`, `Grow`,
`Reset`, `Copy`, `StudyIt`, and a question made of the packet (`Ask`, `QRemake`).
A packet comes from pushes only; malformed ones from the network are rejected
or not before the resolver looks at them, which `DnsSocket` and `DnsResolver`
have as outcomes.

### DnsConf

`dns_res_stub()` from its first allocation to the end of the resolver: resolv.conf
(`OpenResconf`, `ReadResolv`), nsswitch.conf (`ReadNss`), the hosts file
(`OpenHosts`, `ReadHosts`), the table of name servers (`HintsOpen`,
`HintsInsert`), and `dns_res_open()` in its three parts (`OpenAcquire`,
`OpenMake`, `OpenSocket`). Each action may take the code's way out, to `CloseAll`
and `Epilog`. `heap` and `count` are what is allocated and its reference counts;
`mine` and `held` are the pointers of `dns_res_stub()` and of the resolver. Words
are strings and `AddSource` writes the letters of the lookup order one by one,
because the room for them is what may run out. `Submit` and `SearchNext` then
step through `dns_resconf_search()` for a name.

## 4. The runs

| Run | Instance | What it shows |
|---|---|---|
| `storage` | 3 consumers, 2 producers with 2 objects each; all of it fair | `NoLostWakeup`, `WakeupFreesConsumers`, and that `Storage` implements `FifoQueue` with its fairness |
| `link` | 2 messages, `maxFailed` 3, 1 duplicated confirm | order without gaps, custody of each message, that few losses do not cost a neighbour, and that retries end |
| `lifecycle` | 2 lines, 1 message from a neighbour, 2 neighbours | the socket is closed last, and quitting ends even when the Reciever has died |
| `tree` | a chain of three that forms while its root types two lines, `maxFailed` 1, one fault | no echo, no duplicate, the author's order, custody of a line for every neighbour there has been since, and delivery to all once everything is settled and everybody has its parent |
| `users` | 2 clients, 2 names, 2 users | ids are places in the list and a token names the newest user of its name as long as no two `create()` overlap; a silent user loses the name while somebody is logged in |
| `feed` | 2 handlers that post 3 messages; one client of either lab, pages of 2, one lost answer | no range is out of bounds, pages make a prefix, what is behind the Updater was sent, and every message is paged, but for the gaps below |
| `proxy` | 2 clients with one of five pairs of plans, a table of 2 | one entry per open client, server and resolver; bytes behind what was taken for the request pass in order and none is lost; a connection ends only when one side is done; every client is closed in the end |
| `dns_socket` | 2 questions, 2 hosts, 2 ids, 2 submits, 2 datagrams, 2 TCP connections; UDP, TCP or either | descriptors are closed once; `EAGAIN` comes with something to wait for; `dns_so_check()` returns; `DnsSocket` implements `DnsQuery` |
| `dns_resolver` | 5 configurations, 3 questions, 3 frames, one set of name servers to refer to | each frame waits for the one above it; the socket serves the topmost; answers belong to the question; the resolver gives up last; every query ends but for referrals without end |
| `dns_packet` | 10 records, payloads of 14 and 32 cells, dictionary of 3, 3 records at a time | the payload is sound, the memo is what a study finds, records are read back but for the mistakes of section 7, a shuffled iteration is complete |
| `dns_packet_names` | the same | counterexample, see section 7 |
| `dns_conf` | 3 lines in three files, 2 name servers, 2 search domains, lookup of 12 letters | no leak on any path, the files are read as they say, a search gives each name once |

Some of these deserve a word.

* `SurvivesFewLosses` is the code's promise about `maxFailed` said precisely:
  as long as no confirm is lost and fewer than `maxFailed` attempts for any one
  message are of no use, the neighbour stays. Without the first premise it does
  not: B never confirms a number twice, so one lost confirm makes every retry
  useless.
* `NoSilentLoss` has the premise `dups = 0`. `ConfirmBalance`, which is proved,
  explains why anonymous confirms work at all: B accepts in order, so the number
  of confirms is the last accepted number, unless one is lost (the count lags)
  or duplicated (the count runs ahead, and a lost message may be taken for
  delivered).
* `AuthorsOrder` has no premise: a `send()` of the Sender that throws stalls a
  link for ever, which loses lines but never reorders them.
* `PrintedOnce` needs that no `send()` of a confirm threw: the message has then
  been printed and relayed, the counter has not moved, and the resent copy is
  printed and relayed once more.
* `IdsArePlaces` and `TokenNamesNewest` have the premise that no two `create()`
  number their users at once, and need it: two that do give two users one id,
  and the token of one then finds the other. What they add to a test is
  everything else that may come in between: refused logins, logouts, timeouts,
  a `create()` that replaces a user while that user's own logout is on its way.
  `CounterBehindList`, which is proved, needs no premise: lost increments only
  make the counter lag.
* `StaleNameIsFreed` is about who calls `check()`. `create()` does not, so a
  name is freed by the other clients' requests for the list, or not at all;
  hence the escape in it for a server nobody is logged in at.
* The properties of `feed` have the premise that no two `create()` overlap.
  Without it two messages are put under one key, or one under a key the counter
  has passed, and the storage is no longer a sequence. They have one exception
  each, and hold with nothing more. *Pages*: after a page that is not full the
  client asks for the page a full page further, so that messages which come
  between the two requests may be skipped, and are if the second page is not
  empty (`late`). The next round counts from the length of the client's list
  and shows a later message again. *Pushes*: `size()` counts what is in the map
  and `getAll()` cuts at the counter, so a message that is stored but not yet
  counted when the Updater wakes is behind it for good (`missed`).
* `EveryClientIsClosed` is where a skipped entry would show: the entry that is
  moved into a freed place behind `i` is not handled in this round, and must be
  in the next. The escapes are a signal that kills the proxy (a `write()` to a
  client that has reset its connection) and line 128 (`stray`).
* `ImplementsQuery` says of late answers what matters: an answer that is fetched
  is one to the open question, from a host that question was put to. It rests
  on the id being new for each query and on the question in the packet being
  compared.
* `GivesUpLast` is for a stub resolver that has BIND among its sources (with
  files and a cache alone, SERVFAIL comes without a question to anybody): the
  answer without records that it returns means that every name of the search was
  asked, or that every server with an IPv4 address was asked as often as
  `attempts` says; those with an IPv6 address are never asked (section 7).
  `strayed` excludes a search that goes on in a frame above the first, which a
  comment in the code (`dns.c:7423`) has doubts about as well.
* `EveryQueryEnds` has one escape: that a referral is followed again and again
  (`[]<><<Referred>>_vars`), which the code does as long as servers refer. It says
  of the loop in `SmartAdd` only that it is entered. All other chains end, of aliases,
  retries, names of the search, frames and late answers, without a bound in the model.
* `PayloadIsSound` lets a pointer in the data of a record lead to the length of
  these data, and `ReadsBack` lets such a name lack its end once a push into the
  packet has failed. Both come from one thing the code does (section 7): the
  length is written after the name behind it.
* `ReadsBack` allows beyond that for the label that `dns_d_comp()` mistakes and
  for nothing else; `NamesReadBack` is what one would like it to say.
* `NothingLeaks` says that at every step the count of each object is the number
  of pointers to it that somebody holds, and that it is allocated exactly when
  the count is not zero, through every failure.
* `ReadAsListed` compares what has been read, in the code's terms, with what the
  lines say: servers in their order and as many as fit, sources with their
  criteria, addresses of hosts.

### Bounds, and why they are enough

* `MaxPuts` = 2 with two producers gives up to four objects for three consumers:
  more objects than sleepers, and fewer.
* `MaxSent` = 2 gives two messages, so that one can overtake the other, a confirm
  of one can be counted for the other, and a stalled number has a successor.
  `maxFailed` has the value of the code (3). `MaxDups` = 1 is the first number
  that breaks the balance. Copies in flight are bounded by the retries
  themselves.
* `MaxLines` = 2, `MaxAccepted` = 1 and `MaxNodes` = 2 let `messageQueue` hold
  three messages and the Sender have a rest of the snapshot when it throws.
* In `TreeChat` a chain of three programs is the smallest tree with a relay, and
  joins while lines are on their way because nothing makes the root wait; two
  lines can overtake each other. `maxFailed` is 1 (3 in the code), which bounds
  the copies and leaves each kind of check in place. `MaxFaults` = 1 bounds
  losses, `send()` and `connect()` that throw, programs that quit and checks
  that come too early, taken together. A check is too early when the message or
  a confirm is still under way (`UnderWay`): without this bound a Checker may
  resend and remove at once, which is the business of `Link`, where checks come
  at any time. One fault is enough for the chain of events that matters: a
  confirm that is lost makes every resend useless and so costs the neighbour.
* In `UserRegistry` two clients and `MaxUsers` = 2 let two logins race for one
  name or for two, and a second user replace the first of the same name.
* In `MessageFeed` three messages with pages of two (100 in the code) give a full
  page, a page that is not full, and messages beyond both; two handlers can
  overlap. Readers do not see each other, hence one at a time (`MaxClients` = 1).
  One lost answer meets the first page or a later one, where the client behaves
  differently.
* In `SocksProxy` two entries are the fewest of which one can be moved while the
  other is served, and `MAX_CONNECTIONS` is as many: the code does not test it,
  so more clients than places would be undefined behaviour. The five pairs of
  plans meet each way a request can end (by address, by name, a wrong version, a
  wrong method, an address type and a command that are not served), with a slow
  client, one that resets, and data in one direction each, so that the two of a
  pair end in any order. `MaxServers` and the pieces follow from the plans.
* In `DnsSocket` two ids for two questions, and two hosts, give an answer from
  another question, another host, and with another id. Two TCP connections allow
  one to be kept and one to be put aside.
* In `DnsResolver` three frames (8 in the code) are the fewest with an alias and
  a name server's address at once, and let the deepest be reached. Referrals are
  not bounded, by the code or by the model. They lead to two name servers, one
  with an IPv4 address and one with an IPv6 address alone, which is as good as
  none and has to be looked up. The five configurations are chosen for the
  states of the code that each of them reaches; the third has nothing but a
  server that is never asked.
* In `DnsPacket` three records give one in front of, in and behind any section;
  14 cells are overrun by the second record and 32, the largest payload, by the
  third. The dictionary has three places (16), which two names with three labels
  fill. Four pointers may be followed for a label (127), more than so few
  records can chain. The ten records are chosen for the ends they share, and one
  (`w NS x`) for ending in what another begins with: after x was taken back, it
  is written so that its length lies where x began.
* In `DnsConf` three lines can be of one file or of each; the limits of the code
  (3 servers, 4 domains, 36 letters, 16 tokens) are cut to 2, 2, 12 and 6 so that
  single lines exceed them.
* `CHECK_DEADLOCK FALSE` stands where the program may really come to rest: a
  link that is removed, a program that has ended, a chat in which nobody types,
  a server whose clients have all left when `MaxUsers` is used up, an Updater
  that has sent the last message, a proxy whose clients have all been served, a
  resolver or a socket that is closed, a packet with no record left to push, a
  configuration with no line left to read.
  `storage` keeps the check on: `wakeup()` may always be called.

## 5. Fairness

* `Storage`: weak fairness of every consumer's `Get`: a thread that is not
  blocked in `await()` keeps running and obtains the lock. Nothing is assumed
  of producers, of `wakeup()` or of spurious returns.
* `Link`: weak fairness of `Check` alone: the Checker is a thread in an endless
  loop that sleeps a bounded time. Nothing is assumed of the network, of B or of
  the Sender; the messages may all be lost.
* `NodeLifecycle`: weak fairness of each thread as long as it can run.
  `receive()` returns within `socketTimeout` (one second), which is why a
  Reciever without packets still comes round to its flag. The user may never
  end the input, the parent may never answer and packets may never come: those
  actions carry no fairness.
* `TreeChat` has safety properties only.
* `UserRegistry`: weak fairness of each client in `create()` and in the loop that
  asks for the list and the messages: a handler runs to its end, and the client
  sleeps one second between two rounds. Users need not log in, type, or quit,
  and time need not pass.
* `MessageFeed`: weak fairness of each `create()` that has begun, of a client in
  its rounds (the loop of `work()` starts one about every second), of the Updater, and of
  the delivery by the WebSocket. Nobody need post or connect.
* `SocksProxy`: weak fairness of the proxy's loop, of each client that has begun
  (it sends what it has to send, reads, and finishes), of the servers' reading,
  and of the 30 seconds after which a resolver is late. That clients do not stall
  in the middle of a request is a real assumption: `read()` of the proxy would
  block for all. Clients need not connect.
* `DnsSocket`: weak fairness of a `dns_so_check()` that has been called; nothing of
  hosts and the network, since each case returns when it would block.
* `DnsResolver`: weak fairness of `dns_res_exec()`, of the caller who checks again
  (the proxy does so in each round of its loop) and of the clock. Strong
  fairness of `CacheReady`: a cache that is asked again and again answers in
  the end; the code has no timeout for it. The proxy's resolver has no cache.
* `DnsPacket` and `DnsConf` have safety properties only.

## 6. What is proved

The proofs hold for every value of the constants, under the assumptions the
modules name (the bounds are natural numbers; the consumers and the clients of
the proxy are finite sets; the table of the proxy has a place for each client;
the names that servers bring up are not those of the search list; a line of
resolv.conf has a keyword and words). Some components share a module of proofs,
which is why definitions of `NodeLifecycle` and `DnsConf` have names of their
own for what other modules call `Init`, `Next` and `Spec`. Each module of proofs
states an inductive invariant, proves it action by action and draws the theorems
from it.

* `ThreadsProofs`, about `Storage`: `TypeCorrect`, `FifoOrder`, `NoWakeupIsLost`,
  `WakeupIsFinal`, and `StorageIsFifoQueue` (initial states and steps of
  `Storage` map to those of `FifoQueue`; its fairness is checked by TLC).
  `NoLostWakeup` is inductive together with the types: `put()` adds one object
  and one signalled consumer, and a signalled consumer that comes back to sleep
  found the list empty. The proof counts the signalled consumers with the
  theorems on cardinality, hence the finite set.
* `LinkProofs`: `TypeCorrect`, `InOrderWithoutGaps`, `ConfirmsBalance`,
  `ConfirmsAreSound`, `NothingIsSilentlyLost`, `FailedSendStallsLink`,
  `TasksAreUnique`, `FewLossesAreSurvived`. The invariant adds to these that
  failed numbers have been sent, that B never expects more than the number after
  the last one sent, and that the last accepted number is the expected one or
  its predecessor. The parts need each other: `NoSilentLoss` survives
  `CheckDone` because a number that the count covers was accepted
  (`ConfirmBalance`), and B's bound survives `Accept` because only sent numbers
  are in flight (`OneTaskPerMessage`). `FewLossesAreSurvived` rests on
  `Attempts`, which says what the failures of a task count: attempts that were
  of no use, copies still in flight as long as B waits for the message, and at
  most one that B accepted. A resend that finds nothing in flight is for a
  message B waits for, because all confirms of what it accepted have been
  counted by then (`ConfirmBalance`).
* `ThreadsProofs`, about `NodeLifecycle`: `ThreadsTypeCorrect`, `SocketClosedLast`,
  `CheckerOutlivesTasks`. The invariant `Order` says how far main, Sender and
  Checker have come relative to each other: Sender ends only after the Checker,
  the Checker only after Sender stopped it, main closes only after both joins.
* `UserRegistryProofs`: `TypeCorrect`, `CounterNeverAhead`, `IdsAreUnique`,
  `TokenIsNewest`. Two counts carry the first half: users still to be added fit
  into the bound, and the counter (as well as what a `create()` is about to
  write to it) is behind the list by at least the number of users added and not
  yet counted. The second half holds while no two `create()` overlap: at most
  one client is numbering, the counter is the length of the list or one less,
  each id is its place, and a token is the place of its user. Most steps are
  `Idle`: they keep ids and names and at worst remove a token, so that six steps
  are left to look at. The invariant `Inv` was first checked by TLC with two
  clients and three users.

* `MessageFeedProofs`: `TypeCorrect`, `NobodyThrows`, `PagesFollowOn`,
  `NothingElseIsMissed`. The types need a count: the counter and what a
  `create()` is about to write to it leave room for those at work. As long as no
  two `create()` overlap, `Orderly` holds: one `create()` at most is at work
  (`Alone`), what it has read is still true (`InStep`), the map holds exactly
  what is counted and perhaps one message more (`Filled`), a range that has been
  read lies in what was counted (`Ranges`), the client has a prefix (`Pages`),
  and what is behind the Updater has been sent or missed (`Pushes`). That a page
  is made of the right messages is a fact about sorting (`Sorted` by `Place`),
  proved first.
* `SocksProxyProofs`: `TypeCorrect`, `EachIsOwnedOnce`, `NothingLost`,
  `ClosedWhenDone`. The invariant comes in layers. `Types` holds always, also
  that the table has room, because the connections and those who wait belong to
  different clients that have come. `Own` holds until a handler goes on with an
  entry it has dropped (`stray`): clients, servers and resolvers that are open
  belong to exactly one entry, so that moving the last entry into a freed place
  moves all there is. `Streams` adds, for each entry, where its bytes are
  (`Fits`), and for the entries not yet looked at in this round that what
  `poll()` said is still true (`Heard`): otherwise a `read()` could block or the
  end of a stream be taken for the other side's. Each handler of the code is one
  lemma per layer.
* `DnsPartsProofs`, about `DnsSocket`: `TypeCorrect`, `FdsAreClosedOnce`, `AgainIsAwaited`,
  `SocketPromises` (initial states and steps of `DnsSocket` map to those of
  `DnsQuery`, which has no fairness). `Safe` says what the state of the socket
  says about its descriptors. `Honest` says of everything under way, in a packet, in
  a kernel buffer or in half a TCP stream, that it has an id that was given to a
  question and, where it could be taken for an answer, comes from a host that
  was asked. The refinement has the premise `OneRound`: no more submits than
  the permutor has ids (65 535 in the code). In a second round an id comes
  again, and a late answer of the first is no longer told apart by it.
* `DnsResolverProofs`: `FramesDoAwait`, `SocketServesTheTop`, `AnswersBelong`,
  `ServersAreAskedFirst`. Whatever a state of `dns_res_exec()` does, the stack
  changes in one of a few ways: a frame goes on (`Goes`), enters another
  (`Enters`), ends and gives its packet to the one below (`Leaves`), or the call
  returns (`Returns`). For each way a lemma says what keeps the invariant
  `IInv`, which consists of the first two properties and of what frames are like
  in their states (`Stacked`: one that has to have an answer has one, one that
  waits has a frame above it). The third property needs `BInv`.
  `AnswerIsForQuestion` speaks of the stack that is left when the query is done,
  while a packet is put together out of packets of frames above, each with its
  own name. `Belonging` therefore says of every packet on the stack that its
  records lead to it from the name of its frame (`Leads`) through at most as
  many aliases as frames may have been above it; a frame that was entered for an
  alias looks for that alias, and only this kind gives records to the answer of
  the frame below. `Leads` is written with all sequences of growing sets that
  follow the records, so that it needs no induction. That the recursive function
  `Aliases` of the model exists is shown by its least bad place. Of the names it
  is assumed (`ResolverAssumption`) that those of the search list, and the one
  that `dns_hints_query()` makes up, are none that a server brings up. The
  fourth, `GivesUpLast`, needs `Pursuit`, which says what the first frame has
  done in each of its states: which names it has put to servers (`AtName`),
  which servers it has asked in this round and before (`InRound`), and that a
  source of resolv.conf named BIND is left only when it has given up (`Sources`,
  `GaveUp`). Frames above it leave its counts alone (`AboveTries`). A round
  meets all servers for two reasons: `dns_hints_insert_resconf()` puts each into
  the table (`InsertGivesAll`), and `dns_hints_grep()` gives each place
  (`GrepGivesAll`). For the second, places are ordered by `dns_hints_i_cmp()`
  without a tie (`AheadOrders`); as long as the iteration has not come to a
  place, all it came to are ahead of it and different, and there are not that
  many (`IterationMeetsAll`). It is assumed that the table has room for the
  servers of resolv.conf (16 places, 3 servers) and that `dns_k_shuffle16()`
  gives different places different numbers (`HintsAssumption`), which is
  `ShuffleIsOneToOne` below and which TLC evaluates for the numbers the runs
  use.
* `DnsPartsProofs`, about `DnsConf`: `ConfNeverLeaks`, `NamesAreTriedOnce`. For
  the first, `CountsInv` says who has a reference to what at each stage: the
  function at work (`AtWork`), `dns_res_stub()` (`Mine`) and the resolver
  (`Held`). The count of each object is the number of these that have it, and it
  is allocated as long as the count is positive, so each way out through an
  `epilog` gives back all there is. For the second, `SearchInv` says what has
  been tried when the search stands at a place of the list: the domains before
  it, and the name itself before or behind them. `NameIsTriedOnce` states what
  is tried as a whole: the list with the name put in at one place.

* `DnsPartsProofs`, about `DnsPermutor`: `EachIdComesOnce`, `ShuffleIsOneToOne`. They
  say for halves of any size, every key, box of different values and seed what other modules
  assume of the permutations: the ids of a round are those of the range, each
  once, and `dns_k_shuffle16()` gives different numbers to different ones. The loops are
  recursive functions; that these exist and are the turns one after the other
  (`ETurns`, `ShuffleTurns`) is shown by the first turn at which it fails. Each turn can be
  undone (`RoundAndBack`, `MixIsOneToOne`), so `dns_k_permutor_D()` undoes
  `dns_k_permutor_E()` (`DUndoesE`), and what is one-to-one on a finite set gives
  all of it (`EachComesOnce`). Of `^` it is assumed that it undoes itself. That
  `Ids`, which selects from the sequence of all numbers, lists just these stays with
  TLC (`IdsAssumption` in `MCDnsSocket`, every round function over halves of one bit).

* `DnsPartsProofs`, about `DnsPacket`: `PayloadStaysSound`. The invariant is
  `Sound`, kept of every packet by every function that writes (one lemma each,
  up to `PushRecordIsSound`): cells fit, a pointer leads to an earlier position
  (`Backward`) from which a label can be read or at which the length of the data
  lies that end with the pointer (`Leads`), and the dictionary has no more
  places than it may. It says more than the property, which only has that the
  name behind a pointer is not empty, in order to survive pushes: what is
  written behind a name, or a length that is filled in before one, leaves its
  labels where they were (`TargetStays`, `LabelStays`). Pointers come from
  `Match`, and `MatchWhat` shows that whatever label `dns_d_comp()` compares
  with, the position it takes was read from a name of the packet, and so has a
  label; that the functions of the model which follow pointers and go through
  the dictionary exist is shown by the first turn at which they fail
  (`TargetTurns`, `ChainTurns`). A name that stays in the dictionary when its
  record is taken back may have begun where a length is still to be written. The
  theorem is about any cell in that place: a push of data that meets with no
  error leaves a sound packet (`Drafted`), because the one pointer that can lead
  to the place of the length is the last cell, and the length that is filled in
  leads back by just as much (`LengthenedIsSound`). It is assumed
  (`PacketAssumption`) that names are sequences and that no packet is made
  larger than `dns_p_grow()` would make it.

* `TreeChatProofs`: `TypesAreKept`, `NoEchoNoDuplicate`, `AuthorsAreInOrder`,
  `CustodyIsKept`, `AllIsDelivered`, for any forest of programs (the last for any
  tree: all programs register, over others, with one root). The invariant has
  these layers:
  - `Forest`: a neighbour stands in a list once, because a registration is sent
    once, and only neighbours of the forest stand there. `Others` of the model
    (all neighbours but one) is the list without one element for this reason.
  - `Numbers`, `Agree`: what is under way or kept by a Checker has a number that
    was given, and a number stands for one line.
  - `Flow`: cut a link of the forest, and there are two sides (`Side`); a line that
    crosses the link was typed on the far side (`Directed`), the program that sends
    it typed or printed it before (`Sourced`), and what is printed came over the one
    link that leads to its author (`Came`). Hence no echo and no second copy over
    another way. In a program the lines of an author are in order from the last
    datagram back to the queue (`QueueOrder`, `LinkOrder`), and what comes is behind
    what was printed (`PrintOrder`, `NextOrder`): strictly, until a confirm could not
    be sent, for then the same number is accepted again.
  - `Receipts`: confirms counted and under way are fewer than the number expected
    next (`Balance`), so a task that is done was printed (`Answered`); the rest
    (`Latest`, `Charge`) is about a neighbour who joins between two lines.
  - `Heard` and `Relaying`, for `AllIsDelivered` alone. `connect()` takes any
    datagram for the name of the parent, so a program may work while its parent
    never heard of it. The
    datagram was then a child's, and if it was the child's registration the
    child is not heard either: below a program that is not heard there is one
    that does not work (`Unheard`). If all work, all links are listed at both
    ends. A program whose `connect()` failed works without its parent in its
    list, which the premise of the theorem excludes (`HaveTheirParents`).

  Sides and trees are least closed sets, so no induction over the tree is needed.

Of the theorems, `NoWakeupIsLost`, `InOrderWithoutGaps`,
`NothingIsSilentlyLost`, `FewLossesAreSurvived`, `SocketClosedLast`,
`IdsAreUnique`, `TokenIsNewest`, `NobodyThrows`, `PagesFollowOn`,
`NothingElseIsMissed`, `EachIsOwnedOnce`, `NothingLost`, `ClosedWhenDone`,
`FdsAreClosedOnce`, `AgainIsAwaited`, `SocketPromises`, `NoEchoNoDuplicate`,
`AuthorsAreInOrder`, `CustodyIsKept`, `AllIsDelivered`, `FramesDoAwait`,
`SocketServesTheTop`, `AnswersBelong`, `ServersAreAskedFirst`, `ConfNeverLeaks`,
`NamesAreTriedOnce` and `PayloadStaysSound` are about properties that the runs
check as well. `EachIdComesOnce` and `ShuffleIsOneToOne` are about operators
alone. The others are about properties that were checked with the same
configurations when they were proved and are no longer repeated in a run: `Fifo`
and `NothingAfterWakeup` (which `ImplementsFifoQueue` contains),
`ConfirmBalance`, `ConfirmedWasAccepted`, `FailedSendStalls` and
`OneTaskPerMessage` of `Link`, `TasksHaveAChecker` of `NodeLifecycle`,
`CounterBehindList` of `UserRegistry`, and `TypeOK` of these modules. The
invariants the proofs rest on were checked by TLC first.

Left to TLC:

* Everything temporal (`WakeupFreesConsumers`, `EveryMessageIsSettled`,
  `QuitTerminates`, `StaleNameIsFreed`, `EveryMessageIsPaged`,
  `EveryClientIsClosed`, `CheckReturns`, `EveryQueryEnds`, the fairness of the
  refinement of `FifoQueue`): liveness is beyond this prover.
* `MemoIsStudy`, `ReadsBack` and `ShuffleVisitsEachOnce` of `DnsPacket` say what
  functions compute that go from record to record, over packets of any length,
  and what the names are that are read back: induction over data.
* `ReadAsListed` of `DnsConf` compares what the parser has put together, word by
  word, with filters and folds over the lines: induction over data again.

## 7. What the models found

With a run:

* **One name is compressed into another.** `dns_d_comp()` looks in the dictionary
  for a name that ends like the one it writes. When a comparison fails after a
  first label that is equal, `a.label` holds a later label of the name being
  written, and the next name of the dictionary is compared with it as if it were
  the first of the suffix (`dns.c:2293`). After x.z and y.y, the name x.y is
  written as a pointer to y.y and reads back as y.y. A copy of the function,
  compiled by itself, does the same. A packet copied record by record
  (`dns.c:9129-9132` shows `orig:` and `copy:` beside each other) may thus differ
  from its original, and the addresses that `dns_res_exec()` copies into the
  hints with the remark "Now there's glue." (`dns.c:7487`) may stand there under
  a name it does not look for (`dns_packet_names`).

Read in the code while it was modelled; the models behave the same way, and the
properties allow for it where they touch it:

* Third lab: `connect()` catches an `IOException` and returns true
  (`Server.java:69-72`), and `main()` goes on after an `UnknownHostException`
  (lines 33-35): the program works without its parent and tells nobody. A
  neighbour that confirms the last resend is removed as "Node timeouted" because
  `Checker.java:50` tests the number of failures before line 53 looks at the
  confirms. One lost confirm costs a link that carries nothing more. A program
  that cannot register announces "Cannot register, closing now"
  (`Server.java:66`) and never ends: the Checker was started by the constructor
  of a Sender that is never started and would have to stop it.
* Fourth and fifth lab: `UserStorage.java:35` decides by the first user of a name
  in a list from which nobody is removed. Once that user has left, each later
  login with the name succeeds, also beside one who is online, in spite of
  "Username is already in use" (`CommonHandlers.java:16`).
* Proxy: the length of a request by name is compared with 2 more instead of 7
  (`proxy.c:156`), so the request of a slow client is resolved before all of the
  name is there, and its end is sent to the server. `openServerSocket()` returns
  its socket also when `connect()` has failed, so a client is told that its
  connection is granted and `proxy.c:149` is never reached. A connection dropped
  at `proxy.c:128` is not left. An answer of the resolver without an address
  reaches `parseDNS()`, which then uses a buffer that nothing was written to.
* Resolver: the attempts of a frame are not reset between the names of a search;
  after "Temporarily disable EDNS0 and try again" (`dns.c:7553`) the next address
  is tried, not the same; the fallback for mail servers asks for the name without
  the domain that was found by the search; a merged answer has the header of
  neither; referrals are not bounded, and neither is the wait for a cache. The
  address of an IPv6 name server is put into the hints as AAAA (`dns.c:5928`) and
  only A is looked for (the FIXME at `dns.c:7225` knows), so that with such servers
  alone in resolv.conf each query ends in SERVFAIL and nobody was asked.
  `dns_p_grow()` computes the new size from what is used instead of what is
  allocated, so that the loop at `dns.c:7725` may repeat without end.
* Packets: `dns_ns_push()` and `dns_mx_push()` step over the length of the data
  (`dns.c:3229`, `3161`) and write it after the name. When a push was taken back
  with an error (`DNS_EORDER`, say), its names stay in the dictionary. If one began
  where the next record has its length, `dns_d_comp()` compares the next name with
  what is left of it, finds it equal, and makes a pointer to the length, which reads back as
  the root: of a name in the data an end is lost.
* Configuration: a host name without a dot leaves "." as a search domain, although
  `dns.c:4443` says that none should be left; `[!UNAVAIL=return]` loses its
  negation; a second group of criteria ends the entry; "continue" is written as
  the letter that the resolver reads as "cache"; `lookup bind` keeps the "f" of
  the default behind it.

## 8. What is not modelled, and why

* Of the third lab: a program that registers again under the same address (its
  neighbour then holds two `NodeInfo` for it), and names that begin with M, C or
  R, which a Reciever takes for datagrams of that type. Both would be the next
  extension of `TreeChat`. A constructor that cannot bind its port ends the
  program before a thread exists. What datagrams look like as bytes, logging
  and time are abstracted as described above.
* Of the fourth and fifth lab: the pool of threads that the endless loop of each
  Updater takes one from; offsets near the limit of 32 bits, which no client of
  the repository sends; the fifth lab's list of users, which prints more than
  the fourth's. Routing and JSON are pure input and output.
* Of the proxy: more clients than places in the table, clients that stall in the
  middle of a request, a `poll()` that fails, and signals other than that of a
  `write()`.
* Of `dns.c`: `dns_ai_*`, which replaces `getaddrinfo()` and has no caller in the
  repository; record types the resolver does not look into; bytes that are no
  packet (labels that run out of it, pointers in a circle), except that the
  header and question are compared; names longer than 255 bytes; the order
  `dns_rr_i_order()`, which is not transitive; printing, tracing, and the command
  line of its `main()`. TEA and `strcasecmp` are abstracted as described above.
* The first and second lab: one thread with a table, and tasks that share nothing
  but a directory. Their hazards are listed, and a model of them is left to
  whoever changes those programs.
* The build files, the settings and the test hold no state.
