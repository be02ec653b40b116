------------------------------ MODULE MessageFeed ------------------------------
(***************************************************************************)
(* The messages of the chat server (fifth lab): MessageStorage, whose      *)
(* create() and getAll() run without a lock in the threads of the          *)
(* handlers, and its two kinds of readers.  The client of the fourth lab   *)
(* asks for pages once a second; to the client of the fifth the Updater    *)
(* pushes what is new.                                                     *)
(*                                                                         *)
(* A message is modelled by its id and by the number of its create(), text *)
(* and author are left out.  Each access to currID or to the map is an     *)
(* action.  The stream over the map is weakly consistent: it sees what was *)
(* stored when it began, and any part of what is stored before it ends.    *)
(* It begins with the access before it, which only lets it see less.       *)
(***************************************************************************)
EXTENDS Naturals, Sequences, FiniteSets

CONSTANTS Posters,      \* handlers of POST /messages
          Pagers,       \* clients of the fourth lab
          Listeners,    \* clients of the fifth lab, each with its Updater
          None,         \* no message
          PageSize,     \* 100 in the code
          MaxMessages,  \* bound: messages ever created
          MaxLost,      \* bound: answers to pagers that are lost
          MaxClients    \* bound: clients that come

Keys == 0..(MaxMessages - 1)
Message == [id : Keys, by : 1..MaxMessages]

ASSUME FeedAssumption ==
  /\ None \notin Message
  /\ PageSize \in Nat \ {0}
  /\ MaxMessages \in Nat
  /\ MaxLost \in Nat
  /\ MaxClients \in Nat
  /\ IsFiniteSet(Pagers \cup Listeners)
  /\ Pagers \cap Listeners = {}

VARIABLES messageMap,  \* MessageStorage.messageMap, None where there is no key
          currID,      \* MessageStorage.currID
          created,     \* how many create() have begun
          post,        \* where each create() is
          message,     \* the Message each create() has made
          reg,         \* the value of currID each create() has read last
          at,          \* where each reader, or the handler that serves it, is
          i,           \* getMessages: pages received in this round
          offset, count,  \* arguments of getAll()
          start, end,  \* its range
          begun,       \* keys that were there when its stream began
          list,        \* what each client has received, in order
          n,           \* Updater: how many messages are behind it
          wire,        \* texts on their way to the client of a listener
          lost,        \* answers lost so far
          overlap,     \* history: two create() were at work at the same time
          late,        \* history: a page that was not full was followed by
                       \* one that was not empty
          missed       \* history: keys a getAll() of the Updater was asked for
                       \* that had been stored and not yet counted

storage == <<messageMap, currID>>
posting == <<created, post, message, reg, overlap>>
call == <<i, offset, count, start, end, begun>>
client == <<list, wire, lost>>
history == <<late, missed>>
vars == <<storage, posting, at, call, client, n, history>>

Readers == Pagers \cup Listeners
Stored == {k \in Keys : messageMap[k] # None}
Size == Cardinality(Stored)

Lesser(a, b) == IF a < b THEN a ELSE b

(* sorted(comparing(getId)): as many messages as come before it stand       *)
(* before each; equal ids need two create() at a time.                      *)
Before(a, b) == a.id < b.id \/ (a.id = b.id /\ a.by < b.by)
Place(m, S) == Cardinality({o \in S : Before(o, m)}) + 1
Sorted(S) == [j \in 1..Cardinality(S) |-> CHOOSE m \in S : Place(m, S) = j]

(* What a stream that began with the keys begun[r] may collect.             *)
Streams(r) ==
  {Sorted({messageMap[k] : k \in begun[r] \cup K}) : K \in SUBSET (Stored \ begun[r])}

Init ==
  /\ messageMap = [k \in Keys |-> None]
  /\ currID = 0
  /\ created = 0
  /\ post = [p \in Posters |-> "idle"]
  /\ message = [p \in Posters |-> None]
  /\ reg = [p \in Posters |-> 0]
  /\ at = [r \in Readers |-> "away"]
  /\ i = [r \in Pagers |-> 0]
  /\ offset = [r \in Readers |-> 0]
  /\ count = [r \in Readers |-> 0]
  /\ start = [r \in Readers |-> 0]
  /\ end = [r \in Readers |-> 0]
  /\ begun = [r \in Readers |-> {}]
  /\ list = [r \in Readers |-> <<>>]
  /\ n = [l \in Listeners |-> 0]
  /\ wire = [l \in Listeners |-> <<>>]
  /\ lost = 0
  /\ overlap = FALSE
  /\ late = [r \in Pagers |-> FALSE]
  /\ missed = [l \in Listeners |-> {}]

Posts(p, from, to) == post[p] = from /\ post' = [post EXCEPT ![p] = to]
Goes(r, from, to) == at[r] = from /\ at' = [at EXCEPT ![r] = to]

(* The arguments and variables of a call are gone when it has returned.     *)
Asks(r, o, c) == offset' = [offset EXCEPT ![r] = o] /\ count' = [count EXCEPT ![r] = c]
Returns(r) ==
  /\ start' = [start EXCEPT ![r] = 0]
  /\ end' = [end EXCEPT ![r] = 0]
  /\ begun' = [begun EXCEPT ![r] = {}]

Fits(r, all) == start[r] <= end[r] /\ end[r] <= Len(all)
SubList(r, all) == SubSeq(all, start[r] + 1, end[r])

AsksPage(r, page, o) ==
  /\ Goes(r, at[r], "start")
  /\ i' = [i EXCEPT ![r] = page]
  /\ Asks(r, o, PageSize)

EndsRound(r) ==
  /\ Goes(r, at[r], "off")
  /\ i' = [i EXCEPT ![r] = 0]
  /\ Asks(r, 0, 0)

Sends(l, batch) == wire' = [wire EXCEPT ![l] = Append(@, batch)]

-----------------------------------------------------------------------------
(* Faults a change of the code could introduce; each must make one of the   *)
(* properties below fail.  They are used by no specification.               *)

(* The counter is incremented before the message is stored, and again after.*)
FaultCountsFirst(p) ==
  /\ Posts(p, "key", "put")
  /\ reg' = [reg EXCEPT ![p] = currID]
  /\ currID' = currID + 1
  /\ UNCHANGED <<messageMap, created, message, overlap, at, call, client, n, history>>

(* The last message of the range is left out.                               *)
FaultEndsEarly(r) ==
  /\ Goes(r, "end", "collect")
  /\ end' = [end EXCEPT ![r] = Lesser(offset[r] + count[r], IF currID = 0 THEN 0 ELSE currID - 1)]
  /\ begun' = [begun EXCEPT ![r] = Stored]
  /\ UNCHANGED <<storage, posting, i, offset, count, start, client, n, history>>

(* The answer is lost after addAll(), and the page is asked for again.      *)
FaultLosesLate(r) ==
  /\ at[r] = "collect"
  /\ lost < MaxLost
  /\ lost' = lost + 1
  /\ \E all \in Streams(r) : Fits(r, all) /\ list' = [list EXCEPT ![r] = @ \o SubList(r, all)]
  /\ AsksPage(r, i[r], offset[r])
  /\ Returns(r)
  /\ UNCHANGED <<storage, posting, wire, n, history>>

(* n is set to the size after the push.                                     *)
FaultSizesAgain(l) ==
  /\ Goes(l, "collect", "sleep")
  /\ \E all \in Streams(l) : Fits(l, all) /\ Sends(l, SubList(l, all))
  /\ n' = [n EXCEPT ![l] = Size]
  /\ Asks(l, 0, 0) /\ Returns(l)
  /\ UNCHANGED <<storage, posting, i, list, lost, history>>

-----------------------------------------------------------------------------
(* MessageStorage.create.                                                   *)

NewMessage(p) ==
  /\ Posts(p, "idle", "key")
  /\ created < MaxMessages
  /\ created' = created + 1
  /\ message' = [message EXCEPT ![p] = [id |-> currID, by |-> created + 1]]
  /\ overlap' = (overlap \/ \E q \in Posters : post[q] # "idle")
  /\ UNCHANGED <<storage, reg, at, call, client, n, history>>

ReadsKey(p) ==
  /\ Posts(p, "key", "put")
  /\ reg' = [reg EXCEPT ![p] = currID]
  /\ UNCHANGED <<storage, created, message, overlap, at, call, client, n, history>>

Puts(p) ==
  /\ Posts(p, "put", "readCount")
  /\ messageMap' = [messageMap EXCEPT ![reg[p]] = message[p]]
  /\ message' = [message EXCEPT ![p] = None]
  /\ UNCHANGED <<currID, created, reg, overlap, at, call, client, n, history>>

(* currID++ is a read and a write.                                          *)
ReadsCount(p) ==
  /\ Posts(p, "readCount", "writeCount")
  /\ reg' = [reg EXCEPT ![p] = currID]
  /\ UNCHANGED <<storage, created, message, overlap, at, call, client, n, history>>

WritesCount(p) ==
  /\ Posts(p, "writeCount", "idle")
  /\ currID' = reg[p] + 1
  /\ reg' = [reg EXCEPT ![p] = 0]
  /\ UNCHANGED <<messageMap, created, message, overlap, at, call, client, n, history>>

-----------------------------------------------------------------------------
(* MessageStorage.getAll with a range, for either kind of reader.           *)

ReadsStart(r) ==
  /\ Goes(r, "start", "end")
  /\ start' = [start EXCEPT ![r] = Lesser(offset[r], currID)]
  /\ UNCHANGED <<storage, posting, i, offset, count, end, begun, client, n, history>>

ReadsEnd(r) ==
  /\ Goes(r, "end", "collect")
  /\ end' = [end EXCEPT ![r] = Lesser(offset[r] + count[r], currID)]
  /\ begun' = [begun EXCEPT ![r] = Stored]
  /\ missed' = IF r \in Listeners
               THEN [missed EXCEPT ![r] = @ \cup {k \in offset[r]..(offset[r] + count[r] - 1) : k >= currID}]
               ELSE missed
  /\ UNCHANGED <<storage, posting, i, offset, count, start, client, n, late>>

(* subList() throws: the client is answered with an error and ends, the     *)
(* Updater ends.                                                            *)
Throws(r) ==
  /\ Goes(r, "collect", "dead")
  /\ \E all \in Streams(r) : ~Fits(r, all)
  /\ Asks(r, 0, 0) /\ Returns(r)
  /\ UNCHANGED <<storage, posting, i, client, n, history>>

-----------------------------------------------------------------------------
(* Client.updateMessages and getMessages of the fourth lab.                 *)

(* main() of either client, up to the first request.                        *)
Comes(r) == Cardinality({q \in Readers : at[q] # "away"}) < MaxClients

LogsIn(r) ==
  /\ Comes(r)
  /\ Goes(r, "away", "off")
  /\ UNCHANGED <<storage, posting, call, client, n, history>>

StartsRound(r) ==
  /\ at[r] = "off"
  /\ AsksPage(r, 0, Len(list[r]))
  /\ UNCHANGED <<storage, posting, start, end, begun, client, n, history>>

(* The loop goes on until a page is empty, one full page further each time. *)
GetsPage(r) ==
  /\ at[r] = "collect"
  /\ \E all \in Streams(r) :
       LET buffer == SubList(r, all) IN
       /\ Fits(r, all)
       /\ list' = [list EXCEPT ![r] = @ \o buffer]
       /\ late' = [late EXCEPT ![r] = @ \/ (Len(list[r]) < offset[r] /\ buffer # <<>>)]
       /\ IF buffer = <<>> THEN EndsRound(r) ELSE AsksPage(r, i[r] + 1, offset[r] + PageSize)
  /\ Returns(r)
  /\ UNCHANGED <<storage, posting, wire, lost, n, missed>>

(* IOException: buffer is empty and i stays, so the first page is asked for *)
(* again, and a later one ends the round.                                   *)
LosesPage(r) ==
  /\ at[r] = "collect"
  /\ lost < MaxLost
  /\ lost' = lost + 1
  /\ IF i[r] = 0 THEN AsksPage(r, 0, offset[r]) ELSE EndsRound(r)
  /\ Returns(r)
  /\ UNCHANGED <<storage, posting, list, wire, n, history>>

-----------------------------------------------------------------------------
(* Updater.onFullTextMessage, and WSConnection at the client.               *)

Connects(l) ==
  /\ Comes(l)
  /\ Goes(l, "away", "first")
  /\ n' = [n EXCEPT ![l] = Size]
  /\ begun' = [begun EXCEPT ![l] = Stored]
  /\ UNCHANGED <<storage, posting, i, offset, count, start, end, client, late, missed>>

SendsAll(l) ==
  /\ Goes(l, "first", "sleep")
  /\ \E all \in Streams(l) : Sends(l, all)
  /\ Returns(l)
  /\ UNCHANGED <<storage, posting, i, offset, count, list, lost, n, history>>

SeesMore(l) ==
  /\ Goes(l, "sleep", "start")
  /\ n[l] < Size
  /\ Asks(l, n[l], Size - n[l])
  /\ UNCHANGED <<storage, posting, i, start, end, begun, client, n, history>>

SendsNew(l) ==
  /\ Goes(l, "collect", "sleep")
  /\ \E all \in Streams(l) : Fits(l, all) /\ Sends(l, SubList(l, all))
  /\ n' = [n EXCEPT ![l] = offset[l] + count[l]]
  /\ Asks(l, 0, 0) /\ Returns(l)
  /\ UNCHANGED <<storage, posting, i, list, lost, history>>

(* processMessage(); the main thread prints what it finds in that order.    *)
ProcessMessage(l) ==
  /\ wire[l] # <<>>
  /\ wire' = [wire EXCEPT ![l] = Tail(@)]
  /\ list' = [list EXCEPT ![l] = @ \o Head(wire[l])]
  /\ UNCHANGED <<storage, posting, at, call, lost, n, history>>

-----------------------------------------------------------------------------
Create(p) == ReadsKey(p) \/ Puts(p) \/ ReadsCount(p) \/ WritesCount(p)

GetAll(r) == ReadsStart(r) \/ ReadsEnd(r) \/ Throws(r)

Page(r) == StartsRound(r) \/ GetAll(r) \/ GetsPage(r)

Update(l) == SendsAll(l) \/ SeesMore(l) \/ GetAll(l) \/ SendsNew(l)

Next ==
  \/ \E p \in Posters : NewMessage(p) \/ Create(p)
  \/ \E r \in Pagers : LogsIn(r) \/ Page(r) \/ LosesPage(r)
  \/ \E l \in Listeners : Connects(l) \/ Update(l) \/ ProcessMessage(l)

Spec == Init /\ [][Next]_vars

(* Handlers and the Updater run on, a client of the fourth lab asks once a  *)
(* second, and the WebSocket delivers.  Nobody need post or connect.        *)
FairSpec ==
  /\ Spec
  /\ \A p \in Posters : WF_vars(Create(p))
  /\ \A r \in Pagers : WF_vars(Page(r))
  /\ \A l \in Listeners : WF_vars(Update(l)) /\ WF_vars(ProcessMessage(l))

-----------------------------------------------------------------------------
(* Every variable has its type.                                             *)
TypeOK ==
  /\ messageMap \in [Keys -> Message \cup {None}]
  /\ currID \in 0..MaxMessages
  /\ created \in 0..MaxMessages
  /\ post \in [Posters -> {"idle", "key", "put", "readCount", "writeCount"}]
  /\ message \in [Posters -> Message \cup {None}]
  /\ reg \in [Posters -> 0..MaxMessages]
  /\ at \in [Readers -> {"away", "off", "first", "sleep", "start", "end", "collect", "dead"}]
  /\ i \in [Pagers -> Nat]
  /\ offset \in [Readers -> Nat]
  /\ count \in [Readers -> 0..(PageSize + MaxMessages)]
  /\ start \in [Readers -> 0..MaxMessages]
  /\ end \in [Readers -> 0..MaxMessages]
  /\ begun \in [Readers -> SUBSET Keys]
  /\ list \in [Readers -> Seq(Message)]
  /\ n \in [Listeners -> 0..MaxMessages]
  /\ wire \in [Listeners -> Seq(Seq(Message))]
  /\ lost \in 0..MaxLost
  /\ overlap \in BOOLEAN
  /\ late \in [Pagers -> BOOLEAN]
  /\ missed \in [Listeners -> SUBSET Keys]

(* Under the same condition getAll() never cuts more than it has: its three *)
(* accesses, to the counter twice and to the map, fit together in spite of  *)
(* the messages that are added between them.                                *)
NeverThrows == ~overlap => \A r \in Readers : at[r] # "dead"

(* The pages a client puts together are the messages from the first one on, *)
(* without a gap or a repetition, also when answers are lost; unless a page *)
(* was not full and messages came before the next request, which goes one   *)
(* full page further all the same, and it brought some.                     *)
PagesArePrefix ==
  ~overlap => \A r \in Pagers : ~late[r] =>
                \A j \in DOMAIN list[r] : list[r][j].id = j - 1

Has(r, k) == \E j \in DOMAIN list[r] : list[r][j].id = k

(* What the Updater has sent so far, whether it has arrived or not.         *)
Sent(l, k) ==
  Has(l, k) \/ \E t \in DOMAIN wire[l] : \E j \in DOMAIN wire[l][t] : wire[l][t][j].id = k

(* What is behind the Updater has been sent, except a message that was in   *)
(* the map when size() was called and not yet counted when getAll() read    *)
(* the counter: that one is never sent.                                     *)
PushedUnlessUncounted ==
  ~overlap => \A l \in Listeners : at[l] \in {"sleep", "start", "end", "collect"} =>
    \A k \in 0..(n[l] - 1) : k \in missed[l] \/ Sent(l, k)

(* Every message that is counted reaches every client that asks for pages.  *)
EveryMessageIsPaged ==
  \A r \in Pagers : \A k \in Keys :
    at[r] # "away" /\ currID > k ~> Has(r, k) \/ overlap \/ late[r]
=============================================================================
