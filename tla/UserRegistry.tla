---------------------------- MODULE UserRegistry ----------------------------
(***************************************************************************)
(* The users of the chat server (fourth lab; the fifth has the same code): *)
(* UserStorage with its list of users, its map of tokens and its counter,  *)
(* the handlers that call it, each in a thread of its own, and the main    *)
(* loop of the clients whose requests they serve.  Nothing in UserStorage  *)
(* is locked: the collections are concurrent, the counter is a plain Long, *)
(* and every access to one of them is an action.                           *)
(*                                                                         *)
(* generateToken() computes the token from the name alone, so a token is   *)
(* modelled by the name it belongs to.  Time is modelled by what check()   *)
(* asks of it: whether lastseen is more than TIMEOUT ago ("stale").        *)
(***************************************************************************)
EXTENDS Naturals, Sequences, FiniteSets

CONSTANTS Clients,   \* client programs, each with one request at a time
          Names,     \* names the users choose from
          None,      \* no id
          MaxUsers   \* bound: users ever created

ASSUME RegistryAssumption ==
  /\ None \notin Nat
  /\ IsFiniteSet(Clients)
  /\ MaxUsers \in Nat

VARIABLES users,    \* UserStorage.userList
          tokens,   \* UserStorage.tokenMap: for each name the id of its token
          currID,   \* UserStorage.currID
          pc,       \* where each client, or the handler that serves it, is
          name,     \* the name each client has logged in with
          target,   \* index of the User the handler holds, 0 if none
          token,    \* the entry removeToken() has found
          id,       \* the value of currID the handler has read last
          seen,     \* how many users the client has in its own list
          overlap   \* history: a create() read currID while another one was
                    \* between its first read and its increment

storage == <<users, tokens, currID>>
locals == <<name, target, token, id, seen>>
vars == <<storage, pc, locals, overlap>>

(* Boolean online: null is "timedOut".                                      *)
Online == {"yes", "no", "timedOut"}

First(S) == IF S = {} THEN 0 ELSE CHOOSE i \in S : \A j \in S : i <= j

ByName(n) == First({i \in DOMAIN users : users[i].name = n})

ById(k) == First({i \in DOMAIN users : users[i].id = k})

(* checkToken(): the first user with the id of the token, 0 if there is no  *)
(* such token or no such user.  The list only grows and an id never         *)
(* changes, so the two reads are one.                                       *)
CheckToken(n) == ById(tokens[n])

(* User.check()                                                             *)
Checked(user) == IF user.stale THEN [user EXCEPT !.online = "timedOut"] ELSE user

(* listUsers() checks all users, get() those up to the one it looks for.    *)
ListUsers == [i \in DOMAIN users |-> Checked(users[i])]

GetUser(k) ==
  [i \in DOMAIN users |->
    IF ById(k) = 0 \/ i <= ById(k) THEN Checked(users[i]) ELSE users[i]]

(* Between the first read of currID and its increment.                      *)
Numbering(c) ==
  pc[c] \in {"addUser", "readID", "putToken", "readCounter", "writeCounter"}

(* In create(), and its user is not in the list yet.                        *)
Pending(c) ==
  pc[c] \in {"lookup", "testOnline", "findToken", "dropToken", "newUser", "addUser"}

Creating(c) == Pending(c) \/ Numbering(c)

Init ==
  /\ users = <<>>
  /\ tokens = [n \in Names |-> None]
  /\ currID = 0
  /\ pc = [c \in Clients |-> "off"]
  /\ name = [c \in Clients |-> None]
  /\ target = [c \in Clients |-> 0]
  /\ token = [c \in Clients |-> None]
  /\ id = [c \in Clients |-> 0]
  /\ seen = [c \in Clients |-> 0]
  /\ overlap = FALSE

Step(c, from, to) == pc[c] = from /\ pc' = [pc EXCEPT ![c] = to]

(* What a handler holds is gone when it needs it no more.                   *)
Holds(c, i) == target' = [target EXCEPT ![c] = i]

(* The client starts again: with another name, or as another program.       *)
Ends(c) ==
  /\ pc' = [pc EXCEPT ![c] = "off"]
  /\ name' = [name EXCEPT ![c] = None]
  /\ seen' = [seen EXCEPT ![c] = 0]
  /\ Holds(c, 0)

-----------------------------------------------------------------------------
(* Faults a change of the code could introduce; each must make one of the   *)
(* properties below fail.  They are used by no specification.               *)

(* currID is not incremented.                                               *)
FaultNotCounted(c) ==
  /\ Step(c, "writeCounter", "list")
  /\ id' = [id EXCEPT ![c] = 0]
  /\ UNCHANGED <<storage, name, target, token, seen, overlap>>

(* The token is stored with ++currID.                                       *)
FaultNextID(c) ==
  /\ Step(c, "readID", "putToken")
  /\ id' = [id EXCEPT ![c] = currID + 1]
  /\ UNCHANGED <<storage, name, target, token, seen, overlap>>

(* listUsers() does not call check().                                       *)
FaultListsUnchecked(c) ==
  /\ Step(c, "listing", "poll")
  /\ seen' = [seen EXCEPT ![c] = Len(users)]
  /\ Holds(c, 0)
  /\ UNCHANGED <<storage, name, token, id, overlap>>

-----------------------------------------------------------------------------
(* UserStorage.create, called by LoginHandler.                              *)

Login(c, n) ==
  /\ Step(c, "off", "lookup")
  /\ Len(users) + Cardinality({d \in Clients : Pending(d)}) < MaxUsers
  /\ name' = [name EXCEPT ![c] = n]
  /\ UNCHANGED <<storage, target, token, id, seen, overlap>>

(* The first user of that name decides, also when it has left and a later   *)
(* one of the same name is online.                                          *)
LooksUpName(c) ==
  LET i == ByName(name[c]) IN
  /\ Step(c, "lookup", IF i = 0 THEN "newUser"
                       ELSE IF users[i].online = "timedOut" THEN "findToken"
                       ELSE "testOnline")
  /\ Holds(c, i)
  /\ UNCHANGED <<storage, name, token, id, seen, overlap>>

(* isOnline() is called a second time: a user who is online is not replaced *)
(* (401), and one that timed out since the first call makes the test throw  *)
(* (400).  The client asks for another name.                                *)
TestsOnline(c) ==
  /\ pc[c] = "testOnline"
  /\ IF users[target[c]].online = "no"
     THEN Step(c, "testOnline", "findToken") /\ UNCHANGED <<name, target, seen>>
     ELSE Ends(c)
  /\ UNCHANGED <<storage, token, id, overlap>>

FindsToken(c) ==
  /\ pc[c] = "findToken"
  /\ \/ \E t \in Names : /\ tokens[t] = users[target[c]].id
                         /\ token' = [token EXCEPT ![c] = t]
                         /\ Step(c, "findToken", "dropToken")
     \/ /\ \A t \in Names : tokens[t] # users[target[c]].id
        /\ Step(c, "findToken", "newUser")
        /\ UNCHANGED token
  /\ Holds(c, 0)
  /\ UNCHANGED <<storage, name, id, seen, overlap>>

DropsToken(c) ==
  /\ Step(c, "dropToken", "newUser")
  /\ tokens' = [tokens EXCEPT ![token[c]] = None]
  /\ token' = [token EXCEPT ![c] = None]
  /\ UNCHANGED <<users, currID, name, target, id, seen, overlap>>

ReadsID(c) ==
  /\ Step(c, "newUser", "addUser")
  /\ id' = [id EXCEPT ![c] = currID]
  /\ overlap' = (overlap \/ \E d \in Clients \ {c} : Numbering(d))
  /\ UNCHANGED <<storage, name, target, token, seen>>

AddsUser(c) ==
  /\ Step(c, "addUser", "readID")
  /\ users' = Append(users, [id |-> id[c], name |-> name[c], online |-> "yes",
                             stale |-> FALSE])
  /\ UNCHANGED <<tokens, currID, locals, overlap>>

ReadsIDAgain(c) ==
  /\ Step(c, "readID", "putToken")
  /\ id' = [id EXCEPT ![c] = currID]
  /\ UNCHANGED <<storage, name, target, token, seen, overlap>>

PutsToken(c) ==
  /\ Step(c, "putToken", "readCounter")
  /\ tokens' = [tokens EXCEPT ![name[c]] = id[c]]
  /\ UNCHANGED <<users, currID, locals, overlap>>

(* currID++ on a Long: read and write.                                      *)
ReadsCounter(c) ==
  /\ Step(c, "readCounter", "writeCounter")
  /\ id' = [id EXCEPT ![c] = currID]
  /\ UNCHANGED <<storage, name, target, token, seen, overlap>>

WritesCounter(c) ==
  /\ Step(c, "writeCounter", "list")
  /\ currID' = id[c] + 1
  /\ id' = [id EXCEPT ![c] = 0]
  /\ UNCHANGED <<users, tokens, name, target, token, seen, overlap>>

-----------------------------------------------------------------------------
(* The requests of a client that has logged in.  Every handler begins with  *)
(* checkToken(); without a user the answer is 401 and the client ends.      *)
Asks(c, at, to) ==
  LET i == CheckToken(name[c]) IN
  /\ pc[c] = at
  /\ IF i = 0
     THEN Ends(c)
     ELSE Step(c, at, to) /\ Holds(c, i) /\ UNCHANGED <<name, seen>>
  /\ UNCHANGED <<storage, token, id, overlap>>

AsksList(c) == Asks(c, "list", "listing")

(* updateList() of the client: for a user it has not seen before it takes   *)
(* online for a boolean, and dies of one that is null.                      *)
DiesOfList(c, newUsers) ==
  \E i \in (seen[c] + 1)..Len(newUsers) : newUsers[i].online = "timedOut"

ListsUsers(c) ==
  /\ pc[c] = "listing"
  /\ users' = ListUsers
  /\ IF DiesOfList(c, users')
     THEN Ends(c)
     ELSE /\ Step(c, "listing", "poll")
          /\ seen' = [seen EXCEPT ![c] = Len(users)]
          /\ Holds(c, 0)
          /\ UNCHANGED name
  /\ UNCHANGED <<tokens, currID, token, id, overlap>>

(* MessageListHandler and UserInfoHandler call update().                    *)
AsksMessages(c) == Asks(c, "poll", "update")
AsksInfo(c) == Asks(c, "input", "updateInfo")

UpdatesUser(c) ==
  /\ \/ Step(c, "update", "input")
     \/ Step(c, "updateInfo", "info")
  /\ users' = [users EXCEPT ![target[c]].stale = FALSE]
  /\ Holds(c, 0)
  /\ UNCHANGED <<tokens, currID, name, token, id, seen, overlap>>

GetsUser(c) ==
  /\ Step(c, "info", "list")
  /\ \E k \in 0..Len(users) : users' = GetUser(k)
  /\ Holds(c, 0)
  /\ UNCHANGED <<tokens, currID, name, token, id, seen, overlap>>

(* Nothing typed, "/list" or a message: the loop of work() starts again.    *)
Continues(c) ==
  /\ Step(c, "input", "list")
  /\ UNCHANGED <<storage, locals, overlap>>

(* "/quit": LogoutHandler, UserStorage.delete.                              *)
Quits(c) == Asks(c, "input", "setOffline")

SetsOffline(c) ==
  /\ Step(c, "setOffline", "removeToken")
  /\ users' = [users EXCEPT ![target[c]].online = "no"]
  /\ Holds(c, 0)
  /\ UNCHANGED <<tokens, currID, name, token, id, seen, overlap>>

RemovesToken(c) ==
  /\ pc[c] = "removeToken"
  /\ tokens' = [tokens EXCEPT ![name[c]] = None]
  /\ Ends(c)
  /\ UNCHANGED <<users, currID, token, id, overlap>>

Crashes(c) ==
  /\ pc[c] \in {"list", "poll", "input"}
  /\ Ends(c)
  /\ UNCHANGED <<storage, token, id, overlap>>

(* More than TIMEOUT has passed since the last update() of the user.        *)
MinutePasses(i) ==
  /\ ~users[i].stale
  /\ users' = [users EXCEPT ![i].stale = TRUE]
  /\ UNCHANGED <<tokens, currID, pc, locals, overlap>>

-----------------------------------------------------------------------------
Create(c) ==
  \/ LooksUpName(c) \/ TestsOnline(c) \/ FindsToken(c) \/ DropsToken(c)
  \/ ReadsID(c) \/ AddsUser(c) \/ ReadsIDAgain(c) \/ PutsToken(c)
  \/ ReadsCounter(c) \/ WritesCounter(c)

Loop(c) ==
  \/ AsksList(c) \/ ListsUsers(c) \/ AsksMessages(c) \/ UpdatesUser(c)
  \/ GetsUser(c) \/ Continues(c) \/ SetsOffline(c) \/ RemovesToken(c)

Next ==
  \/ \E c \in Clients :
       \/ \E n \in Names : Login(c, n)
       \/ Create(c) \/ Loop(c) \/ AsksInfo(c) \/ Quits(c) \/ Crashes(c)
  \/ \E i \in DOMAIN users : MinutePasses(i)

Spec == Init /\ [][Next]_vars

(* Handlers run to their end, and a client that is logged in keeps asking   *)
(* for the list and the messages once a second.  Nothing is assumed of the  *)
(* users: nobody need log in, ask for more or quit.                         *)
FairSpec == Spec /\ \A c \in Clients : WF_vars(Create(c) \/ Loop(c))

-----------------------------------------------------------------------------
Users == [id : 0..MaxUsers, name : Names, online : Online, stale : BOOLEAN]

Places == {"off", "lookup", "testOnline", "findToken", "dropToken", "newUser",
           "addUser", "readID", "putToken", "readCounter", "writeCounter",
           "list", "listing", "poll", "update", "input", "updateInfo", "info",
           "setOffline", "removeToken"}

(* Every variable has its type.                                             *)
TypeOK ==
  /\ users \in Seq(Users)
  /\ tokens \in [Names -> (0..MaxUsers) \cup {None}]
  /\ currID \in 0..MaxUsers
  /\ pc \in [Clients -> Places]
  /\ name \in [Clients -> Names \cup {None}]
  /\ target \in [Clients -> 0..Len(users)]
  /\ token \in [Clients -> Names \cup {None}]
  /\ id \in [Clients -> 0..MaxUsers]
  /\ seen \in [Clients -> 0..Len(users)]
  /\ overlap \in BOOLEAN

(* However many logins race, the counter never runs ahead of the list: an   *)
(* increment belongs to a user who has been added, and what a create() has  *)
(* read of the counter leaves room for its own user.                        *)
CounterBehindList ==
  /\ currID <= Len(users)
  /\ \A c \in Clients : pc[c] = "writeCounter" => id[c] < Len(users)

(* As long as no two create() number their users at the same time, an id    *)
(* is a place in the list: no two users share one and none is left out.     *)
IdsArePlaces ==
  ~overlap => \A i \in DOMAIN users : users[i].id = i - 1

(* Under the same condition a token never speaks for a stranger: it names   *)
(* a user of its own name, and the newest one, whatever logouts, timeouts   *)
(* and refused logins do meanwhile (only while a newer one is between the   *)
(* list and the map does it still name the one before).                     *)
TokenNamesNewest ==
  ~overlap =>
    \A n \in Names : tokens[n] # None =>
      /\ CheckToken(n) # 0
      /\ users[CheckToken(n)].name = n
      /\ \A i \in (CheckToken(n) + 1)..Len(users) : users[i].name = n =>
           \E c \in Clients : /\ pc[c] \in {"readID", "putToken"}
                              /\ name[c] = n
                              /\ i = Len(users)

LooksAlive(i) ==
  i \in DOMAIN users /\ users[i].stale /\ users[i].online = "yes"

LoggedIn(c) == pc[c] # "off" /\ ~Creating(c)

(* A user who has not been heard of for longer than TIMEOUT does not keep   *)
(* the name, as long as anybody is logged in: create() does not look at the *)
(* clock, so this depends on the other clients asking for the list.         *)
StaleNameIsFreed ==
  \A i \in 1..MaxUsers :
    LooksAlive(i) ~> ~LooksAlive(i) \/ \A c \in Clients : ~LoggedIn(c)
=============================================================================
