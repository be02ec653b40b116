-------------------------- MODULE UserRegistryProofs --------------------------
(***************************************************************************)
(* Proofs about UserRegistry for any finite set of clients, any names and  *)
(* any number of users.  Two counts carry the invariant: the users who are *)
(* still to be added fit into the bound (Room), and every user in the list *)
(* whose increment is still to come leaves the counter one behind          *)
(* (Behind).                                                               *)
(***************************************************************************)
EXTENDS UserRegistry, FiniteSetTheorems, WellFoundedInduction, TLAPS

(* The clients at one of the places P.                                      *)
At(f, P) == {c \in Clients : f[c] \in P}

ToAdd == {"lookup", "testOnline", "findToken", "dropToken", "newUser", "addUser"}
Added == {"readID", "putToken", "readCounter", "writeCounter"}

LEMMA CountIsNat ==
  ASSUME NEW f, NEW P
  PROVE  IsFiniteSet(At(f, P)) /\ Cardinality(At(f, P)) \in Nat
<1>1. At(f, P) \subseteq Clients
  BY DEF At
<1>. QED
  BY <1>1, RegistryAssumption, FS_Subset, FS_CardinalityType DEF RegistryAssumption

SameSide(a, b, P) == (a \in P /\ b \in P) \/ (a \notin P /\ b \notin P)

(* A client that enters P is one more, one that leaves it one less, and a   *)
(* move inside or outside of P changes nothing.                             *)
LEMMA Count ==
  ASSUME pc \in [Clients -> Places], NEW P, NEW c \in Clients,
         NEW v \in Places, pc' = [pc EXCEPT ![c] = v]
  PROVE  /\ pc[c] \notin P /\ v \in P
              => Cardinality(At(pc', P)) = Cardinality(At(pc, P)) + 1
         /\ pc[c] \in P /\ v \notin P
              => Cardinality(At(pc', P)) = Cardinality(At(pc, P)) - 1
         /\ SameSide(pc[c], v, P)
              => Cardinality(At(pc', P)) = Cardinality(At(pc, P))
<1>1. IsFiniteSet(At(pc, P)) /\ Cardinality(At(pc, P)) \in Nat
  BY CountIsNat
<1>2. ASSUME pc[c] \notin P, v \in P
      PROVE  Cardinality(At(pc', P)) = Cardinality(At(pc, P)) + 1
  <2>1. At(pc', P) = At(pc, P) \cup {c} /\ c \notin At(pc, P)
    BY <1>2 DEF At
  <2>. QED
    BY <1>1, <2>1, FS_AddElement
<1>3. ASSUME pc[c] \in P, v \notin P
      PROVE  Cardinality(At(pc', P)) = Cardinality(At(pc, P)) - 1
  <2>1. At(pc', P) = At(pc, P) \ {c} /\ c \in At(pc, P)
    BY <1>3 DEF At
  <2>. QED
    BY <1>1, <2>1, FS_RemoveElement
<1>4. ASSUME SameSide(pc[c], v, P)
      PROVE  Cardinality(At(pc', P)) = Cardinality(At(pc, P))
  <2>1. At(pc', P) = At(pc, P)
    BY <1>4 DEF At, SameSide
  <2>. QED
    BY <2>1
<1>. QED
  BY <1>2, <1>3, <1>4 DEF SameSide

-----------------------------------------------------------------------------
(* Whoever is not off has a name.                                           *)
Named == \A c \in Clients : pc[c] # "off" => name[c] \in Names

(* The users in the list and those still to be added fit into the bound.    *)
Room == Len(users) + Cardinality(At(pc, ToAdd)) <= MaxUsers

(* For each user who was added and not yet counted the counter, and what a  *)
(* create() is about to write to it, are one behind the list.               *)
Behind ==
  /\ currID + Cardinality(At(pc, Added)) <= Len(users)
  /\ \A c \in Clients : pc[c] = "writeCounter" =>
       id[c] + Cardinality(At(pc, Added)) <= Len(users)

Bounds == TypeOK /\ Named /\ Room /\ Behind

(* A step changes the users in place, or adds one: the list never shrinks,  *)
(* and neither id nor name of a user ever change.                           *)
UsersKept ==
  /\ users' \in Seq(Users)
  /\ Len(users') = Len(users)
  /\ DOMAIN users' = DOMAIN users
  /\ \A i \in DOMAIN users : users'[i].id = users[i].id /\ users'[i].name = users[i].name

LEMMA KeptUsers ==
  ASSUME TypeOK,
         users' = [i \in DOMAIN users |-> users'[i]],
         \A i \in DOMAIN users : users'[i] \in Users,
         \A i \in DOMAIN users : users'[i].id = users[i].id /\ users'[i].name = users[i].name
  PROVE  UsersKept
<1>1. users \in Seq(Users) /\ Len(users) \in Nat /\ DOMAIN users = 1..Len(users)
  BY DEF TypeOK
<1>2. users' \in [1..Len(users) -> Users]
  BY <1>1
<1>. QED
  BY <1>1, <1>2 DEF UsersKept

(* Every set of places in the list has a first one.                         *)
LEMMA HasFirst ==
  ASSUME NEW S, S \subseteq Nat, S # {}
  PROVE  \E i \in S : \A j \in S : i <= j
<1>. DEFINE Less == {p \in Nat \X Nat : p[1] < p[2]}
<1>1. IsWellFoundedOn(Less, Nat)
  BY NatLessThanWellFounded DEF OpToRel
<1>2. PICK i \in S : \A j \in S : ~ (<<j, i>> \in Less)
  BY <1>1, WFMin
<1>3. ASSUME NEW j \in S PROVE i <= j
  <2>1. i \in Nat /\ j \in Nat /\ <<j, i>> \notin Less
    BY <1>2
  <2>2. ~ (j < i)
    BY <2>1
  <2>. QED
    BY <2>1, <2>2
<1>. QED
  BY <1>3

LEMMA FirstIsIndex ==
  ASSUME NEW S, S \subseteq DOMAIN users, TypeOK
  PROVE  /\ First(S) \in 0..Len(users)
         /\ S # {} => First(S) \in S /\ \A j \in S : First(S) <= j
<1>1. CASE S = {}
  BY <1>1 DEF First, TypeOK
<1>2. CASE S # {}
  <2>1. S \subseteq 1..Len(users)
    BY DEF TypeOK
  <2>2. \E i \in S : \A j \in S : i <= j
    BY <1>2, <2>1, HasFirst
  <2>. QED
    BY <1>2, <2>1, <2>2 DEF First, TypeOK
<1>. QED
  BY <1>1, <1>2

LEMMA ByNameIsIndex ==
  ASSUME TypeOK, NEW n
  PROVE  ByName(n) \in 0..Len(users)
<1>1. {i \in DOMAIN users : users[i].name = n} \subseteq DOMAIN users
  OBVIOUS
<1>. QED
  BY <1>1, FirstIsIndex DEF ByName

LEMMA ByIdIsIndex ==
  ASSUME TypeOK, NEW k
  PROVE  ById(k) \in 0..Len(users)
<1>1. {i \in DOMAIN users : users[i].id = k} \subseteq DOMAIN users
  OBVIOUS
<1>. QED
  BY <1>1, FirstIsIndex DEF ById

LEMMA CheckedKeepsUser ==
  ASSUME NEW user \in Users
  PROVE  /\ Checked(user) \in Users
         /\ Checked(user).id = user.id
         /\ Checked(user).name = user.name
BY DEF Checked, Users, Online

(* Every step but that of AddsUser keeps the users.                         *)
LEMMA StepKeepsUsers ==
  ASSUME TypeOK, [Next]_vars
  PROVE  UsersKept \/ \E c \in Clients : AddsUser(c)
<1>0. \A i \in DOMAIN users : users[i] \in Users
  BY DEF TypeOK
<1>1. CASE UNCHANGED users
  BY <1>1 DEF UsersKept, TypeOK
<1>2. ASSUME NEW c \in Clients, ListsUsers(c) PROVE UsersKept
  <2>1. users' = [i \in DOMAIN users |-> Checked(users[i])]
    BY <1>2 DEF ListsUsers, ListUsers
  <2>. QED
    BY <1>0, <2>1, CheckedKeepsUser, KeptUsers
<1>3. ASSUME NEW c \in Clients, UpdatesUser(c) PROVE UsersKept
  <2>1. users' = [users EXCEPT ![target[c]].stale = FALSE]
    BY <1>3 DEF UpdatesUser
  <2>2. \A i \in DOMAIN users :
          users'[i] = users[i] \/ users'[i] = [users[i] EXCEPT !.stale = FALSE]
    BY <2>1
  <2>3. \A i \in DOMAIN users : users'[i] \in Users /\ users'[i].id = users[i].id
                                /\ users'[i].name = users[i].name
    BY <1>0, <2>2 DEF Users
  <2>. QED
    BY <2>1, <2>3, KeptUsers
<1>4. ASSUME NEW c \in Clients, GetsUser(c) PROVE UsersKept
  <2>1. PICK k \in 0..Len(users) : users' = GetUser(k)
    BY <1>4 DEF GetsUser
  <2>2. /\ users' = [i \in DOMAIN users |-> users'[i]]
        /\ \A i \in DOMAIN users : users'[i] = users[i] \/ users'[i] = Checked(users[i])
    BY <2>1 DEF GetUser
  <2>. QED
    BY <1>0, <2>2, CheckedKeepsUser, KeptUsers
<1>5. ASSUME NEW c \in Clients, SetsOffline(c) PROVE UsersKept
  <2>1. users' = [users EXCEPT ![target[c]].online = "no"]
    BY <1>5 DEF SetsOffline
  <2>2. \A i \in DOMAIN users :
          users'[i] = users[i] \/ users'[i] = [users[i] EXCEPT !.online = "no"]
    BY <2>1
  <2>3. \A i \in DOMAIN users : users'[i] \in Users /\ users'[i].id = users[i].id
                                /\ users'[i].name = users[i].name
    BY <1>0, <2>2 DEF Users, Online
  <2>. QED
    BY <2>1, <2>3, KeptUsers
<1>6. ASSUME NEW u \in DOMAIN users, MinutePasses(u) PROVE UsersKept
  <2>1. users' = [users EXCEPT ![u].stale = TRUE]
    BY <1>6 DEF MinutePasses
  <2>2. \A i \in DOMAIN users :
          users'[i] = users[i] \/ users'[i] = [users[i] EXCEPT !.stale = TRUE]
    BY <2>1
  <2>3. \A i \in DOMAIN users : users'[i] \in Users /\ users'[i].id = users[i].id
                                /\ users'[i].name = users[i].name
    BY <1>0, <2>2 DEF Users
  <2>. QED
    BY <2>1, <2>3, KeptUsers
<1>. QED
  BY <1>1, <1>2, <1>3, <1>4, <1>5, <1>6
  DEF Next, Create, Loop, vars, storage, Login, LooksUpName, TestsOnline, FindsToken,
      DropsToken, ReadsID, ReadsIDAgain, PutsToken, ReadsCounter, WritesCounter,
      AsksList, AsksMessages, AsksInfo, Quits, Asks, Continues, RemovesToken, Crashes

-----------------------------------------------------------------------------
(* A step of a client that neither begins to create a user, nor adds one,   *)
(* nor counts one.  What it is going to write it has just read.             *)
Quiet(c) ==
  /\ \E v \in Places :
       /\ pc' = [pc EXCEPT ![c] = v]
       /\ SameSide(pc[c], v, Added)
       /\ v \in ToAdd => pc[c] \in ToAdd
       /\ v = "writeCounter" => id'[c] = currID
  /\ \A d \in Clients \ {c} : id'[d] = id[d]
  /\ currID' = currID

LEMMA StepKinds ==
  ASSUME TypeOK, [Next]_vars
  PROVE  \/ \E c \in Clients : \/ \E n \in Names : Login(c, n)
                               \/ AddsUser(c)
                               \/ WritesCounter(c)
                               \/ Quiet(c)
         \/ UNCHANGED <<pc, id, currID>>
<1>. USE DEF SameSide, Step, Ends, Places, Added, ToAdd, storage, locals, Holds, TypeOK
<1>1. ASSUME NEW c \in Clients, LooksUpName(c) PROVE Quiet(c)
  <2>. DEFINE v == IF ByName(name[c]) = 0 THEN "newUser"
                   ELSE IF users[ByName(name[c])].online = "timedOut" THEN "findToken"
                   ELSE "testOnline"
  <2>1. pc[c] = "lookup" /\ pc' = [pc EXCEPT ![c] = v] /\ UNCHANGED <<id, currID>>
    BY <1>1 DEF LooksUpName
  <2>2. v \in {"newUser", "findToken", "testOnline"}
    OBVIOUS
  <2>. HIDE DEF v
  <2>. QED
    BY <2>1, <2>2 DEF Quiet
<1>2. ASSUME NEW c \in Clients, TestsOnline(c) PROVE Quiet(c)
  BY <1>2 DEF TestsOnline, Quiet
<1>3. ASSUME NEW c \in Clients, FindsToken(c) PROVE Quiet(c)
  BY <1>3 DEF FindsToken, Quiet
<1>4. ASSUME NEW c \in Clients, DropsToken(c) PROVE Quiet(c)
  BY <1>4 DEF DropsToken, Quiet
<1>5. ASSUME NEW c \in Clients, ReadsID(c) PROVE Quiet(c)
  BY <1>5 DEF ReadsID, Quiet
<1>6. ASSUME NEW c \in Clients, ReadsIDAgain(c) PROVE Quiet(c)
  BY <1>6 DEF ReadsIDAgain, Quiet
<1>7. ASSUME NEW c \in Clients, PutsToken(c) PROVE Quiet(c)
  BY <1>7 DEF PutsToken, Quiet
<1>8. ASSUME NEW c \in Clients, ReadsCounter(c) PROVE Quiet(c)
  BY <1>8 DEF ReadsCounter, Quiet
<1>9. ASSUME NEW c \in Clients,
             \/ AsksList(c) \/ AsksMessages(c) \/ AsksInfo(c) \/ Quits(c)
      PROVE  Quiet(c)
  <2>1. PICK at \in {"list", "poll", "input"},
             v \in {"off", "listing", "update", "updateInfo", "setOffline"} :
          pc[c] = at /\ pc' = [pc EXCEPT ![c] = v] /\ UNCHANGED <<id, currID>>
    BY <1>9 DEF AsksList, AsksMessages, AsksInfo, Quits, Asks
  <2>. QED
    BY <2>1 DEF Quiet
<1>10. ASSUME NEW c \in Clients, ListsUsers(c) PROVE Quiet(c)
  BY <1>10 DEF ListsUsers, Quiet
<1>11. ASSUME NEW c \in Clients, UpdatesUser(c) PROVE Quiet(c)
  BY <1>11 DEF UpdatesUser, Quiet
<1>12. ASSUME NEW c \in Clients, GetsUser(c) PROVE Quiet(c)
  BY <1>12 DEF GetsUser, Quiet
<1>13. ASSUME NEW c \in Clients, Continues(c) PROVE Quiet(c)
  BY <1>13 DEF Continues, Quiet
<1>14. ASSUME NEW c \in Clients, SetsOffline(c) PROVE Quiet(c)
  BY <1>14 DEF SetsOffline, Quiet
<1>15. ASSUME NEW c \in Clients, RemovesToken(c) PROVE Quiet(c)
  BY <1>15 DEF RemovesToken, Quiet
<1>16. ASSUME NEW c \in Clients, Crashes(c) PROVE Quiet(c)
  BY <1>16 DEF Crashes, Quiet
<1>17. ASSUME NEW i \in DOMAIN users, MinutePasses(i) PROVE UNCHANGED <<pc, id, currID>>
  BY <1>17 DEF MinutePasses
<1>18. CASE UNCHANGED vars
  BY <1>18 DEF vars
<1>. QED
  BY <1>1, <1>2, <1>3, <1>4, <1>5, <1>6, <1>7, <1>8, <1>9, <1>10, <1>11, <1>12,
     <1>13, <1>14, <1>15, <1>16, <1>17, <1>18
  DEF Next, Create, Loop

(* The counts: a user is added only where a place was kept for it, and the  *)
(* counter is written only by somebody who has added a user.                *)
LEMMA CountsStep ==
  ASSUME Bounds, [Next]_vars
  PROVE  Room' /\ Behind'
<1>. DEFINE Adding == Cardinality(At(pc, ToAdd))
            Counting == Cardinality(At(pc, Added))
<1>0. /\ Len(users) \in Nat /\ currID \in Nat /\ MaxUsers \in Nat
      /\ Adding \in Nat /\ Counting \in Nat
      /\ Adding' \in Nat /\ Counting' \in Nat
      /\ pc \in [Clients -> Places]
      /\ id \in [Clients -> Nat]
      /\ Len(users) + Adding <= MaxUsers
      /\ currID + Counting <= Len(users)
      /\ \A c \in Clients : pc[c] = "writeCounter" => id[c] + Counting <= Len(users)
  BY CountIsNat, RegistryAssumption DEF Bounds, Room, Behind, TypeOK, RegistryAssumption
<1>. SUFFICES /\ Len(users') + Adding' <= MaxUsers
              /\ currID' + Counting' <= Len(users')
              /\ \A c \in Clients : pc'[c] = "writeCounter" => id'[c] + Counting' <= Len(users')
  BY DEF Room, Behind
<1>a. ASSUME NEW c \in Clients, NEW v \in Places, pc' = [pc EXCEPT ![c] = v]
      PROVE  /\ pc[c] \notin ToAdd /\ v \in ToAdd => Adding' = Adding + 1
             /\ pc[c] \in ToAdd /\ v \notin ToAdd => Adding' = Adding - 1
             /\ SameSide(pc[c], v, ToAdd) => Adding' = Adding
  BY <1>0, <1>a, Count
<1>b. ASSUME NEW c \in Clients, NEW v \in Places, pc' = [pc EXCEPT ![c] = v]
      PROVE  /\ pc[c] \notin Added /\ v \in Added => Counting' = Counting + 1
             /\ pc[c] \in Added /\ v \notin Added => Counting' = Counting - 1
             /\ SameSide(pc[c], v, Added) => Counting' = Counting
  BY <1>0, <1>b, Count
<1>u. UNCHANGED pc => UNCHANGED <<Adding, Counting>>
  OBVIOUS
<1>. HIDE DEF Adding, Counting
<1>1. ASSUME NEW c \in Clients, NEW n \in Names, Login(c, n)
      PROVE  /\ Len(users') + Adding' <= MaxUsers
             /\ currID' + Counting' <= Len(users')
             /\ \A d \in Clients : pc'[d] = "writeCounter" => id'[d] + Counting' <= Len(users')
  <2>1. /\ pc[c] = "off" /\ pc' = [pc EXCEPT ![c] = "lookup"]
        /\ UNCHANGED <<users, currID, id>>
    BY <1>1 DEF Login, Step, storage
  <2>2. {d \in Clients : Pending(d)} = At(pc, ToAdd)
    BY DEF Pending, At, ToAdd
  <2>3. Len(users) + Adding < MaxUsers
    BY <1>1, <2>2 DEF Login, Adding
  <2>4. Adding' = Adding + 1 /\ Counting' = Counting
    BY <2>1, <1>a, <1>b DEF SameSide, ToAdd, Added, Places
  <2>. QED
    BY <1>0, <2>1, <2>3, <2>4
<1>2. ASSUME NEW c \in Clients, AddsUser(c)
      PROVE  /\ Len(users') + Adding' <= MaxUsers
             /\ currID' + Counting' <= Len(users')
             /\ \A d \in Clients : pc'[d] = "writeCounter" => id'[d] + Counting' <= Len(users')
  <2>1. /\ pc[c] = "addUser" /\ pc' = [pc EXCEPT ![c] = "readID"]
        /\ Len(users') = Len(users) + 1
        /\ UNCHANGED <<currID, id>>
    BY <1>2 DEF AddsUser, Step, storage, locals, Bounds, TypeOK
  <2>2. Adding' = Adding - 1 /\ Counting' = Counting + 1
    BY <2>1, <1>a, <1>b DEF SameSide, ToAdd, Added, Places
  <2>. QED
    BY <1>0, <2>1, <2>2
<1>3. ASSUME NEW c \in Clients, WritesCounter(c)
      PROVE  /\ Len(users') + Adding' <= MaxUsers
             /\ currID' + Counting' <= Len(users')
             /\ \A d \in Clients : pc'[d] = "writeCounter" => id'[d] + Counting' <= Len(users')
  <2>1. /\ pc[c] = "writeCounter" /\ pc' = [pc EXCEPT ![c] = "list"]
        /\ currID' = id[c] + 1
        /\ id' = [id EXCEPT ![c] = 0]
        /\ users' = users
    BY <1>3 DEF WritesCounter, Step
  <2>2. Adding' = Adding /\ Counting' = Counting - 1
    BY <2>1, <1>a, <1>b DEF SameSide, ToAdd, Added, Places
  <2>. QED
    BY <1>0, <2>1, <2>2
<1>4. ASSUME NEW c \in Clients, Quiet(c)
      PROVE  /\ Len(users') + Adding' <= MaxUsers
             /\ currID' + Counting' <= Len(users')
             /\ \A d \in Clients : pc'[d] = "writeCounter" => id'[d] + Counting' <= Len(users')
  <2>1. PICK v \in Places :
          /\ pc' = [pc EXCEPT ![c] = v]
          /\ SameSide(pc[c], v, Added)
          /\ v \in ToAdd => pc[c] \in ToAdd
          /\ v = "writeCounter" => id'[c] = currID
    BY <1>4 DEF Quiet
  <2>2. Counting' = Counting
    BY <2>1, <1>b
  <2>4. Adding' <= Adding
    <3>1. CASE pc[c] \in ToAdd /\ v \notin ToAdd
      <4>1. Adding' = Adding - 1
        BY <3>1, <2>1, <1>a
      <4>. QED
        BY <4>1, <1>0
    <3>2. CASE SameSide(pc[c], v, ToAdd)
      <4>1. Adding' = Adding
        BY <3>2, <2>1, <1>a
      <4>. QED
        BY <4>1, <1>0
    <3>. QED
      BY <3>1, <3>2, <2>1 DEF SameSide
  <2>3. Len(users') = Len(users)
    <3>1. ~ \E d \in Clients : AddsUser(d)
      BY <1>0, <2>1 DEF AddsUser, Step, Added, SameSide
    <3>. QED
      BY <3>1, StepKeepsUsers DEF UsersKept, Bounds
  <2>. QED
    BY <1>0, <1>4, <2>1, <2>2, <2>3, <2>4 DEF Quiet
<1>5. CASE UNCHANGED <<pc, id, currID>>
  <2>1. Len(users') = Len(users)
    BY <1>0, <1>5, StepKeepsUsers DEF UsersKept, AddsUser, Step, Bounds
  <2>. QED
    BY <1>0, <1>5, <1>u, <2>1
<1>. QED
  BY <1>1, <1>2, <1>3, <1>4, <1>5, StepKinds DEF Bounds

-----------------------------------------------------------------------------
(* A create() that is about to write the counter has added its user.        *)
LEMMA WriterIsBehind ==
  ASSUME TypeOK, Room, Behind, NEW c \in Clients, pc[c] = "writeCounter"
  PROVE  /\ id[c] < Len(users)
         /\ Len(users) <= MaxUsers
<1>1. At(pc, Added) # {}
  BY DEF At, Added
<1>2. Cardinality(At(pc, Added)) > 0
  BY <1>1, CountIsNat, FS_EmptySet
<1>3. /\ Len(users) \in Nat /\ MaxUsers \in Nat /\ id[c] \in Nat
      /\ Cardinality(At(pc, ToAdd)) \in Nat /\ Cardinality(At(pc, Added)) \in Nat
  BY CountIsNat, RegistryAssumption DEF RegistryAssumption, TypeOK
<1>. QED
  BY <1>2, <1>3 DEF Room, Behind

(* The types of the users and of the indices into the list.                 *)
LEMMA UsersType ==
  ASSUME TypeOK, Named, [Next]_vars
  PROVE  users' \in Seq(Users) /\ Len(users') \in Nat /\ Len(users) <= Len(users')
<1>1. CASE UsersKept
  BY <1>1 DEF UsersKept, TypeOK
<1>2. ASSUME NEW c \in Clients, AddsUser(c)
      PROVE  users' \in Seq(Users) /\ Len(users') \in Nat /\ Len(users) <= Len(users')
  <2>1. [id |-> id[c], name |-> name[c], online |-> "yes", stale |-> FALSE] \in Users
    BY <1>2 DEF AddsUser, Step, Users, Online, TypeOK, Named
  <2>. QED
    BY <1>2, <2>1 DEF AddsUser, TypeOK
<1>. QED
  BY <1>1, <1>2, StepKeepsUsers

LEMMA TypeStep ==
  ASSUME Bounds, [Next]_vars
  PROVE  TypeOK' /\ Named'
<1>0. users' \in Seq(Users) /\ Len(users') \in Nat /\ Len(users) <= Len(users')
  BY UsersType DEF Bounds
<1>. USE <1>0, RegistryAssumption
     DEF Bounds, TypeOK, Named, RegistryAssumption, Places, Step, Ends, Holds, storage, locals
<1>1. ASSUME NEW c \in Clients, NEW n \in Names, Login(c, n) PROVE TypeOK' /\ Named'
  BY <1>1 DEF Login
<1>2. ASSUME NEW c \in Clients, LooksUpName(c) PROVE TypeOK' /\ Named'
  BY <1>2, ByNameIsIndex DEF LooksUpName
<1>3. ASSUME NEW c \in Clients, TestsOnline(c) PROVE TypeOK' /\ Named'
  <2>1. CASE users[target[c]].online = "no"
    BY <1>3, <2>1 DEF TestsOnline
  <2>2. CASE users[target[c]].online # "no"
    <3>1. Ends(c) /\ UNCHANGED <<users, tokens, currID, token, id, overlap>>
      BY <1>3, <2>2 DEF TestsOnline
    <3>. QED
      BY <3>1
  <2>. QED
    BY <2>1, <2>2
<1>4. ASSUME NEW c \in Clients, FindsToken(c) PROVE TypeOK' /\ Named'
  <2>1. UNCHANGED <<users, tokens, currID, name, id, seen, overlap>> /\ Holds(c, 0)
    BY <1>4 DEF FindsToken
  <2>2. PICK v \in Places : pc[c] # "off" /\ pc' = [pc EXCEPT ![c] = v]
    BY <1>4 DEF FindsToken
  <2>3. token' \in [Clients -> Names \cup {None}]
    BY <1>4 DEF FindsToken
  <2>4. Named'
    BY <2>1, <2>2
  <2>5. pc' \in [Clients -> Places] /\ target' \in [Clients -> 0..Len(users')]
    BY <2>1, <2>2
  <2>. QED
    BY <2>1, <2>3, <2>4, <2>5
<1>5. ASSUME NEW c \in Clients, DropsToken(c) PROVE TypeOK' /\ Named'
  BY <1>5 DEF DropsToken
<1>6. ASSUME NEW c \in Clients, ReadsID(c) PROVE TypeOK' /\ Named'
  <2>1. overlap' \in BOOLEAN
    BY <1>6 DEF ReadsID
  <2>. QED
    BY <1>6, <2>1 DEF ReadsID
<1>7. ASSUME NEW c \in Clients, AddsUser(c) PROVE TypeOK' /\ Named'
  BY <1>7 DEF AddsUser
<1>8. ASSUME NEW c \in Clients, ReadsIDAgain(c) PROVE TypeOK' /\ Named'
  BY <1>8 DEF ReadsIDAgain
<1>9. ASSUME NEW c \in Clients, PutsToken(c) PROVE TypeOK' /\ Named'
  BY <1>9 DEF PutsToken
<1>10. ASSUME NEW c \in Clients, ReadsCounter(c) PROVE TypeOK' /\ Named'
  BY <1>10 DEF ReadsCounter
<1>11. ASSUME NEW c \in Clients, WritesCounter(c) PROVE TypeOK' /\ Named'
  <2>1. id[c] + 1 \in 0..MaxUsers
    BY <1>11, WriterIsBehind DEF WritesCounter
  <2>. QED
    BY <1>11, <2>1 DEF WritesCounter
<1>12. ASSUME NEW c \in Clients,
              \/ AsksList(c) \/ AsksMessages(c) \/ AsksInfo(c) \/ Quits(c)
       PROVE  TypeOK' /\ Named'
  <2>1. PICK at \in {"list", "poll", "input"},
             to \in {"listing", "update", "updateInfo", "setOffline"} : Asks(c, at, to)
    BY <1>12 DEF AsksList, AsksMessages, AsksInfo, Quits
  <2>2. CheckToken(name[c]) \in 0..Len(users)
    BY ByIdIsIndex DEF CheckToken
  <2>. QED
    <3>1. CASE CheckToken(name[c]) = 0
      <4>1. Ends(c) /\ UNCHANGED <<users, tokens, currID, token, id, overlap>>
        BY <2>1, <3>1 DEF Asks
      <4>. QED
        BY <4>1
    <3>2. CASE CheckToken(name[c]) # 0
      BY ZenonT(30), <2>1, <2>2, <3>2 DEF Asks
    <3>. QED
      BY <3>1, <3>2
<1>13. ASSUME NEW c \in Clients, ListsUsers(c) PROVE TypeOK' /\ Named'
  <2>1. UNCHANGED <<tokens, currID, token, id, overlap>> /\ pc[c] = "listing"
    BY <1>13 DEF ListsUsers
  <2>2. CASE Ends(c)
    BY <2>1, <2>2
  <2>3. CASE /\ Step(c, "listing", "poll")
             /\ seen' = [seen EXCEPT ![c] = Len(users)]
             /\ Holds(c, 0)
             /\ UNCHANGED name
    BY <2>1, <2>3
  <2>. QED
    BY <1>13, <2>2, <2>3 DEF ListsUsers
<1>14. ASSUME NEW c \in Clients, UpdatesUser(c) PROVE TypeOK' /\ Named'
  <2>1. UNCHANGED <<tokens, currID, name, token, id, seen, overlap>> /\ Holds(c, 0)
    BY <1>14 DEF UpdatesUser
  <2>2. PICK v \in Places : pc[c] # "off" /\ pc' = [pc EXCEPT ![c] = v]
    BY <1>14 DEF UpdatesUser
  <2>. QED
    BY <2>1, <2>2
<1>15. ASSUME NEW c \in Clients, GetsUser(c) PROVE TypeOK' /\ Named'
  BY <1>15 DEF GetsUser
<1>16. ASSUME NEW c \in Clients, Continues(c) PROVE TypeOK' /\ Named'
  BY <1>16 DEF Continues
<1>17. ASSUME NEW c \in Clients, SetsOffline(c) PROVE TypeOK' /\ Named'
  BY <1>17 DEF SetsOffline
<1>18. ASSUME NEW c \in Clients, RemovesToken(c) PROVE TypeOK' /\ Named'
  BY <1>18 DEF RemovesToken
<1>19. ASSUME NEW c \in Clients, Crashes(c) PROVE TypeOK' /\ Named'
  BY <1>19 DEF Crashes
<1>20. ASSUME NEW i \in DOMAIN users, MinutePasses(i) PROVE TypeOK' /\ Named'
  BY <1>20 DEF MinutePasses
<1>21. CASE UNCHANGED vars
  BY <1>21 DEF vars
<1>. QED
  BY <1>1, <1>2, <1>3, <1>4, <1>5, <1>6, <1>7, <1>8, <1>9, <1>10, <1>11, <1>12,
     <1>13, <1>14, <1>15, <1>16, <1>17, <1>18, <1>19, <1>20, <1>21
  DEF Next, Create, Loop

LEMMA BoundsInit == Init => Bounds
<1>. SUFFICES ASSUME Init PROVE Bounds
  OBVIOUS
<1>1. At(pc, ToAdd) = {} /\ At(pc, Added) = {}
  BY DEF Init, At, ToAdd, Added
<1>2. /\ Cardinality(At(pc, ToAdd)) = 0 /\ Cardinality(At(pc, Added)) = 0
      /\ Len(users) = 0 /\ MaxUsers \in Nat
  BY <1>1, FS_EmptySet, RegistryAssumption DEF Init, RegistryAssumption
<1>3. Room /\ Behind
  <2>1. Room
    BY <1>2 DEF Room
  <2>2. currID = 0 /\ \A c \in Clients : pc[c] # "writeCounter"
    BY DEF Init
  <2>. QED
    BY <1>2, <2>1, <2>2 DEF Behind
<1>4. TypeOK /\ Named
  <2>1. users \in Seq(Users)
    BY DEF Init
  <2>2. pc \in [Clients -> Places] /\ \A c \in Clients : pc[c] = "off"
    BY DEF Init, Places
  <2>3. tokens \in [Names -> (0..MaxUsers) \cup {None}]
    BY DEF Init
  <2>4. 0 \in 0..MaxUsers /\ 0 \in 0..Len(users)
    BY <1>2
  <2>5. /\ currID \in 0..MaxUsers
        /\ target \in [Clients -> 0..Len(users)] /\ seen \in [Clients -> 0..Len(users)]
        /\ id \in [Clients -> 0..MaxUsers]
    BY <2>4 DEF Init
  <2>6. /\ name \in [Clients -> Names \cup {None}] /\ token \in [Clients -> Names \cup {None}]
        /\ overlap \in BOOLEAN
    BY DEF Init
  <2>. QED
    BY <2>1, <2>2, <2>3, <2>5, <2>6 DEF TypeOK, Named
<1>. QED
  BY <1>3, <1>4 DEF Bounds

LEMMA BoundsStep == Bounds /\ [Next]_vars => Bounds'
  BY TypeStep, CountsStep DEF Bounds

(* The registry keeps its variables in their types in every reachable state *)
(* (UserStorage.java:33-91), for any number of clients.                     *)
THEOREM TypeCorrect == Spec => []TypeOK
<1>1. Bounds => TypeOK
  BY DEF Bounds
<1>. QED
  BY <1>1, BoundsInit, BoundsStep, PTL DEF Spec

(* However many logins race, currID never exceeds the number of users, and  *)
(* no create() has read a value that would let it (UserStorage.java:47-51). *)
THEOREM CounterNeverAhead == Spec => []CounterBehindList
<1>1. ASSUME Bounds PROVE CounterBehindList
  <2>1. currID <= Len(users)
    BY <1>1, CountIsNat DEF Bounds, TypeOK, Behind
  <2>. QED
    BY <1>1, <2>1, WriterIsBehind DEF Bounds, CounterBehindList
<1>. QED
  BY <1>1, BoundsInit, BoundsStep, PTL DEF Spec

-----------------------------------------------------------------------------
(* From here on: what holds as long as no two create() number their users   *)
(* at the same time.                                                        *)
NumberingAt == {"addUser"} \cup Added

OneNumbers ==
  \A c, d \in Clients : pc[c] \in NumberingAt /\ pc[d] \in NumberingAt => c = d

(* The counter is the length of the list, but for the user just added, who  *)
(* is the last of the list until the counter is written.                    *)
Numbers ==
  /\ (\A c \in Clients : pc[c] \notin NumberingAt) => currID = Len(users)
  /\ \A c \in Clients :
       /\ pc[c] = "addUser" => id[c] = Len(users) /\ currID = Len(users)
       /\ pc[c] \in Added => /\ currID + 1 = Len(users)
                             /\ users[Len(users)].name = name[c]
       /\ pc[c] \in {"putToken", "writeCounter"} => id[c] = currID

Ids == \A i \in DOMAIN users : users[i].id = i - 1

(* A token is the place of its user, less one; users of that name behind it *)
(* are about to get the token.                                              *)
Tokens ==
  \A n \in Names : tokens[n] # None =>
    /\ tokens[n] < Len(users)
    /\ users[tokens[n] + 1].name = n
    /\ \A i \in DOMAIN users : i > tokens[n] + 1 /\ users[i].name = n =>
         \E c \in Clients : /\ pc[c] \in {"readID", "putToken"}
                            /\ name[c] = n
                            /\ i = Len(users)

Ordered == ~overlap => OneNumbers /\ Numbers /\ Ids /\ Tokens

(* Most steps touch neither the counter nor a create() that is numbering,   *)
(* and to the tokens they do nothing worse than to remove one.              *)
Idle ==
  /\ UsersKept
  /\ UNCHANGED <<currID, overlap>>
  /\ \A c \in Clients : \/ pc'[c] = pc[c] /\ id'[c] = id[c] /\ name'[c] = name[c]
                        \/ pc[c] \notin NumberingAt /\ pc'[c] \notin NumberingAt
  /\ \A n \in Names : tokens'[n] = tokens[n] \/ tokens'[n] = None

LEMMA NumberingKinds ==
  ASSUME TypeOK, [Next]_vars
  PROVE  \/ Idle
         \/ \E c \in Clients : \/ ReadsID(c) \/ AddsUser(c) \/ ReadsIDAgain(c)
                               \/ PutsToken(c) \/ ReadsCounter(c) \/ WritesCounter(c)
<1>. SUFFICES ASSUME ~ \E c \in Clients : AddsUser(c)
              PROVE  \/ Idle
                     \/ \E c \in Clients : \/ ReadsID(c) \/ ReadsIDAgain(c)
                                           \/ PutsToken(c) \/ ReadsCounter(c) \/ WritesCounter(c)
  OBVIOUS
<1>0. UsersKept
  BY StepKeepsUsers
<1>. USE <1>0 DEF Idle, Step, Ends, NumberingAt, Added, storage, locals, TypeOK
<1>1. ASSUME NEW c \in Clients, NEW n \in Names, Login(c, n) PROVE Idle
  BY <1>1 DEF Login
<1>2. ASSUME NEW c \in Clients, LooksUpName(c) PROVE Idle
  <2>1. /\ pc[c] = "lookup"
        /\ pc' = [pc EXCEPT ![c] = IF ByName(name[c]) = 0 THEN "newUser"
                       ELSE IF users[ByName(name[c])].online = "timedOut" THEN "findToken"
                       ELSE "testOnline"]
        /\ UNCHANGED <<tokens, currID, name, id, overlap>>
    BY <1>2 DEF LooksUpName
  <2>2. pc'[c] \notin NumberingAt /\ \A d \in Clients \ {c} : pc'[d] = pc[d]
    BY <2>1
  <2>. QED
    BY <2>1, <2>2
<1>3. ASSUME NEW c \in Clients, TestsOnline(c) PROVE Idle
  <2>1. CASE Step(c, "testOnline", "findToken") /\ UNCHANGED <<name, target, seen>>
    BY <1>3, <2>1 DEF TestsOnline
  <2>2. CASE Ends(c)
    BY <1>3, <2>2 DEF TestsOnline
  <2>. QED
    BY <1>3, <2>1, <2>2 DEF TestsOnline
<1>4. ASSUME NEW c \in Clients, FindsToken(c) PROVE Idle
  BY <1>4 DEF FindsToken
<1>5. ASSUME NEW c \in Clients, DropsToken(c) PROVE Idle
  BY <1>5 DEF DropsToken
<1>6. ASSUME NEW c \in Clients,
             \/ AsksList(c) \/ AsksMessages(c) \/ AsksInfo(c) \/ Quits(c)
      PROVE  Idle
  <2>1. PICK at \in {"list", "poll", "input"},
             to \in {"listing", "update", "updateInfo", "setOffline"} : Asks(c, at, to)
    BY <1>6 DEF AsksList, AsksMessages, AsksInfo, Quits
  <2>2. pc[c] \notin NumberingAt /\ UNCHANGED <<tokens, currID, id, overlap>>
    BY <2>1 DEF Asks
  <2>3. CASE Ends(c)
    BY <2>2, <2>3
  <2>4. CASE Step(c, at, to) /\ UNCHANGED name
    BY <2>2, <2>4
  <2>. QED
    BY <2>1, <2>3, <2>4 DEF Asks
<1>7. ASSUME NEW c \in Clients, ListsUsers(c) PROVE Idle
  <2>1. CASE Ends(c)
    BY <1>7, <2>1 DEF ListsUsers
  <2>2. CASE Step(c, "listing", "poll") /\ UNCHANGED name
    BY <1>7, <2>2 DEF ListsUsers
  <2>. QED
    BY <1>7, <2>1, <2>2 DEF ListsUsers
<1>8. ASSUME NEW c \in Clients, UpdatesUser(c) PROVE Idle
  BY <1>8 DEF UpdatesUser
<1>9. ASSUME NEW c \in Clients, GetsUser(c) PROVE Idle
  BY <1>9 DEF GetsUser
<1>10. ASSUME NEW c \in Clients, Continues(c) PROVE Idle
  BY <1>10 DEF Continues
<1>11. ASSUME NEW c \in Clients, SetsOffline(c) PROVE Idle
  BY <1>11 DEF SetsOffline
<1>12. ASSUME NEW c \in Clients, RemovesToken(c) PROVE Idle
  BY <1>12 DEF RemovesToken
<1>13. ASSUME NEW c \in Clients, Crashes(c) PROVE Idle
  BY <1>13 DEF Crashes
<1>14. ASSUME NEW i \in DOMAIN users, MinutePasses(i) PROVE Idle
  BY <1>14 DEF MinutePasses
<1>15. CASE UNCHANGED vars
  BY <1>15 DEF vars
<1>. QED
  BY <1>1, <1>2, <1>3, <1>4, <1>5, <1>6, <1>7, <1>8, <1>9, <1>10, <1>11, <1>12,
     <1>13, <1>14, <1>15
  DEF Next, Create, Loop

LEMMA IdleKeeps ==
  ASSUME TypeOK, OneNumbers, Numbers, Ids, Tokens, Idle
  PROVE  OneNumbers' /\ Numbers' /\ Ids' /\ Tokens'
<1>. USE DEF Idle
<1>0. /\ Len(users') = Len(users) /\ DOMAIN users' = DOMAIN users
      /\ Len(users) \in Nat /\ DOMAIN users = 1..Len(users)
      /\ \A i \in DOMAIN users : users'[i].id = users[i].id /\ users'[i].name = users[i].name
  BY DEF UsersKept, TypeOK
<1>1. \A c \in Clients : /\ pc'[c] \in NumberingAt <=> pc[c] \in NumberingAt
                         /\ pc[c] \in NumberingAt => /\ pc'[c] = pc[c]
                                                     /\ id'[c] = id[c]
                                                     /\ name'[c] = name[c]
  OBVIOUS
<1>2. OneNumbers'
  BY <1>1 DEF OneNumbers
<1>3. Numbers'
  <2>1. (\A c \in Clients : pc'[c] \notin NumberingAt) => currID' = Len(users')
    BY <1>0, <1>1 DEF Numbers
  <2>2. ASSUME NEW c \in Clients, pc'[c] \in NumberingAt
        PROVE  /\ pc'[c] = "addUser" => id'[c] = Len(users') /\ currID' = Len(users')
               /\ pc'[c] \in Added => /\ currID' + 1 = Len(users')
                                      /\ users'[Len(users')].name = name'[c]
               /\ pc'[c] \in {"putToken", "writeCounter"} => id'[c] = currID'
    <3>1. pc'[c] = pc[c] /\ id'[c] = id[c] /\ name'[c] = name[c]
      BY <1>1, <2>2
    <3>2. pc[c] \in Added => Len(users) \in DOMAIN users
      <4>1. currID \in Nat /\ (pc[c] \in Added => currID + 1 = Len(users))
        BY RegistryAssumption DEF Numbers, TypeOK, RegistryAssumption
      <4>2. Len(users) \in Nat /\ DOMAIN users = 1..Len(users)
        BY <1>0
      <4>3. ASSUME NEW k \in Nat, NEW l \in Nat, k + 1 = l PROVE l \in 1..l
        BY <4>3
      <4>. QED
        BY <4>1, <4>2, <4>3
    <3>. QED
      BY <1>0, <3>1, <3>2 DEF Numbers
  <2>. QED
    BY <2>1, <2>2 DEF Numbers, NumberingAt, Added
<1>4. Ids'
  BY <1>0 DEF Ids
<1>5. Tokens'
  <2>. SUFFICES ASSUME NEW n \in Names, tokens'[n] # None
                PROVE  /\ tokens'[n] < Len(users')
                       /\ users'[tokens'[n] + 1].name = n
                       /\ \A i \in DOMAIN users' :
                            i > tokens'[n] + 1 /\ users'[i].name = n =>
                              \E c \in Clients : /\ pc'[c] \in {"readID", "putToken"}
                                                 /\ name'[c] = n
                                                 /\ i = Len(users')
    BY DEF Tokens
  <2>1. tokens'[n] = tokens[n] /\ tokens[n] \in Nat
    BY RegistryAssumption DEF TypeOK, RegistryAssumption
  <2>2. tokens[n] + 1 \in DOMAIN users
    BY <1>0, <2>1 DEF Tokens
  <2>3. ASSUME NEW i \in DOMAIN users, i > tokens[n] + 1, users[i].name = n
        PROVE  \E c \in Clients : /\ pc'[c] \in {"readID", "putToken"}
                                  /\ name'[c] = n
                                  /\ i = Len(users)
    <3>1. PICK c \in Clients : /\ pc[c] \in {"readID", "putToken"}
                               /\ name[c] = n
                               /\ i = Len(users)
      BY <2>1, <2>3 DEF Tokens
    <3>. QED
      BY <1>1, <3>1 DEF NumberingAt, Added
  <2>. QED
    BY <1>0, <2>1, <2>2, <2>3 DEF Tokens
<1>. QED
  BY <1>2, <1>3, <1>4, <1>5

(* A create() that reads, or writes the map or the counter, stays the only  *)
(* one that is numbering.                                                   *)
LEMMA AloneKeeps ==
  ASSUME TypeOK, OneNumbers, NEW c \in Clients, pc[c] \in NumberingAt,
         \A d \in Clients \ {c} : pc'[d] = pc[d]
  PROVE  /\ OneNumbers'
         /\ \A d \in Clients \ {c} : pc[d] \notin NumberingAt /\ pc'[d] \notin NumberingAt
BY DEF OneNumbers

LEMMA ReadsIDKeeps ==
  ASSUME TypeOK, OneNumbers, Numbers, Ids, Tokens, NEW c \in Clients, ReadsID(c), ~overlap'
  PROVE  OneNumbers' /\ Numbers' /\ Ids' /\ Tokens'
<1>1. /\ pc[c] = "newUser" /\ pc' = [pc EXCEPT ![c] = "addUser"]
      /\ id' = [id EXCEPT ![c] = currID]
      /\ UNCHANGED <<users, tokens, currID, name>>
      /\ \A d \in Clients \ {c} : ~Numbering(d)
  BY DEF ReadsID, Step, storage
<1>2. \A d \in Clients : pc[d] \notin NumberingAt
  BY <1>1 DEF Numbering, NumberingAt, Added
<1>3. \A d \in Clients : d # c => pc'[d] = pc[d] /\ pc'[d] \notin NumberingAt
  BY <1>1, <1>2 DEF TypeOK
<1>4. pc'[c] = "addUser" /\ id'[c] = currID
  BY <1>1 DEF TypeOK
<1>5. OneNumbers'
  BY <1>3 DEF OneNumbers
<1>6. Numbers'
  BY <1>1, <1>2, <1>3, <1>4 DEF Numbers, NumberingAt, Added
<1>7. Ids'
  BY <1>1 DEF Ids
<1>8. Tokens'
  BY <1>1, <1>2 DEF Tokens, NumberingAt, Added
<1>. QED
  BY <1>5, <1>6, <1>7, <1>8

LEMMA AddsUserKeeps ==
  ASSUME TypeOK, Named, OneNumbers, Numbers, Ids, Tokens, NEW c \in Clients, AddsUser(c)
  PROVE  OneNumbers' /\ Numbers' /\ Ids' /\ Tokens'
<1>. DEFINE user == [id |-> id[c], name |-> name[c], online |-> "yes", stale |-> FALSE]
<1>1. /\ pc[c] = "addUser" /\ pc' = [pc EXCEPT ![c] = "readID"]
      /\ users' = Append(users, user)
      /\ UNCHANGED <<tokens, currID, name, id>>
  BY DEF AddsUser, Step, locals
<1>2. /\ Len(users') = Len(users) + 1 /\ Len(users) \in Nat
      /\ DOMAIN users = 1..Len(users) /\ DOMAIN users' = 1..(Len(users) + 1)
      /\ \A i \in DOMAIN users : users'[i] = users[i]
      /\ users'[Len(users) + 1] = user
  BY <1>1 DEF TypeOK
<1>3. /\ OneNumbers'
      /\ \A d \in Clients : d # c => pc[d] \notin NumberingAt /\ pc'[d] \notin NumberingAt
      /\ pc'[c] = "readID"
  BY <1>1, AloneKeeps DEF NumberingAt, TypeOK
<1>4. id[c] = Len(users) /\ currID = Len(users)
  BY <1>1 DEF Numbers
<1>5. Numbers'
  <2>1. pc'[c] \in NumberingAt
    BY <1>3 DEF NumberingAt, Added
  <2>. QED
    BY <1>1, <1>2, <1>3, <1>4, <2>1 DEF Numbers, NumberingAt, Added
<1>6. Ids'
  BY <1>2, <1>4 DEF Ids
<1>7. Tokens'
  <2>. SUFFICES ASSUME NEW n \in Names, tokens'[n] # None
                PROVE  /\ tokens'[n] < Len(users')
                       /\ users'[tokens'[n] + 1].name = n
                       /\ \A i \in DOMAIN users' :
                            i > tokens'[n] + 1 /\ users'[i].name = n =>
                              \E d \in Clients : /\ pc'[d] \in {"readID", "putToken"}
                                                 /\ name'[d] = n
                                                 /\ i = Len(users')
    BY DEF Tokens
  <2>1. tokens'[n] = tokens[n] /\ tokens[n] \in Nat /\ tokens[n] < Len(users)
    BY <1>1, RegistryAssumption DEF TypeOK, RegistryAssumption, Tokens
  <2>2. tokens[n] + 1 \in DOMAIN users /\ users[tokens[n] + 1].name = n
    BY <1>1, <1>2, <2>1 DEF Tokens
  <2>3. ASSUME NEW i \in DOMAIN users, i > tokens[n] + 1 PROVE users[i].name # n
    <3>1. \A d \in Clients : pc[d] \notin {"readID", "putToken"}
      BY <1>1, <1>3 DEF NumberingAt, Added
    <3>. QED
      BY <1>1, <2>1, <2>3, <3>1 DEF Tokens
  <2>4. ASSUME NEW i \in DOMAIN users', i > tokens[n] + 1, users'[i].name = n
        PROVE  name'[c] = n /\ i = Len(users')
    BY <1>1, <1>2, <2>3, <2>4
  <2>. QED
    BY <1>2, <1>3, <2>1, <2>2, <2>4
<1>. QED
  BY <1>3, <1>5, <1>6, <1>7

LEMMA ReadsIDAgainKeeps ==
  ASSUME TypeOK, OneNumbers, Numbers, Ids, Tokens, NEW c \in Clients, ReadsIDAgain(c)
  PROVE  OneNumbers' /\ Numbers' /\ Ids' /\ Tokens'
<1>1. /\ pc[c] = "readID" /\ pc' = [pc EXCEPT ![c] = "putToken"]
      /\ id' = [id EXCEPT ![c] = currID]
      /\ UNCHANGED <<users, tokens, currID, name>>
  BY DEF ReadsIDAgain, Step, storage
<1>2. /\ OneNumbers'
      /\ \A d \in Clients : d # c => pc[d] \notin NumberingAt /\ pc'[d] \notin NumberingAt
      /\ pc'[c] = "putToken" /\ id'[c] = currID
  BY <1>1, AloneKeeps DEF NumberingAt, Added, TypeOK
<1>3. Numbers'
  BY <1>1, <1>2 DEF Numbers, NumberingAt, Added
<1>4. Ids'
  BY <1>1 DEF Ids
<1>5. Tokens'
  <2>1. \A d \in Clients : pc[d] \in {"readID", "putToken"} => pc'[d] \in {"readID", "putToken"}
    BY <1>1, <1>2 DEF NumberingAt, Added
  <2>. QED
    BY <1>1, <2>1 DEF Tokens
<1>. QED
  BY <1>2, <1>3, <1>4, <1>5

LEMMA PutsTokenKeeps ==
  ASSUME TypeOK, OneNumbers, Numbers, Ids, Tokens, NEW c \in Clients, PutsToken(c)
  PROVE  OneNumbers' /\ Numbers' /\ Ids' /\ Tokens'
<1>1. /\ pc[c] = "putToken" /\ pc' = [pc EXCEPT ![c] = "readCounter"]
      /\ tokens' = [tokens EXCEPT ![name[c]] = id[c]]
      /\ UNCHANGED <<users, currID, name, id>>
  BY DEF PutsToken, Step, locals
<1>2. /\ OneNumbers'
      /\ \A d \in Clients : d # c => pc[d] \notin NumberingAt /\ pc'[d] \notin NumberingAt
      /\ pc'[c] = "readCounter"
  BY <1>1, AloneKeeps DEF NumberingAt, Added, TypeOK
<1>3. Numbers'
  BY <1>1, <1>2 DEF Numbers, NumberingAt, Added
<1>4. Ids'
  BY <1>1 DEF Ids
<1>5. /\ id[c] + 1 = Len(users) /\ id[c] \in Nat /\ Len(users) \in Nat
      /\ users[Len(users)].name = name[c]
      /\ DOMAIN users = 1..Len(users)
  BY <1>1 DEF Numbers, Added, TypeOK
<1>6. Tokens'
  <2>. SUFFICES ASSUME NEW n \in Names, tokens'[n] # None
                PROVE  /\ tokens'[n] < Len(users)
                       /\ users[tokens'[n] + 1].name = n
                       /\ \A i \in DOMAIN users : i > tokens'[n] + 1 => users[i].name # n
    BY <1>1 DEF Tokens
  <2>1. CASE n = name[c]
    <3>1. tokens'[n] = id[c]
      BY <1>1, <2>1 DEF TypeOK
    <3>. QED
      BY <1>5, <2>1, <3>1
  <2>2. CASE n # name[c]
    <3>1. tokens'[n] = tokens[n]
      BY <1>1, <2>2 DEF TypeOK
    <3>2. \A d \in Clients : ~(pc[d] \in {"readID", "putToken"} /\ name[d] = n)
      BY <1>2, <2>2 DEF NumberingAt, Added
    <3>. QED
      BY <3>1, <3>2 DEF Tokens
  <2>. QED
    BY <2>1, <2>2
<1>. QED
  BY <1>2, <1>3, <1>4, <1>6

LEMMA ReadsCounterKeeps ==
  ASSUME TypeOK, OneNumbers, Numbers, Ids, Tokens, NEW c \in Clients, ReadsCounter(c)
  PROVE  OneNumbers' /\ Numbers' /\ Ids' /\ Tokens'
<1>1. /\ pc[c] = "readCounter" /\ pc' = [pc EXCEPT ![c] = "writeCounter"]
      /\ id' = [id EXCEPT ![c] = currID]
      /\ UNCHANGED <<users, tokens, currID, name>>
  BY DEF ReadsCounter, Step, storage
<1>2. /\ OneNumbers'
      /\ \A d \in Clients : d # c => pc[d] \notin NumberingAt /\ pc'[d] \notin NumberingAt
      /\ pc'[c] = "writeCounter" /\ id'[c] = currID
  BY <1>1, AloneKeeps DEF NumberingAt, Added, TypeOK
<1>3. Numbers'
  BY <1>1, <1>2 DEF Numbers, NumberingAt, Added
<1>4. Ids'
  BY <1>1 DEF Ids
<1>5. Tokens'
  <2>1. \A d \in Clients : pc[d] \notin {"readID", "putToken"}
    BY <1>1, <1>2 DEF NumberingAt, Added
  <2>. QED
    BY <1>1, <2>1 DEF Tokens
<1>. QED
  BY <1>2, <1>3, <1>4, <1>5

LEMMA WritesCounterKeeps ==
  ASSUME TypeOK, OneNumbers, Numbers, Ids, Tokens, NEW c \in Clients, WritesCounter(c)
  PROVE  OneNumbers' /\ Numbers' /\ Ids' /\ Tokens'
<1>1. /\ pc[c] = "writeCounter" /\ pc' = [pc EXCEPT ![c] = "list"]
      /\ currID' = id[c] + 1
      /\ UNCHANGED <<users, tokens, name>>
  BY DEF WritesCounter, Step
<1>2. /\ OneNumbers'
      /\ \A d \in Clients : pc'[d] \notin NumberingAt
      /\ \A d \in Clients : d # c => pc[d] \notin NumberingAt
  BY <1>1, AloneKeeps DEF NumberingAt, Added, TypeOK
<1>3. Numbers'
  <2>1. currID' = Len(users)
    BY <1>1 DEF Numbers, Added
  <2>. QED
    BY <1>1, <1>2, <2>1 DEF Numbers, NumberingAt, Added
<1>4. Ids'
  BY <1>1 DEF Ids
<1>5. Tokens'
  <2>1. \A d \in Clients : pc[d] \notin {"readID", "putToken"}
    BY <1>1, <1>2 DEF NumberingAt, Added
  <2>. QED
    BY <1>1, <2>1 DEF Tokens
<1>. QED
  BY <1>2, <1>3, <1>4, <1>5

-----------------------------------------------------------------------------
Inv == Bounds /\ Ordered

LEMMA InvInit == Init => Inv
<1>. SUFFICES ASSUME Init PROVE Inv
  OBVIOUS
<1>1. \A c \in Clients : pc[c] = "off"
  BY DEF Init
<1>2. OneNumbers /\ Ids /\ Tokens
  BY <1>1 DEF Init, OneNumbers, Ids, Tokens, NumberingAt, Added
<1>3. Numbers
  BY <1>1 DEF Init, Numbers, NumberingAt, Added
<1>. QED
  BY <1>2, <1>3, BoundsInit DEF Inv, Ordered

LEMMA InvStep == Inv /\ [Next]_vars => Inv'
<1>. SUFFICES ASSUME Inv, [Next]_vars PROVE Inv'
  OBVIOUS
<1>1. Bounds' /\ TypeOK /\ Named
  BY BoundsStep DEF Inv, Bounds
<1>2. ASSUME ~overlap' PROVE OneNumbers' /\ Numbers' /\ Ids' /\ Tokens'
  <2>1. CASE Idle
    <3>1. OneNumbers /\ Numbers /\ Ids /\ Tokens
      BY <1>2, <2>1 DEF Idle, Inv, Ordered
    <3>. QED
      BY <1>1, <2>1, <3>1, IdleKeeps
  <2>2. ASSUME NEW c \in Clients,
               \/ ReadsID(c) \/ AddsUser(c) \/ ReadsIDAgain(c)
               \/ PutsToken(c) \/ ReadsCounter(c) \/ WritesCounter(c)
        PROVE  OneNumbers' /\ Numbers' /\ Ids' /\ Tokens'
    <3>1. ~overlap
      BY <1>2, <2>2
      DEF ReadsID, AddsUser, ReadsIDAgain, PutsToken, ReadsCounter, WritesCounter
    <3>2. OneNumbers /\ Numbers /\ Ids /\ Tokens
      BY <3>1 DEF Inv, Ordered
    <3>. QED
      BY <1>1, <1>2, <2>2, <3>2, ReadsIDKeeps, AddsUserKeeps, ReadsIDAgainKeeps,
         PutsTokenKeeps, ReadsCounterKeeps, WritesCounterKeeps
  <2>. QED
    BY <1>1, <2>1, <2>2, NumberingKinds
<1>. QED
  BY <1>1, <1>2 DEF Inv, Ordered

LEMMA Invariant == Spec => []Inv
  BY InvInit, InvStep, PTL DEF Spec

(* As long as no two create() overlap, the ids are the places in the list:  *)
(* none is given twice and none is left out (UserStorage.java:47-51).       *)
THEOREM IdsAreUnique == Spec => []IdsArePlaces
<1>1. Inv => IdsArePlaces
  BY DEF Inv, Ordered, Ids, IdsArePlaces
<1>. QED
  BY <1>1, Invariant, PTL

(* ... and a token is one of the newest user of its name, whatever logouts, *)
(* timeouts, refused and half-finished logins there are meanwhile           *)
(* (UserStorage.java:33-70).                                                *)
THEOREM TokenIsNewest == Spec => []TokenNamesNewest
<1>1. ASSUME Inv, ~overlap, NEW n \in Names, tokens[n] # None
      PROVE  /\ CheckToken(n) = tokens[n] + 1
             /\ tokens[n] + 1 \in DOMAIN users
             /\ tokens[n] \in Nat
  <2>1. /\ TypeOK /\ Ids /\ Tokens
        /\ DOMAIN users = 1..Len(users) /\ Len(users) \in Nat
    BY <1>1 DEF Inv, Ordered, Bounds, TypeOK
  <2>2. tokens[n] \in Nat /\ tokens[n] < Len(users)
    BY <1>1, <2>1, RegistryAssumption DEF TypeOK, Tokens, RegistryAssumption
  <2>3. tokens[n] + 1 \in DOMAIN users
    BY <2>1, <2>2
  <2>4. {i \in DOMAIN users : users[i].id = tokens[n]} = {tokens[n] + 1}
    BY <2>1, <2>2, <2>3 DEF Ids
  <2>5. First({tokens[n] + 1}) \in {tokens[n] + 1}
    BY <2>1, <2>3, FirstIsIndex
  <2>. QED
    BY <2>2, <2>3, <2>4, <2>5 DEF CheckToken, ById
<1>2. ASSUME Inv PROVE TokenNamesNewest
  <2>. SUFFICES ASSUME ~overlap, NEW n \in Names, tokens[n] # None
                PROVE  /\ CheckToken(n) # 0
                       /\ users[CheckToken(n)].name = n
                       /\ \A i \in (CheckToken(n) + 1)..Len(users) : users[i].name = n =>
                            \E c \in Clients : /\ pc[c] \in {"readID", "putToken"}
                                               /\ name[c] = n
                                               /\ i = Len(users)
    BY DEF TokenNamesNewest
  <2>1. /\ CheckToken(n) = tokens[n] + 1
        /\ tokens[n] \in Nat
        /\ DOMAIN users = 1..Len(users) /\ Len(users) \in Nat
        /\ Tokens
    BY <1>1, <1>2 DEF Inv, Bounds, TypeOK, Ordered
  <2>2. /\ users[tokens[n] + 1].name = n
        /\ \A i \in DOMAIN users : i > tokens[n] + 1 /\ users[i].name = n =>
             \E c \in Clients : /\ pc[c] \in {"readID", "putToken"}
                                /\ name[c] = n
                                /\ i = Len(users)
    BY <2>1 DEF Tokens
  <2>3. CheckToken(n) # 0 /\ users[CheckToken(n)].name = n
    BY <2>1, <2>2
  <2>4. ASSUME NEW i \in (CheckToken(n) + 1)..Len(users), users[i].name = n
        PROVE  \E c \in Clients : /\ pc[c] \in {"readID", "putToken"}
                                  /\ name[c] = n
                                  /\ i = Len(users)
    <3>1. i \in DOMAIN users /\ i > tokens[n] + 1
      BY <2>1, <2>4
    <3>. QED
      BY <2>2, <2>4, <3>1
  <2>. QED
    BY <2>3, <2>4
<1>. QED
  BY <1>2, Invariant, PTL
==============================================================================
