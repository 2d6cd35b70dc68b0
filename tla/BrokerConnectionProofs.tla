------------------------ MODULE BrokerConnectionProofs ------------------------
(***************************************************************************)
(* What is proved of BrokerConnection for any users, accounts, number of   *)
(* authorizations, and callbacks and refreshes in flight.                  *)
(***************************************************************************)
EXTENDS BrokerConnection, TLAPS

(* As long as a connection has the version a refresh began with, it is the   *)
(* connection the refresh began with.                                        *)
RefreshMatches ==
    \A r \in Refreshes : refresh[r].phase # "idle" =>
        /\ refresh[r].owner \in Owners
        /\ conn[refresh[r].owner].status # "ABSENT"
        /\ refresh[r].version <= conn[refresh[r].owner].version
        /\ (/\ refresh[r].version = conn[refresh[r].owner].version
            /\ conn[refresh[r].owner].status = "CONNECTED")
           => /\ refresh[r].token = conn[refresh[r].owner].token
              /\ refresh[r].account = conn[refresh[r].owner].account
              /\ refresh[r].generation = conn[refresh[r].owner].generation

(* Two users are not connected to one broker account.                        *)
Exclusive ==
    \A o, p \in Owners :
        /\ conn[o].status = "CONNECTED" /\ conn[p].status = "CONNECTED"
        /\ conn[o].account = conn[p].account
        => o = p

(* An issued state has an owner, and one that was not claimed has not been   *)
(* exchanged.                                                                *)
StatesAreOwned ==
    \A t \in Tokens :
        /\ state[t].status # "unissued" => state[t].owner \in Owners
        /\ state[t].status # "consumed" => exchanged[t] = 0
        /\ exchanged[t] <= 1

(* A callback has claimed its state, for itself, and exchanges it once.      *)
ClaimsAreOwn ==
    \A c \in Callbacks : callback[c].phase # "idle" =>
        /\ callback[c].token \in Tokens
        /\ state[callback[c].token].status = "consumed"
        /\ callback[c].phase = "claimed" => exchanged[callback[c].token] = 0
        /\ \A d \in Callbacks :
             callback[d].phase # "idle" /\ callback[d].token = callback[c].token => d = c

(* The fence of a connection is an authorization of its owner that has not   *)
(* been withdrawn; only issued ones have been.                               *)
FenceIsLive ==
    /\ \A o \in Owners : conn[o].fence # None =>
         /\ conn[o].fence \notin withdrawn
         /\ state[conn[o].fence].status # "unissued"
         /\ state[conn[o].fence].owner = o
    /\ \A t \in withdrawn : state[t].status # "unissued"

Inv ==
    /\ TypeOK
    /\ EvidenceIsCurrent
    /\ RefreshMatches
    /\ Exclusive
    /\ StatesAreOwned
    /\ ClaimsAreOwn
    /\ FenceIsLive

-----------------------------------------------------------------------------
(* The records the requests write are of their types.                        *)
LEMMA AbsentType == Absent \in Connection /\ IdleCallback \in Callback /\ IdleRefresh \in Refresh
  BY DEF Absent, Connection, Statuses, IdleCallback, Callback, IdleRefresh, Refresh

(* A connection that gets a field of the right type stays one.               *)
LEMMA FieldTypes ==
    ASSUME NEW b \in Connection
    PROVE  /\ \A s \in Statuses : [b EXCEPT !.status = s] \in Connection
           /\ \A f \in Tokens \cup {None} : [b EXCEPT !.fence = f] \in Connection
           /\ \A a \in Accounts \cup {None} : [b EXCEPT !.account = a] \in Connection
           /\ \A t \in Tokens \cup {None} : [b EXCEPT !.token = t] \in Connection
           /\ \A e \in BOOLEAN : [b EXCEPT !.expired = e] \in Connection
           /\ \A g \in Nat : [b EXCEPT !.generation = g] \in Connection
           /\ \A v \in Nat : [b EXCEPT !.version = v] \in Connection
  BY DEF Connection

LEMMA ConnectedType ==
    ASSUME TypeOK, NEW o \in Owners, NEW t \in Tokens, NEW a \in Accounts
    PROVE  Connected(o, t, a) \in Connection
<1>1. conn[o] \in Connection
  BY DEF TypeOK
<1>2. NextGeneration(conn[o]) \in Nat /\ conn[o].version + 1 \in Nat /\ "CONNECTED" \in Statuses
  BY <1>1 DEF NextGeneration, Connection, Statuses
<1> DEFINE b1 == [conn[o] EXCEPT !.status = "CONNECTED"]
           b2 == [b1 EXCEPT !.fence = None]
           b3 == [b2 EXCEPT !.account = a]
           b4 == [b3 EXCEPT !.token = t]
           b5 == [b4 EXCEPT !.expired = FALSE]
           b6 == [b5 EXCEPT !.generation = NextGeneration(conn[o])]
           b7 == [b6 EXCEPT !.version = conn[o].version + 1]
<1>3. Connected(o, t, a) = b7
  BY <1>1 DEF Connected, Connection
<1>4. b1 \in Connection
  BY <1>1, <1>2, FieldTypes
<1>5. b2 \in Connection
  <2> HIDE DEF b1
  <2> QED BY <1>4, FieldTypes
<1>6. b3 \in Connection
  <2> HIDE DEF b2
  <2> QED BY <1>5, FieldTypes
<1>7. b4 \in Connection
  <2> HIDE DEF b3
  <2> QED BY <1>6, FieldTypes
<1>8. b5 \in Connection
  <2> HIDE DEF b4
  <2> QED BY <1>7, FieldTypes
<1>9. b6 \in Connection
  <2> HIDE DEF b5
  <2> QED BY <1>2, <1>8, FieldTypes
<1>10. b7 \in Connection
  <2> HIDE DEF b6
  <2> QED BY <1>2, <1>9, FieldTypes
<1> QED
  BY <1>3, <1>10

(* What a disconnect leaves of a connection.                                 *)
LEMMA DisconnectedType ==
    ASSUME NEW b \in Connection
    PROVE  Disconnected(b) \in Connection
<1>1. b.generation + 1 \in Nat /\ b.version + 1 \in Nat /\ "DISCONNECTED" \in Statuses
  BY DEF Connection, Statuses
<1>2. [Absent EXCEPT !.status = "DISCONNECTED", !.generation = 2, !.version = 1]
        \in Connection
  BY DEF Absent, Connection, Statuses
<1> DEFINE b1 == [b EXCEPT !.status = "DISCONNECTED"]
           b2 == [b1 EXCEPT !.token = None]
           b3 == [b2 EXCEPT !.fence = None]
           b4 == [b3 EXCEPT !.generation = b.generation + 1]
           b5 == [b4 EXCEPT !.version = b.version + 1]
<1>3. b1 \in Connection
  BY <1>1, FieldTypes
<1>4. b2 \in Connection
  <2> HIDE DEF b1
  <2> QED BY <1>3, FieldTypes
<1>5. b3 \in Connection
  <2> HIDE DEF b2
  <2> QED BY <1>4, FieldTypes
<1>6. b4 \in Connection
  <2> HIDE DEF b3
  <2> QED BY <1>1, <1>5, FieldTypes
<1>7. b5 \in Connection
  <2> HIDE DEF b4
  <2> QED BY <1>1, <1>6, FieldTypes
<1> QED
  BY <1>2, <1>7 DEF Disconnected

LEMMA ConsumeAllType ==
    ASSUME TypeOK, NEW o \in Owners
    PROVE  /\ ConsumeAll(o) \in [Tokens -> StateRecord]
           /\ \A t \in Tokens :
                /\ ConsumeAll(o)[t].owner = state[t].owner
                /\ ConsumeAll(o)[t].status = "unissued" <=> state[t].status = "unissued"
                /\ state[t].status = "consumed" => ConsumeAll(o)[t].status = "consumed"
                /\ state[t].status # "unissued" /\ state[t].owner = o
                     => ConsumeAll(o)[t].status = "consumed"
                /\ ConsumeAll(o)[t].status # "consumed" => state[t].status # "consumed"
  BY DEF ConsumeAll, IssuedTo, TypeOK, StateRecord

LEMMA TakenType ==
    ASSUME TypeOK, NEW r \in Refreshes
    PROVE  Taken(r) \in Snapshot
  BY DEF TypeOK, Refresh, Taken, Snapshot

(* Every step of the system keeps the types.                                 *)
LEMMA TypeStep ==
    ASSUME TypeOK, StatesAreOwned, ClaimsAreOwn, RefreshMatches, [Next]_vars
    PROVE  TypeOK'
<1>1. ASSUME NEW o \in Owners, NEW t \in Tokens, GenerateAuthorizationUrl(o, t)
      PROVE  TypeOK'
  <2> DEFINE before == IF conn[o].status = "ABSENT"
                THEN [Absent EXCEPT !.status = "NOT_CONFIGURED", !.generation = 1, !.version = 1]
                ELSE conn[o]
  <2>1. before \in Connection
    BY AbsentType DEF TypeOK, Connection, Statuses
  <2>2. [before EXCEPT !.fence = t] \in Connection
    BY <2>1 DEF Connection
  <2>3. [status |-> "open", owner |-> o, generation |-> before.generation, expired |-> FALSE]
          \in StateRecord
    BY <2>1 DEF StateRecord, Connection
  <2>4. conn' \in [Owners -> Connection]
    BY <1>1, <2>2 DEF GenerateAuthorizationUrl, TypeOK
  <2>5. state' \in [Tokens -> StateRecord]
    BY <1>1, <2>3, ConsumeAllType DEF GenerateAuthorizationUrl
  <2>6. withdrawn' \in SUBSET Tokens
    BY <1>1 DEF GenerateAuthorizationUrl, IssuedTo, TypeOK
  <2> QED
    BY <1>1, <2>4, <2>5, <2>6 DEF GenerateAuthorizationUrl, TypeOK
<1>2. ASSUME NEW c \in Callbacks, NEW t \in Tokens, ClaimState(c, t)
      PROVE  TypeOK'
  BY <1>2 DEF ClaimState, TypeOK, StateRecord, Callback
<1>3. ASSUME NEW c \in Callbacks, Exchange(c)
      PROVE  TypeOK'
  <2>1. callback[c] \in Callback /\ callback[c].token \in Tokens
    BY <1>3 DEF Exchange, TypeOK, ClaimsAreOwn
  <2>2. exchanged' \in [Tokens -> Nat]
    BY <1>3, <2>1 DEF Exchange, TypeOK
  <2>3. callback' \in [Callbacks -> Callback]
    BY <1>3, <2>1, AbsentType DEF Exchange, TypeOK, Callback
  <2> QED
    BY <1>3, <2>2, <2>3 DEF Exchange, TypeOK
<1>4. ASSUME NEW c \in Callbacks, BindConnection(c)
      PROVE  TypeOK'
  <2> DEFINE t == callback[c].token
  <2>1. /\ t \in Tokens
        /\ state[t].owner \in Owners
        /\ MayConnect(state[t].owner, t, callback[c].account) => callback[c].account \in Accounts
    BY <1>4, BrokerAssumption DEF BindConnection, ClaimsAreOwn, StatesAreOwned, MayConnect
  <2>2. conn' \in [Owners -> Connection]
    BY <1>4, <2>1, ConnectedType DEF BindConnection, TypeOK
  <2>3. callback' \in [Callbacks -> Callback] /\ active' \in [Owners -> SUBSET Snapshot]
    BY <1>4, AbsentType DEF BindConnection, TypeOK
  <2> QED
    BY <1>4, <2>2, <2>3 DEF BindConnection, TypeOK
<1>5. ASSUME NEW c \in Callbacks, AbandonCallback(c)
      PROVE  TypeOK'
  BY <1>5, AbsentType DEF AbandonCallback, TypeOK
<1>6. ASSUME NEW o \in Owners, Disconnect(o)
      PROVE  TypeOK'
  <2>1. conn' \in [Owners -> Connection]
    BY <1>6, DisconnectedType DEF Disconnect, TypeOK
  <2>2. state' \in [Tokens -> StateRecord] /\ withdrawn' \in SUBSET Tokens
    BY <1>6, ConsumeAllType DEF Disconnect, IssuedTo, TypeOK
  <2> QED
    BY <1>6, <2>1, <2>2 DEF Disconnect, TypeOK
<1>7. ASSUME NEW r \in Refreshes, NEW o \in Owners, BeginRefresh(r, o)
      PROVE  TypeOK'
  <2>1. Versions(active[o]) \in SUBSET Nat
    BY DEF Versions, TypeOK, Snapshot
  <2>2. [phase |-> "fetching", owner |-> o, account |-> conn[o].account,
         token |-> conn[o].token, generation |-> conn[o].generation,
         version |-> conn[o].version, found |-> Versions(active[o])] \in Refresh
    BY <2>1 DEF TypeOK, Connection, Refresh
  <2> QED
    BY <1>7, <2>2 DEF BeginRefresh, TypeOK
<1>8. ASSUME NEW r \in Refreshes, Fetch(r)
      PROVE  TypeOK'
  BY <1>8, AbsentType DEF Fetch, TypeOK, Refresh
<1>9. ASSUME NEW r \in Refreshes, FinalizeRefresh(r)
      PROVE  TypeOK'
  <2> DEFINE o == refresh[r].owner
  <2>1. conn' \in [Owners -> Connection]
    <3>1. o \in Owners
      BY <1>9 DEF FinalizeRefresh, RefreshMatches
    <3>2. [conn[o] EXCEPT !.version = conn[o].version + 1] \in Connection
      BY <3>1 DEF TypeOK, Connection
    <3>3. \/ conn' = [conn EXCEPT ![o] = [conn[o] EXCEPT !.version = conn[o].version + 1]]
          \/ conn' = conn
      BY <1>9, <3>1 DEF FinalizeRefresh, TypeOK
    <3> QED
      BY <3>1, <3>2, <3>3 DEF TypeOK
  <2>2. active' \in [Owners -> SUBSET Snapshot]
    BY <1>9, TakenType DEF FinalizeRefresh, TypeOK
  <2> QED
    BY <1>9, <2>1, <2>2, AbsentType DEF FinalizeRefresh, TypeOK
<1>10. ASSUME NEW t \in Tokens, StateExpires(t)
       PROVE  TypeOK'
  BY <1>10 DEF StateExpires, TypeOK, StateRecord
<1>11. ASSUME NEW o \in Owners, TokenExpires(o)
       PROVE  TypeOK'
  BY <1>11 DEF TokenExpires, TypeOK, Connection
<1>12. ASSUME NEW o \in Owners, SnapshotsAge(o)
       PROVE  TypeOK'
  <2>1. {[s EXCEPT !.stale = TRUE] : s \in active[o]} \in SUBSET Snapshot
    <3>1. \A s \in active[o] : s \in Snapshot
      BY DEF TypeOK
    <3>2. \A s \in Snapshot : [s EXCEPT !.stale = TRUE] \in Snapshot
      BY DEF Snapshot
    <3> QED
      BY <3>1, <3>2
  <2> QED
    BY <1>12, <2>1 DEF SnapshotsAge, TypeOK
<1>13. CASE UNCHANGED vars
  BY <1>13 DEF vars, TypeOK
<1> QED
  BY <1>1, <1>2, <1>3, <1>4, <1>5, <1>6, <1>7, <1>8, <1>9, <1>10, <1>11, <1>12, <1>13 DEF Next

-----------------------------------------------------------------------------
(* What the requests do to the connections.                                  *)

Kept(o) ==
    /\ conn'[o].status = conn[o].status
    /\ conn'[o].token = conn[o].token
    /\ conn'[o].account = conn[o].account
    /\ conn'[o].generation = conn[o].generation
    /\ conn'[o].version = conn[o].version

LEMMA GenerateEffect ==
    ASSUME TypeOK, NEW o \in Owners, NEW t \in Tokens, GenerateAuthorizationUrl(o, t)
    PROVE  /\ \A p \in Owners \ {o} : conn'[p] = conn[p]
           /\ conn'[o].fence = t
           /\ conn[o].status # "ABSENT" => Kept(o)
           /\ conn[o].status = "ABSENT" => /\ conn'[o].status = "NOT_CONFIGURED"
                                           /\ conn'[o].token = None
<1> DEFINE before == IF conn[o].status = "ABSENT"
              THEN [Absent EXCEPT !.status = "NOT_CONFIGURED", !.generation = 1, !.version = 1]
              ELSE conn[o]
<1>1. conn' = [conn EXCEPT ![o] = [before EXCEPT !.fence = t]]
  BY DEF GenerateAuthorizationUrl
<1>2. before \in Connection
  BY AbsentType DEF TypeOK, Connection, Statuses
<1>3. /\ conn[o].status # "ABSENT" => before = conn[o]
      /\ conn[o].status = "ABSENT" => before.status = "NOT_CONFIGURED" /\ before.token = None
  BY DEF Absent
<1> HIDE DEF before
<1> QED
  BY <1>1, <1>2, <1>3 DEF Kept, TypeOK, Connection

LEMMA BindEffect ==
    ASSUME TypeOK, StatesAreOwned, ClaimsAreOwn, NEW c \in Callbacks, BindConnection(c),
           NEW o, o = state[callback[c].token].owner
    PROVE  /\ o \in Owners /\ callback[c].token \in Tokens
           /\ \A p \in Owners \ {o} : conn'[p] = conn[p] /\ active'[p] = active[p]
           /\ \/ conn'[o] = conn[o] /\ active'[o] = active[o]
              \/ /\ MayConnect(o, callback[c].token, callback[c].account)
                 /\ conn'[o].status = "CONNECTED"
                 /\ conn'[o].fence = None
                 /\ conn'[o].account = callback[c].account
                 /\ conn'[o].token = callback[c].token
                 /\ conn'[o].version = conn[o].version + 1
                 /\ active'[o] = {}
<1>1. o \in Owners /\ callback[c].token \in Tokens
  BY DEF BindConnection, StatesAreOwned, ClaimsAreOwn
<1>2. CASE MayConnect(o, callback[c].token, callback[c].account)
  <2>1. /\ conn' = [conn EXCEPT ![o] = Connected(o, callback[c].token, callback[c].account)]
        /\ active' = [active EXCEPT ![o] = {}]
    BY <1>2 DEF BindConnection
  <2>2. LET b == Connected(o, callback[c].token, callback[c].account)
        IN  /\ b.status = "CONNECTED" /\ b.fence = None /\ b.account = callback[c].account
            /\ b.token = callback[c].token /\ b.version = conn[o].version + 1
    BY <1>1 DEF Connected, TypeOK, Connection
  <2> QED
    BY <1>1, <1>2, <2>1, <2>2 DEF TypeOK
<1>3. CASE ~MayConnect(o, callback[c].token, callback[c].account)
  BY <1>1, <1>3 DEF BindConnection
<1> QED
  BY <1>2, <1>3

LEMMA DisconnectEffect ==
    ASSUME TypeOK, NEW o \in Owners, Disconnect(o)
    PROVE  /\ \A p \in Owners \ {o} : conn'[p] = conn[p] /\ active'[p] = active[p]
           /\ conn'[o].status = "DISCONNECTED"
           /\ conn'[o].fence = None
           /\ conn'[o].token = None
           /\ conn[o].status # "ABSENT" => conn'[o].version = conn[o].version + 1
           /\ active'[o] = {}
<1>1. /\ Disconnected(conn[o]).status = "DISCONNECTED"
      /\ Disconnected(conn[o]).fence = None
      /\ Disconnected(conn[o]).token = None
      /\ conn[o].status # "ABSENT" => Disconnected(conn[o]).version = conn[o].version + 1
  BY DEF Disconnected, Absent, TypeOK, Connection
<1> QED
  BY <1>1 DEF Disconnect, TypeOK

LEMMA FinalizeEffect ==
    ASSUME TypeOK, RefreshMatches, NEW r \in Refreshes, FinalizeRefresh(r),
           NEW o, o = refresh[r].owner
    PROVE  /\ o \in Owners
           /\ \A p \in Owners \ {o} : conn'[p] = conn[p] /\ active'[p] = active[p]
           /\ \/ conn'[o] = conn[o] /\ active'[o] = active[o]
              \/ /\ StillTheSame(r)
                 /\ active'[o] = {Taken(r)}
                 /\ conn'[o].status = conn[o].status
                 /\ conn'[o].fence = conn[o].fence
                 /\ conn'[o].token = conn[o].token
                 /\ conn'[o].account = conn[o].account
                 /\ conn'[o].generation = conn[o].generation
                 /\ conn'[o].version = conn[o].version + 1
<1>1. o \in Owners
  BY DEF FinalizeRefresh, RefreshMatches
<1> QED
  BY <1>1 DEF FinalizeRefresh, TypeOK, Connection

LEMMA ExpiryEffect ==
    ASSUME TypeOK, NEW o \in Owners, TokenExpires(o)
    PROVE  \A p \in Owners : Kept(p) /\ conn'[p].fence = conn[p].fence
  BY DEF TokenExpires, TypeOK, Connection, Kept

LEMMA KeptLemma ==
    ASSUME NEW o, conn'[o] = conn[o]
    PROVE  Kept(o)
  BY DEF Kept

(* A connection that exists stays, and changes no more than its fence and    *)
(* its expiry without moving its version on.                                 *)
LEMMA VersionStep ==
    ASSUME TypeOK, StatesAreOwned, ClaimsAreOwn, RefreshMatches, [Next]_vars,
           NEW o \in Owners, conn[o].status # "ABSENT"
    PROVE  /\ conn'[o].status # "ABSENT"
           /\ Kept(o) \/ conn'[o].version = conn[o].version + 1
<1>1. ASSUME NEW p \in Owners, NEW t \in Tokens, GenerateAuthorizationUrl(p, t)
      PROVE  Kept(o)
  BY <1>1, GenerateEffect, KeptLemma
<1>2. ASSUME NEW c \in Callbacks, BindConnection(c)
      PROVE  \/ Kept(o)
             \/ conn'[o].status # "ABSENT" /\ conn'[o].version = conn[o].version + 1
  BY <1>2, BindEffect, KeptLemma
<1>3. ASSUME NEW p \in Owners, Disconnect(p)
      PROVE  \/ Kept(o)
             \/ conn'[o].status # "ABSENT" /\ conn'[o].version = conn[o].version + 1
  BY <1>3, DisconnectEffect, KeptLemma
<1>4. ASSUME NEW r \in Refreshes, FinalizeRefresh(r)
      PROVE  \/ Kept(o)
             \/ conn'[o].status # "ABSENT" /\ conn'[o].version = conn[o].version + 1
  BY <1>4, FinalizeEffect, KeptLemma
<1>5. ASSUME NEW p \in Owners, TokenExpires(p)
      PROVE  Kept(o)
  BY <1>5, ExpiryEffect
<1>6. ASSUME conn' = conn
      PROVE  Kept(o)
  BY <1>6, KeptLemma
<1> QED
  BY <1>1, <1>2, <1>3, <1>4, <1>5, <1>6
     DEF Next, vars, Kept, ClaimState, Exchange, AbandonCallback, BeginRefresh, Fetch,
         StateExpires, SnapshotsAge

-----------------------------------------------------------------------------
LEMMA EvidenceStep ==
    ASSUME Inv, [Next]_vars
    PROVE  EvidenceIsCurrent'
<1> USE DEF Inv
<1> SUFFICES ASSUME NEW o \in Owners
             PROVE  /\ \A s \in active'[o] : /\ conn'[o].status = "CONNECTED"
                                             /\ s.token = conn'[o].token
                                             /\ s.account = conn'[o].account
                                             /\ s.generation = conn'[o].generation
                    /\ \A s, u \in active'[o] : s = u
  BY DEF EvidenceIsCurrent
<1> DEFINE Goal == /\ \A s \in active'[o] : /\ conn'[o].status = "CONNECTED"
                                            /\ s.token = conn'[o].token
                                            /\ s.account = conn'[o].account
                                            /\ s.generation = conn'[o].generation
                   /\ \A s, u \in active'[o] : s = u
<1>0. ASSUME Kept(o), active'[o] = active[o]
      PROVE  Goal
  BY <1>0 DEF Kept, EvidenceIsCurrent
<1>1. ASSUME NEW p \in Owners, NEW t \in Tokens, GenerateAuthorizationUrl(p, t)
      PROVE  Goal
  <2>1. active'[o] = active[o]
    BY <1>1 DEF GenerateAuthorizationUrl
  <2>2. CASE o # p \/ conn[o].status # "ABSENT"
    BY <1>0, <1>1, <2>1, <2>2, GenerateEffect, KeptLemma
  <2>3. CASE conn[o].status = "ABSENT"
    <3>1. active[o] = {}
      BY <2>3 DEF EvidenceIsCurrent
    <3> QED
      BY <2>1, <3>1
  <2> QED
    BY <2>2, <2>3
<1>2. ASSUME NEW c \in Callbacks, BindConnection(c)
      PROVE  Goal
  <2>1. \/ conn'[o] = conn[o] /\ active'[o] = active[o]
        \/ active'[o] = {}
    BY <1>2, BindEffect
  <2> QED
    BY <1>0, <2>1, KeptLemma
<1>3. ASSUME NEW p \in Owners, Disconnect(p)
      PROVE  Goal
  <2>1. \/ conn'[o] = conn[o] /\ active'[o] = active[o]
        \/ active'[o] = {}
    BY <1>3, DisconnectEffect
  <2> QED
    BY <1>0, <2>1, KeptLemma
<1>4. ASSUME NEW r \in Refreshes, FinalizeRefresh(r)
      PROVE  Goal
  <2>1. CASE conn'[o] = conn[o] /\ active'[o] = active[o]
    BY <1>0, <2>1, KeptLemma
  <2>2. CASE ~(conn'[o] = conn[o] /\ active'[o] = active[o])
    <3>1. /\ o = refresh[r].owner
          /\ StillTheSame(r)
          /\ active'[o] = {Taken(r)}
          /\ conn'[o].status = conn[o].status
          /\ conn'[o].token = conn[o].token
          /\ conn'[o].account = conn[o].account
          /\ conn'[o].generation = conn[o].generation
      BY <1>4, <2>2, FinalizeEffect
    <3>2. /\ conn[o].status = "CONNECTED"
          /\ refresh[r].token = conn[o].token
          /\ refresh[r].account = conn[o].account
          /\ refresh[r].generation = conn[o].generation
      BY <1>4, <3>1 DEF StillTheSame, RefreshMatches, FinalizeRefresh
    <3> QED
      BY <3>1, <3>2 DEF Taken
  <2> QED
    BY <2>1, <2>2
<1>5. ASSUME NEW p \in Owners, TokenExpires(p)
      PROVE  Goal
  BY <1>0, <1>5, ExpiryEffect DEF TokenExpires
<1>6. ASSUME NEW p \in Owners, SnapshotsAge(p)
      PROVE  Goal
  <2>1. Kept(o)
    BY <1>6, KeptLemma DEF SnapshotsAge
  <2>2. CASE o # p
    BY <1>0, <1>6, <2>1, <2>2 DEF SnapshotsAge, TypeOK
  <2>3. CASE o = p
    <3>1. active'[o] = {[s EXCEPT !.stale = TRUE] : s \in active[o]}
      BY <1>6, <2>3 DEF SnapshotsAge, TypeOK
    <3>2. \A s \in active[o] : LET n == [s EXCEPT !.stale = TRUE]
                               IN  n.token = s.token /\ n.account = s.account
                                   /\ n.generation = s.generation
      BY DEF TypeOK, Snapshot
    <3>3. \A s \in active[o] : /\ conn[o].status = "CONNECTED"
                               /\ s.token = conn[o].token
                               /\ s.account = conn[o].account
                               /\ s.generation = conn[o].generation
      BY DEF EvidenceIsCurrent
    <3>4. \A s, u \in active[o] : s = u
      BY DEF EvidenceIsCurrent
    <3>5. ASSUME NEW s \in active'[o]
          PROVE  /\ conn'[o].status = "CONNECTED"
                 /\ s.token = conn'[o].token
                 /\ s.account = conn'[o].account
                 /\ s.generation = conn'[o].generation
      <4>1. PICK u \in active[o] : s = [u EXCEPT !.stale = TRUE]
        BY <3>1, <3>5
      <4> QED
        BY <2>1, <3>2, <3>3, <4>1 DEF Kept
    <3>6. \A s, u \in active'[o] : s = u
      BY <3>1, <3>4
    <3> QED
      BY <3>5, <3>6
  <2> QED
    BY <2>2, <2>3
<1>7. ASSUME conn' = conn, active' = active
      PROVE  Goal
  BY <1>0, <1>7, KeptLemma
<1> HIDE DEF Goal, Inv
<1>8. Goal
  BY <1>1, <1>2, <1>3, <1>4, <1>5, <1>6, <1>7
     DEF Next, vars, ClaimState, Exchange, AbandonCallback, BeginRefresh, Fetch, StateExpires
<1> QED
  BY <1>8 DEF Goal

LEMMA RefreshStep ==
    ASSUME Inv, [Next]_vars
    PROVE  RefreshMatches'
<1> USE DEF Inv
<1> SUFFICES ASSUME NEW r \in Refreshes, refresh'[r].phase # "idle"
             PROVE  LET p == refresh'[r].owner
                    IN  /\ p \in Owners
                        /\ conn'[p].status # "ABSENT"
                        /\ refresh'[r].version <= conn'[p].version
                        /\ (/\ refresh'[r].version = conn'[p].version
                            /\ conn'[p].status = "CONNECTED")
                           => /\ refresh'[r].token = conn'[p].token
                              /\ refresh'[r].account = conn'[p].account
                              /\ refresh'[r].generation = conn'[p].generation
  BY DEF RefreshMatches
<1> DEFINE Goal == LET p == refresh'[r].owner
                   IN  /\ p \in Owners
                       /\ conn'[p].status # "ABSENT"
                       /\ refresh'[r].version <= conn'[p].version
                       /\ (/\ refresh'[r].version = conn'[p].version
                           /\ conn'[p].status = "CONNECTED")
                          => /\ refresh'[r].token = conn'[p].token
                             /\ refresh'[r].account = conn'[p].account
                             /\ refresh'[r].generation = conn'[p].generation
           Same == /\ refresh[r].phase # "idle"
                   /\ refresh'[r].owner = refresh[r].owner
                   /\ refresh'[r].version = refresh[r].version
                   /\ refresh'[r].token = refresh[r].token
                   /\ refresh'[r].account = refresh[r].account
                   /\ refresh'[r].generation = refresh[r].generation
(* What the refresh remembers stays, and the connection moves on or is kept. *)
<1>1. ASSUME Same
      PROVE  Goal
  <2> DEFINE p == refresh[r].owner
  <2>1. /\ p \in Owners
        /\ conn[p].status # "ABSENT"
        /\ refresh[r].version <= conn[p].version
        /\ (refresh[r].version = conn[p].version /\ conn[p].status = "CONNECTED")
           => /\ refresh[r].token = conn[p].token
              /\ refresh[r].account = conn[p].account
              /\ refresh[r].generation = conn[p].generation
    BY <1>1 DEF RefreshMatches
  <2>2. conn'[p].status # "ABSENT" /\ (Kept(p) \/ conn'[p].version = conn[p].version + 1)
    BY <2>1, VersionStep
  <2>3. conn[p].version \in Nat /\ refresh[r].version \in Nat
    BY <2>1 DEF TypeOK, Connection, Refresh
  <2> QED
    BY <1>1, <2>1, <2>2, <2>3 DEF Kept
<1>2. ASSUME NEW q \in Refreshes, NEW o \in Owners, BeginRefresh(q, o)
      PROVE  Goal
  <2>1. CASE q = r
    <3>1. refresh'[r] = [phase |-> "fetching", owner |-> o, account |-> conn[o].account,
                         token |-> conn[o].token, generation |-> conn[o].generation,
                         version |-> conn[o].version, found |-> Versions(active[o])]
      BY <1>2, <2>1 DEF BeginRefresh, TypeOK
    <3>2. conn' = conn /\ conn[o].status = "CONNECTED" /\ conn[o].version \in Nat
      BY <1>2 DEF BeginRefresh, TypeOK, Connection
    <3> QED
      BY <3>1, <3>2
  <2>2. CASE q # r
    <3>1. refresh'[r] = refresh[r]
      BY <1>2, <2>2 DEF BeginRefresh, TypeOK
    <3> QED
      BY <1>1, <3>1
  <2> QED
    BY <2>1, <2>2
<1>3. ASSUME NEW q \in Refreshes, Fetch(q)
      PROVE  Goal
  <2>1. CASE q = r
    <3>1. refresh[r].phase = "fetching" /\ refresh[r] \in Refresh
      BY <1>3, <2>1 DEF Fetch, TypeOK
    <3>2. \/ refresh'[r] = [refresh[r] EXCEPT !.phase = "fetched"]
          \/ refresh'[r] = IdleRefresh
      BY <1>3, <2>1 DEF Fetch, TypeOK
    <3>3. refresh'[r] # IdleRefresh
      BY DEF IdleRefresh
    <3>4. Same
      BY <3>1, <3>2, <3>3 DEF Refresh
    <3> QED
      BY <1>1, <3>4
  <2>2. CASE q # r
    <3>1. refresh'[r] = refresh[r]
      BY <1>3, <2>2 DEF Fetch, TypeOK
    <3> QED
      BY <1>1, <3>1
  <2> QED
    BY <2>1, <2>2
<1>4. ASSUME NEW q \in Refreshes, FinalizeRefresh(q)
      PROVE  Goal
  <2>1. refresh' = [refresh EXCEPT ![q] = IdleRefresh]
    BY <1>4 DEF FinalizeRefresh
  <2>2. q # r
    BY <2>1 DEF IdleRefresh, TypeOK
  <2>3. refresh'[r] = refresh[r]
    BY <2>1, <2>2 DEF TypeOK
  <2> QED
    BY <1>1, <2>3
<1>5. ASSUME refresh' = refresh
      PROVE  Goal
  BY <1>1, <1>5
<1> HIDE DEF Goal, Inv
<1>6. Goal
  BY <1>2, <1>3, <1>4, <1>5
     DEF Next, vars, GenerateAuthorizationUrl, ClaimState, Exchange, BindConnection,
         AbandonCallback, Disconnect, StateExpires, TokenExpires, SnapshotsAge
<1> QED
  BY <1>6 DEF Goal

LEMMA ExclusiveStep ==
    ASSUME Inv, [Next]_vars
    PROVE  Exclusive'
<1> USE DEF Inv
(* A connection that is up afterwards was up before, on the same account.    *)
<1> DEFINE Up(o) == conn'[o].status = "CONNECTED"
                      => conn[o].status = "CONNECTED" /\ conn'[o].account = conn[o].account
<1>1. ASSUME \A o \in Owners : Up(o)
      PROVE  Exclusive'
  BY <1>1 DEF Exclusive
<1>2. ASSUME NEW p \in Owners, NEW t \in Tokens, GenerateAuthorizationUrl(p, t)
      PROVE  Exclusive'
  BY <1>1, <1>2, GenerateEffect DEF Kept
<1>3. ASSUME NEW c \in Callbacks, BindConnection(c)
      PROVE  Exclusive'
  <2> DEFINE p == state[callback[c].token].owner
  <2>1. CASE conn'[p] = conn[p]
    BY <1>1, <1>3, <2>1, BindEffect
  <2>2. CASE conn'[p] # conn[p]
    <3>1. /\ p \in Owners
          /\ \A o \in Owners \ {p} : conn'[o] = conn[o]
          /\ conn'[p].account = callback[c].account
          /\ ~ConnectedElsewhere(p, callback[c].account)
      BY <1>3, <2>2, BindEffect DEF MayConnect
    <3>2. \A o \in Owners \ {p} :
            conn'[o].status = "CONNECTED" => conn'[o].account # conn'[p].account
      BY <3>1 DEF ConnectedElsewhere
    <3>3. ASSUME NEW o \in Owners, NEW q \in Owners,
                 conn'[o].status = "CONNECTED", conn'[q].status = "CONNECTED",
                 conn'[o].account = conn'[q].account
          PROVE  o = q
      <4>1. CASE o = p \/ q = p
        BY <3>2, <3>3, <4>1
      <4>2. CASE o # p /\ q # p
        BY <3>1, <3>3, <4>2 DEF Exclusive
      <4> QED
        BY <4>1, <4>2
    <3> QED
      BY <3>3 DEF Exclusive
  <2> QED
    BY <2>1, <2>2
<1>4. ASSUME NEW p \in Owners, Disconnect(p)
      PROVE  Exclusive'
  BY <1>1, <1>4, DisconnectEffect
<1>5. ASSUME NEW r \in Refreshes, FinalizeRefresh(r)
      PROVE  Exclusive'
  BY <1>1, <1>5, FinalizeEffect
<1>6. ASSUME NEW p \in Owners, TokenExpires(p)
      PROVE  Exclusive'
  BY <1>1, <1>6, ExpiryEffect DEF Kept
<1>7. ASSUME conn' = conn
      PROVE  Exclusive'
  BY <1>1, <1>7
<1> HIDE DEF Inv
<1> QED
  BY <1>2, <1>3, <1>4, <1>5, <1>6, <1>7
     DEF Next, vars, ClaimState, Exchange, AbandonCallback, BeginRefresh, Fetch,
         StateExpires, SnapshotsAge

(* What generating an authorization, and claiming, exchanging and expiring   *)
(* one, do to the state records.                                             *)
LEMMA IssueEffect ==
    ASSUME TypeOK, NEW o \in Owners, NEW t \in Tokens, GenerateAuthorizationUrl(o, t)
    PROVE  /\ state[t].status = "unissued"
           /\ state'[t].status = "open" /\ state'[t].owner = o
           /\ \A u \in Tokens \ {t} : state'[u] = ConsumeAll(o)[u]
           /\ exchanged' = exchanged /\ callback' = callback
           /\ withdrawn' = withdrawn \cup IssuedTo(o)
<1>1. ConsumeAll(o) \in [Tokens -> StateRecord]
  BY ConsumeAllType
<1> QED
  BY <1>1 DEF GenerateAuthorizationUrl

LEMMA StateChangeEffect ==
    ASSUME TypeOK, NEW t \in Tokens,
           (\E c \in Callbacks : ClaimState(c, t)) \/ StateExpires(t)
    PROVE  /\ state[t].status = "open"
           /\ \A u \in Tokens \ {t} : state'[u] = state[u]
           /\ state'[t].owner = state[t].owner
           /\ state'[t].status \in {"open", "consumed"}
           /\ (\E c \in Callbacks : ClaimState(c, t)) => state'[t].status = "consumed"
           /\ exchanged' = exchanged /\ withdrawn' = withdrawn /\ conn' = conn
  BY DEF ClaimState, StateExpires, TypeOK, StateRecord

LEMMA ExchangeEffect ==
    ASSUME TypeOK, ClaimsAreOwn, NEW c \in Callbacks, Exchange(c)
    PROVE  /\ callback[c].phase = "claimed" /\ callback[c].token \in Tokens
           /\ exchanged[callback[c].token] = 0
           /\ exchanged'[callback[c].token] = 1
           /\ \A u \in Tokens \ {callback[c].token} : exchanged'[u] = exchanged[u]
           /\ \A d \in Callbacks \ {c} : callback'[d] = callback[d]
           /\ \/ callback'[c].phase = "idle"
              \/ callback'[c].phase = "answered" /\ callback'[c].token = callback[c].token
           /\ state' = state
<1>1. /\ callback[c].phase = "claimed" /\ callback[c].token \in Tokens
      /\ exchanged[callback[c].token] = 0
  BY DEF Exchange, ClaimsAreOwn
<1>2. /\ exchanged'[callback[c].token] = 1
      /\ \A u \in Tokens \ {callback[c].token} : exchanged'[u] = exchanged[u]
  BY <1>1 DEF Exchange, TypeOK
<1>3. /\ \A d \in Callbacks \ {c} : callback'[d] = callback[d]
      /\ \/ callback'[c].phase = "idle"
         \/ callback'[c].phase = "answered" /\ callback'[c].token = callback[c].token
  BY DEF Exchange, TypeOK, Callback, IdleCallback
<1> QED
  BY <1>1, <1>2, <1>3 DEF Exchange

LEMMA StatesStep ==
    ASSUME Inv, [Next]_vars
    PROVE  StatesAreOwned'
<1> USE DEF Inv
<1>1. ASSUME NEW o \in Owners, NEW t \in Tokens, GenerateAuthorizationUrl(o, t)
      PROVE  StatesAreOwned'
  BY <1>1, IssueEffect, ConsumeAllType DEF StatesAreOwned
<1>2. ASSUME NEW t \in Tokens, (\E c \in Callbacks : ClaimState(c, t)) \/ StateExpires(t)
      PROVE  StatesAreOwned'
  BY <1>2, StateChangeEffect DEF StatesAreOwned
<1>3. ASSUME NEW c \in Callbacks, Exchange(c)
      PROVE  StatesAreOwned'
  <2>1. state[callback[c].token].status = "consumed"
    BY <1>3 DEF Exchange, ClaimsAreOwn
  <2> QED
    BY <1>3, <2>1, ExchangeEffect DEF StatesAreOwned
<1>4. ASSUME NEW o \in Owners, Disconnect(o)
      PROVE  StatesAreOwned'
  BY <1>4, ConsumeAllType DEF Disconnect, StatesAreOwned
<1>5. ASSUME state' = state, exchanged' = exchanged
      PROVE  StatesAreOwned'
  BY <1>5 DEF StatesAreOwned
<1> HIDE DEF Inv
<1> QED
  BY <1>1, <1>2, <1>3, <1>4, <1>5
     DEF Next, vars, BindConnection, AbandonCallback, BeginRefresh, Fetch, FinalizeRefresh,
         TokenExpires, SnapshotsAge

LEMMA ClaimsStep ==
    ASSUME Inv, [Next]_vars
    PROVE  ClaimsAreOwn'
<1> USE DEF Inv
(* Callbacks that stay or end, and states that stay consumed.                *)
<1>1. ASSUME \A c \in Callbacks : callback'[c] = callback[c] \/ callback'[c].phase = "idle",
             \A t \in Tokens : state[t].status = "consumed" => state'[t].status = "consumed",
             exchanged' = exchanged
      PROVE  ClaimsAreOwn'
  BY <1>1 DEF ClaimsAreOwn
<1>2. ASSUME NEW o \in Owners, NEW t \in Tokens, GenerateAuthorizationUrl(o, t)
      PROVE  ClaimsAreOwn'
  BY <1>1, <1>2, IssueEffect, ConsumeAllType
<1>3. ASSUME NEW c \in Callbacks, NEW t \in Tokens, ClaimState(c, t)
      PROVE  ClaimsAreOwn'
  <2>1. /\ callback'[c] = [phase |-> "claimed", token |-> t, account |-> None]
        /\ \A d \in Callbacks \ {c} : callback'[d] = callback[d]
    BY <1>3 DEF ClaimState, TypeOK
  <2>2. /\ state[t].status = "open" /\ state'[t].status = "consumed"
        /\ \A u \in Tokens \ {t} : state'[u] = state[u]
        /\ exchanged' = exchanged
    BY <1>3, StateChangeEffect
  <2>3. exchanged[t] = 0
    BY <2>2 DEF StatesAreOwned
  <2>4. \A d \in Callbacks \ {c} : callback[d].phase # "idle" => callback[d].token # t
    BY <2>2 DEF ClaimsAreOwn
  <2> QED
    BY <2>1, <2>2, <2>3, <2>4 DEF ClaimsAreOwn
<1>4. ASSUME NEW c \in Callbacks, Exchange(c)
      PROVE  ClaimsAreOwn'
  <2>1. \A d \in Callbacks \ {c} :
          callback[d].phase # "idle" => callback[d].token # callback[c].token
    BY <1>4 DEF ClaimsAreOwn, Exchange
  <2> QED
    BY <1>4, <2>1, ExchangeEffect DEF ClaimsAreOwn
<1>5. ASSUME NEW c \in Callbacks, BindConnection(c) \/ AbandonCallback(c)
      PROVE  ClaimsAreOwn'
  <2>1. \A d \in Callbacks : callback'[d] = callback[d] \/ callback'[d].phase = "idle"
    BY <1>5 DEF BindConnection, AbandonCallback, IdleCallback, TypeOK
  <2>2. state' = state /\ exchanged' = exchanged
    BY <1>5 DEF BindConnection, AbandonCallback
  <2> QED
    BY <1>1, <2>1, <2>2
<1>6. ASSUME NEW o \in Owners, Disconnect(o)
      PROVE  ClaimsAreOwn'
  BY <1>1, <1>6, ConsumeAllType DEF Disconnect
<1>7. ASSUME NEW t \in Tokens, StateExpires(t)
      PROVE  ClaimsAreOwn'
  <2>1. \A u \in Tokens : state[u].status = "consumed" => state'[u].status = "consumed"
    BY <1>7, StateChangeEffect
  <2> QED
    BY <1>1, <1>7, <2>1 DEF StateExpires
<1>8. ASSUME callback' = callback, state' = state, exchanged' = exchanged
      PROVE  ClaimsAreOwn'
  BY <1>1, <1>8
<1> HIDE DEF Inv
<1> QED
  BY <1>2, <1>3, <1>4, <1>5, <1>6, <1>7, <1>8
     DEF Next, vars, BeginRefresh, Fetch, FinalizeRefresh, TokenExpires, SnapshotsAge

LEMMA FenceStep ==
    ASSUME Inv, [Next]_vars
    PROVE  FenceIsLive'
<1> USE DEF Inv
<1>0. \A o \in Owners : conn[o].fence \in Tokens \cup {None}
  BY DEF TypeOK, Connection
(* Fences that stay or go, and states that stay issued to their owner.       *)
<1>1. ASSUME \A o \in Owners : conn'[o].fence = conn[o].fence \/ conn'[o].fence = None,
             \A t \in Tokens : state[t].status # "unissued" =>
               state'[t].status # "unissued" /\ state'[t].owner = state[t].owner,
             withdrawn' = withdrawn
      PROVE  FenceIsLive'
  BY <1>0, <1>1 DEF FenceIsLive, TypeOK
<1>2. ASSUME NEW o \in Owners, NEW t \in Tokens, GenerateAuthorizationUrl(o, t)
      PROVE  FenceIsLive'
  <2>1. /\ conn'[o].fence = t
        /\ \A p \in Owners \ {o} : conn'[p].fence = conn[p].fence
    BY <1>2, GenerateEffect
  <2>2. \A u \in Tokens : /\ u # t => state'[u].owner = state[u].owner
                          /\ state[u].status # "unissued" => u # t /\ state'[u].status # "unissued"
    BY <1>2, IssueEffect, ConsumeAllType
  <2>3. t \notin withdrawn'
    BY <1>2, IssueEffect DEF FenceIsLive, IssuedTo
  <2>4. \A p \in Owners \ {o} : conn[p].fence # None => conn[p].fence \notin withdrawn'
    BY <1>2, IssueEffect DEF FenceIsLive, IssuedTo
  <2>5. \A u \in withdrawn' : u \in Tokens /\ state[u].status # "unissued"
    BY <1>2, IssueEffect DEF FenceIsLive, IssuedTo, TypeOK
  <2>6. state'[t].status # "unissued" /\ state'[t].owner = o
    BY <1>2, IssueEffect
  <2>7. ASSUME NEW p \in Owners, conn'[p].fence # None
        PROVE  /\ conn'[p].fence \notin withdrawn'
               /\ state'[conn'[p].fence].status # "unissued"
               /\ state'[conn'[p].fence].owner = p
    <3>1. CASE p = o
      BY <2>1, <2>3, <2>6, <3>1
    <3>2. CASE p # o
      <4>1. /\ conn[p].fence \in Tokens /\ conn'[p].fence = conn[p].fence
            /\ state[conn[p].fence].status # "unissued" /\ state[conn[p].fence].owner = p
        BY <1>0, <2>1, <2>7, <3>2 DEF FenceIsLive
      <4> QED
        BY <2>2, <2>4, <2>7, <3>2, <4>1
    <3> QED
      BY <3>1, <3>2
  <2> QED
    BY <2>2, <2>5, <2>7 DEF FenceIsLive
<1>3. ASSUME NEW t \in Tokens, (\E c \in Callbacks : ClaimState(c, t)) \/ StateExpires(t)
      PROVE  FenceIsLive'
  BY <1>1, <1>3, StateChangeEffect
<1>4. ASSUME NEW c \in Callbacks, BindConnection(c)
      PROVE  FenceIsLive'
  <2>1. \A o \in Owners : conn'[o].fence = conn[o].fence \/ conn'[o].fence = None
    BY <1>4, BindEffect
  <2> QED
    BY <1>1, <1>4, <2>1 DEF BindConnection
<1>5. ASSUME NEW o \in Owners, Disconnect(o)
      PROVE  FenceIsLive'
  <2>1. /\ conn'[o].fence = None
        /\ \A p \in Owners \ {o} : conn'[p].fence = conn[p].fence
    BY <1>5, DisconnectEffect
  <2>2. /\ withdrawn' = withdrawn \cup IssuedTo(o)
        /\ \A t \in Tokens : state[t].status # "unissued" =>
             state'[t].status # "unissued" /\ state'[t].owner = state[t].owner
    BY <1>5, ConsumeAllType DEF Disconnect
  <2>3. \A p \in Owners \ {o} : conn[p].fence # None =>
          /\ conn[p].fence \in Tokens
          /\ conn[p].fence \notin withdrawn'
          /\ state[conn[p].fence].status # "unissued"
          /\ state[conn[p].fence].owner = p
    BY <1>0, <2>2 DEF FenceIsLive, IssuedTo
  <2>4. \A u \in withdrawn' : u \in Tokens /\ state[u].status # "unissued"
    BY <2>2 DEF FenceIsLive, IssuedTo, TypeOK
  <2> QED
    BY <2>1, <2>2, <2>3, <2>4 DEF FenceIsLive
<1>6. ASSUME NEW r \in Refreshes, FinalizeRefresh(r)
      PROVE  FenceIsLive'
  <2>1. \A o \in Owners : conn'[o].fence = conn[o].fence
    BY <1>6, FinalizeEffect
  <2> QED
    BY <1>1, <1>6, <2>1 DEF FinalizeRefresh
<1>7. ASSUME NEW o \in Owners, TokenExpires(o)
      PROVE  FenceIsLive'
  BY <1>1, <1>7, ExpiryEffect DEF TokenExpires
<1>8. ASSUME conn' = conn, state' = state, withdrawn' = withdrawn
      PROVE  FenceIsLive'
  BY <1>1, <1>8
<1> HIDE DEF Inv
<1> QED
  BY <1>2, <1>3, <1>4, <1>5, <1>6, <1>7, <1>8
     DEF Next, vars, Exchange, AbandonCallback, BeginRefresh, Fetch, SnapshotsAge

-----------------------------------------------------------------------------
LEMMA InvInit == Init => Inv
<1> SUFFICES ASSUME Init PROVE Inv
  OBVIOUS
<1> USE DEF Init
<1>1. TypeOK
  <2>1. [status |-> "unissued", owner |-> None, generation |-> 0, expired |-> FALSE]
          \in StateRecord
    BY DEF StateRecord
  <2> QED
    BY <2>1, AbsentType DEF TypeOK
<1>2. EvidenceIsCurrent /\ Exclusive
  BY DEF EvidenceIsCurrent, Exclusive, Absent
<1>3. RefreshMatches /\ ClaimsAreOwn
  BY DEF RefreshMatches, ClaimsAreOwn, IdleRefresh, IdleCallback
<1>4. StatesAreOwned /\ FenceIsLive
  BY DEF StatesAreOwned, FenceIsLive, Absent
<1> QED
  BY <1>1, <1>2, <1>3, <1>4 DEF Inv

LEMMA InvStep == Inv /\ [Next]_vars => Inv'
  BY TypeStep, EvidenceStep, RefreshStep, ExclusiveStep, StatesStep, ClaimsStep, FenceStep
     DEF Inv

(* The invariant of the broker connection holds of every behaviour.          *)
THEOREM Invariance == Spec => []Inv
  BY InvInit, InvStep, PTL DEF Spec

(* Every variable keeps its type, whatever requests interleave.              *)
THEOREM TypeCorrect == Spec => []TypeOK
<1>1. Inv => TypeOK
  BY DEF Inv
<1> QED
  BY <1>1, Invariance, PTL

(* A snapshot that is ACTIVE is the only one, and is of the connection that  *)
(* its owner has now: a refresh that a disconnect, a reconnection or another *)
(* refresh overtook leaves nothing behind (refresh_snapshots).               *)
THEOREM EvidenceCurrent == Spec => []EvidenceIsCurrent
<1>1. Inv => EvidenceIsCurrent
  BY DEF Inv
<1> QED
  BY <1>1, Invariance, PTL

(* Two users are never ready to trade on one broker account: the callback    *)
(* looks for another user's connection in the transaction that connects.     *)
THEOREM ReadinessExclusive == Spec => []ReadyIsExclusive
<1>1. Inv => ReadyIsExclusive
  BY DEF Inv, Exclusive, ReadyIsExclusive, Ready, ConnectionGate
<1> QED
  BY <1>1, Invariance, PTL

(* An authorization is exchanged at most once, and one that was withdrawn    *)
(* connects nobody, although the callback does not hold a transaction while  *)
(* it exchanges the code (handle_oauth_callback).                            *)
THEOREM SingleUse == Spec => AuthorizationIsSingleUse
<1> DEFINE Step ==
      /\ \A t \in Tokens : exchanged'[t] <= 1
      /\ \A o \in Owners :
           conn'[o].token \notin {conn[o].token, None} => conn'[o].token \notin withdrawn
<1>1. ASSUME Inv, [Next]_vars
      PROVE  Step
  <2>1. \A t \in Tokens : exchanged'[t] <= 1
    BY <1>1, StatesStep DEF StatesAreOwned
  <2>2. ASSUME NEW o \in Owners, conn'[o].token \notin {conn[o].token, None}
        PROVE  conn'[o].token \notin withdrawn
    <3> USE <1>1 DEF Inv
    <3>1. ASSUME NEW p \in Owners, NEW t \in Tokens, GenerateAuthorizationUrl(p, t)
          PROVE  FALSE
      BY <2>2, <3>1, GenerateEffect DEF Kept
    <3>2. ASSUME NEW c \in Callbacks, BindConnection(c)
          PROVE  conn'[o].token \notin withdrawn
      <4>1. /\ conn'[o].token = callback[c].token
            /\ FenceHolds(o, callback[c].token)
            /\ callback[c].token \in Tokens
        BY <2>2, <3>2, BindEffect DEF MayConnect
      <4> QED
        BY <4>1, BrokerAssumption DEF FenceHolds, FenceIsLive
    <3>3. ASSUME NEW p \in Owners, Disconnect(p)
          PROVE  FALSE
      BY <2>2, <3>3, DisconnectEffect
    <3>4. ASSUME NEW r \in Refreshes, FinalizeRefresh(r)
          PROVE  FALSE
      BY <2>2, <3>4, FinalizeEffect
    <3>5. ASSUME NEW p \in Owners, TokenExpires(p)
          PROVE  FALSE
      BY <2>2, <3>5, ExpiryEffect DEF Kept
    <3>6. conn' # conn
      BY <2>2
    <3> HIDE DEF Inv
    <3> QED
      BY <3>1, <3>2, <3>3, <3>4, <3>5, <3>6
         DEF Next, vars, ClaimState, Exchange, AbandonCallback, BeginRefresh, Fetch,
             StateExpires, SnapshotsAge
  <2> QED
    BY <2>1, <2>2
<1>2. Inv /\ [Next]_vars => [Step]_vars
  BY <1>1
<1> QED
  BY <1>2, Invariance, PTL DEF Spec, AuthorizationIsSingleUse
=============================================================================
