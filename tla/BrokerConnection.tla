-------------------------- MODULE BrokerConnection --------------------------
(***************************************************************************)
(* The live broker connection of each user (services/broker_service.py):   *)
(* OAuth authorization, its callback, disconnecting, and the read-only     *)
(* snapshots that live readiness rests on.                                 *)
(*                                                                         *)
(* A callback and a refresh each commit (or roll back) before they call    *)
(* the broker and verify everything again in a fresh transaction, so each  *)
(* is three steps here, and any other request may come in between.  The    *)
(* fence of an authorization is random and kept with its state token: both *)
(* are the token here.  A callback of another user or session is refused   *)
(* before it changes anything, and so is no step.                          *)
(***************************************************************************)
EXTENDS Naturals, FiniteSets

CONSTANTS
    Owners,      \* users
    Tokens,      \* state tokens (bound: authorizations ever begun)
    Accounts,    \* broker accounts (UCC)
    Expected,    \* Expected: the accounts UPSTOX_EXPECTED_UCC admits
    Callbacks,   \* callbacks being handled at a time
    Refreshes,   \* refreshes being handled at a time
    MaxVersion,  \* bound: version of a connection
    None         \* NULL

ASSUME BrokerAssumption ==
    /\ Expected \subseteq Accounts
    /\ None \notin Owners \cup Tokens \cup Accounts
    /\ MaxVersion \in Nat

VARIABLES
    conn,      \* conn[o]: ProviderConnection
    state,     \* state[t]: OAuthStateRecord
    callback,  \* callback[c]: what a callback being handled remembers
    refresh,   \* refresh[r]: what a refresh being handled remembers
    active,    \* active[o]: the ACTIVE BrokerSnapshots of the owner
    exchanged, \* exchanged[t]: how often the code of t was exchanged
    withdrawn  \* authorizations that a newer one or a disconnect has withdrawn

vars == <<conn, state, callback, refresh, active, exchanged, withdrawn>>

Statuses == {"ABSENT", "NOT_CONFIGURED", "CONNECTED", "DISCONNECTED"}

(* token: the authorization that encrypted_access_token came from. *)
Connection ==
    [status : Statuses, fence : Tokens \cup {None}, account : Accounts \cup {None},
     token : Tokens \cup {None}, expired : BOOLEAN, generation : Nat, version : Nat]

StateRecord ==
    [status : {"unissued", "open", "consumed"}, owner : Owners \cup {None},
     generation : Nat, expired : BOOLEAN]

Callback ==
    [phase : {"idle", "claimed", "answered"}, token : Tokens \cup {None},
     account : Accounts \cup {None}]

(* found: the snapshots that were ACTIVE when the refresh began. *)
Snapshot ==
    [account : Accounts \cup {None}, token : Tokens \cup {None},
     generation : Nat, version : Nat, stale : BOOLEAN]
Refresh ==
    [phase : {"idle", "fetching", "fetched"}, owner : Owners \cup {None},
     account : Accounts \cup {None}, token : Tokens \cup {None},
     generation : Nat, version : Nat, found : SUBSET Nat]

IdleCallback == [phase |-> "idle", token |-> None, account |-> None]
IdleRefresh ==
    [phase |-> "idle", owner |-> None, account |-> None, token |-> None,
     generation |-> 0, version |-> 0, found |-> {}]

Absent ==
    [status |-> "ABSENT", fence |-> None, account |-> None, token |-> None,
     expired |-> FALSE, generation |-> 0, version |-> 0]

Init ==
    /\ conn = [o \in Owners |-> Absent]
    /\ state = [t \in Tokens |-> [status |-> "unissued", owner |-> None,
                                  generation |-> 0, expired |-> FALSE]]
    /\ callback = [c \in Callbacks |-> IdleCallback]
    /\ refresh = [r \in Refreshes |-> IdleRefresh]
    /\ active = [o \in Owners |-> {}]
    /\ exchanged = [t \in Tokens |-> 0]
    /\ withdrawn = {}

Versions(S) == {s.version : s \in S}

-----------------------------------------------------------------------------
(* Authorization. *)

IssuedTo(o) == {t \in Tokens : state[t].status # "unissued" /\ state[t].owner = o}

(* The unconsumed states of an owner are consumed. *)
ConsumeAll(o) ==
    [t \in Tokens |-> IF t \in IssuedTo(o) THEN [state[t] EXCEPT !.status = "consumed"]
                      ELSE state[t]]

(* generate_authorization_url *)
GenerateAuthorizationUrl(o, t) ==
    LET before == IF conn[o].status = "ABSENT"
                  THEN [Absent EXCEPT !.status = "NOT_CONFIGURED", !.generation = 1, !.version = 1]
                  ELSE conn[o]
    IN  /\ state[t].status = "unissued"
        /\ conn' = [conn EXCEPT ![o] = [before EXCEPT !.fence = t]]
        /\ state' = [ConsumeAll(o) EXCEPT
                       ![t] = [status |-> "open", owner |-> o,
                               generation |-> before.generation, expired |-> FALSE]]
        /\ withdrawn' = withdrawn \cup IssuedTo(o)
        /\ UNCHANGED <<callback, refresh, active, exchanged>>

(* Mutant of ClaimState: the state is not consumed before the exchange. *)
ClaimWithoutConsuming(c, t) ==
    /\ callback[c].phase = "idle"
    /\ state[t].status = "open" /\ ~state[t].expired
    /\ callback' = [callback EXCEPT ![c] = [phase |-> "claimed", token |-> t, account |-> None]]
    /\ UNCHANGED <<conn, state, refresh, active, exchanged, withdrawn>>

(* handle_oauth_callback, first transaction: the state is claimed. *)
ClaimState(c, t) ==
    /\ callback[c].phase = "idle"
    /\ state[t].status = "open" /\ ~state[t].expired
    /\ state' = [state EXCEPT ![t].status = "consumed"]
    /\ callback' = [callback EXCEPT ![c] = [phase |-> "claimed", token |-> t, account |-> None]]
    /\ UNCHANGED <<conn, refresh, active, exchanged, withdrawn>>

(* exchange_code_for_token: the broker answers for the account that was    *)
(* logged in to, or the call fails, which ends the callback.               *)
Exchange(c) ==
    /\ callback[c].phase = "claimed"
    /\ exchanged' = [exchanged EXCEPT ![callback[c].token] = @ + 1]
    /\ \/ \E a \in Accounts : callback' = [callback EXCEPT ![c].phase = "answered", ![c].account = a]
       \/ callback' = [callback EXCEPT ![c] = IdleCallback]
    /\ UNCHANGED <<conn, state, refresh, active, withdrawn>>

(* Mutant of FenceHolds: any connection will do. *)
AnyFence(o, t) == conn[o].status # "ABSENT"

FenceHolds(o, t) ==
    /\ conn[o].status # "ABSENT"
    /\ conn[o].fence = t
    /\ conn[o].generation = state[t].generation

(* Mutant of ConnectedElsewhere: another user is not looked for. *)
NotLookedFor(o, a) == FALSE

(* The check for another user's connection, and the unique index behind it. *)
ConnectedElsewhere(o, a) ==
    \E p \in Owners \ {o} : conn[p].account = a /\ conn[p].status = "CONNECTED"

MayConnect(o, t, a) == a \in Expected /\ FenceHolds(o, t) /\ ~ConnectedElsewhere(o, a)

(* The first connection keeps generation 1. *)
NextGeneration(b) ==
    IF b.status \in {"NOT_CONFIGURED", "DISCONNECTED"} /\ b.token = None /\ b.generation = 1
    THEN 1 ELSE b.generation + 1

Connected(o, t, a) ==
    [conn[o] EXCEPT !.status = "CONNECTED", !.fence = None, !.account = a, !.token = t,
                    !.expired = FALSE, !.generation = NextGeneration(conn[o]), !.version = @ + 1]

(* Mutant of BindConnection: the snapshots stay ACTIVE. *)
BindKeepingSnapshots(c) ==
    LET t == callback[c].token
        o == state[t].owner
    IN  /\ callback[c].phase = "answered"
        /\ callback' = [callback EXCEPT ![c] = IdleCallback]
        /\ IF MayConnect(o, t, callback[c].account)
           THEN /\ conn[o].version < MaxVersion
                /\ conn' = [conn EXCEPT ![o] = Connected(o, t, callback[c].account)]
           ELSE UNCHANGED conn
        /\ UNCHANGED <<state, refresh, active, exchanged, withdrawn>>

(* handle_oauth_callback, last transaction: everything is verified again,  *)
(* the token is stored and the snapshots are superseded.                   *)
BindConnection(c) ==
    LET t == callback[c].token
        o == state[t].owner
    IN  /\ callback[c].phase = "answered"
        /\ callback' = [callback EXCEPT ![c] = IdleCallback]
        /\ IF MayConnect(o, t, callback[c].account)
           THEN /\ conn[o].version < MaxVersion
                /\ conn' = [conn EXCEPT ![o] = Connected(o, t, callback[c].account)]
                /\ active' = [active EXCEPT ![o] = {}]
           ELSE UNCHANGED <<conn, active>>
        /\ UNCHANGED <<state, refresh, exchanged, withdrawn>>

(* The process that handles a callback fails or dies between its steps. *)
AbandonCallback(c) ==
    /\ callback[c].phase # "idle"
    /\ callback' = [callback EXCEPT ![c] = IdleCallback]
    /\ UNCHANGED <<conn, state, refresh, active, exchanged, withdrawn>>

Disconnected(b) ==
    IF b.status = "ABSENT"
    THEN [Absent EXCEPT !.status = "DISCONNECTED", !.generation = 2, !.version = 1]
    ELSE [b EXCEPT !.status = "DISCONNECTED", !.token = None, !.fence = None,
                   !.generation = b.generation + 1, !.version = b.version + 1]

(* disconnect: also without a connection, and whatever its status. *)
Disconnect(o) ==
    /\ conn[o].version < MaxVersion
    /\ conn' = [conn EXCEPT ![o] = Disconnected(conn[o])]
    /\ state' = ConsumeAll(o)
    /\ active' = [active EXCEPT ![o] = {}]
    /\ withdrawn' = withdrawn \cup IssuedTo(o)
    /\ UNCHANGED <<callback, refresh, exchanged>>

-----------------------------------------------------------------------------
(* Snapshots. *)

(* refresh_snapshots, first transaction: what the fetch is for. *)
BeginRefresh(r, o) ==
    /\ refresh[r].phase = "idle"
    /\ conn[o].status = "CONNECTED" /\ conn[o].token # None /\ ~conn[o].expired
    /\ refresh' = [refresh EXCEPT ![r] =
                     [phase |-> "fetching", owner |-> o, account |-> conn[o].account,
                      token |-> conn[o].token, generation |-> conn[o].generation,
                      version |-> conn[o].version, found |-> Versions(active[o])]]
    /\ UNCHANGED <<conn, state, callback, active, exchanged, withdrawn>>

(* fetch_full_read_snapshot, with the token read before: five calls, any   *)
(* of which may fail; another account's answer is refused.                 *)
Fetch(r) ==
    /\ refresh[r].phase = "fetching"
    /\ \/ refresh' = [refresh EXCEPT ![r].phase = "fetched"]
       \/ refresh' = [refresh EXCEPT ![r] = IdleRefresh]
    /\ UNCHANGED <<conn, state, callback, active, exchanged, withdrawn>>

StillTheSame(r) ==
    LET b == conn[refresh[r].owner]
    IN  /\ b.status = "CONNECTED"
        /\ b.version = refresh[r].version
        /\ b.generation = refresh[r].generation
        /\ b.account = refresh[r].account

(* Mutant of Taken: filed under the user instead of the broker account. *)
TakenForOwner(r) ==
    [account |-> refresh[r].owner, token |-> refresh[r].token,
     generation |-> refresh[r].generation, version |-> refresh[r].version, stale |-> FALSE]

Taken(r) ==
    [account |-> refresh[r].account, token |-> refresh[r].token,
     generation |-> refresh[r].generation, version |-> refresh[r].version, stale |-> FALSE]

(* refresh_snapshots, last transaction: only for the connection that the   *)
(* fetch was for; the new snapshot supersedes the others.                  *)
FinalizeRefresh(r) ==
    LET o == refresh[r].owner
    IN  /\ refresh[r].phase = "fetched"
        /\ refresh' = [refresh EXCEPT ![r] = IdleRefresh]
        /\ IF StillTheSame(r)
           THEN /\ conn[o].version < MaxVersion
                /\ active' = [active EXCEPT ![o] = {Taken(r)}]
                /\ conn' = [conn EXCEPT ![o].version = @ + 1]
           ELSE UNCHANGED <<conn, active>>
        /\ UNCHANGED <<state, callback, exchanged, withdrawn>>

-----------------------------------------------------------------------------
(* Time. *)

(* Five minutes. *)
StateExpires(t) ==
    /\ state[t].status = "open" /\ ~state[t].expired
    /\ state' = [state EXCEPT ![t].expired = TRUE]
    /\ UNCHANGED <<conn, callback, refresh, active, exchanged, withdrawn>>

(* 03:30 IST. *)
TokenExpires(o) ==
    /\ conn[o].token # None /\ ~conn[o].expired
    /\ conn' = [conn EXCEPT ![o].expired = TRUE]
    /\ UNCHANGED <<state, callback, refresh, active, exchanged, withdrawn>>

(* Fifteen minutes. *)
SnapshotsAge(o) ==
    /\ \E s \in active[o] : ~s.stale
    /\ active' = [active EXCEPT ![o] = {[s EXCEPT !.stale = TRUE] : s \in active[o]}]
    /\ UNCHANGED <<conn, state, callback, refresh, exchanged, withdrawn>>

Next ==
    \/ \E o \in Owners :
         \/ \E t \in Tokens : GenerateAuthorizationUrl(o, t)
         \/ Disconnect(o) \/ TokenExpires(o) \/ SnapshotsAge(o)
         \/ \E r \in Refreshes : BeginRefresh(r, o)
    \/ \E c \in Callbacks :
         \/ \E t \in Tokens : ClaimState(c, t)
         \/ Exchange(c) \/ BindConnection(c) \/ AbandonCallback(c)
    \/ \E r \in Refreshes : Fetch(r) \/ FinalizeRefresh(r)
    \/ \E t \in Tokens : StateExpires(t)

Spec == Init /\ [][Next]_vars

-----------------------------------------------------------------------------
(* evaluate_live_readiness: the gates that depend on the connection.  The  *)
(* others (static IP, market session, kill switch and open cases) can only *)
(* block.                                                                  *)

ConnectionGate(o) == conn[o].status = "CONNECTED" /\ conn[o].account # None
TokenGate(o) == conn[o].token # None /\ ~conn[o].expired
EvidenceGate(o) ==
    \E s \in active[o] :
        /\ s.account = conn[o].account
        /\ s.generation = conn[o].generation
        /\ ~s.stale

Ready(o) == ConnectionGate(o) /\ TokenGate(o) /\ EvidenceGate(o)

-----------------------------------------------------------------------------
(* Properties. *)

(* Every variable has its type. *)
TypeOK ==
    /\ conn \in [Owners -> Connection]
    /\ state \in [Tokens -> StateRecord]
    /\ callback \in [Callbacks -> Callback]
    /\ refresh \in [Refreshes -> Refresh]
    /\ active \in [Owners -> SUBSET Snapshot]
    /\ exchanged \in [Tokens -> Nat]
    /\ withdrawn \in SUBSET Tokens

(* A snapshot is ACTIVE only as long as its owner is connected by the very *)
(* authorization it was fetched with, whatever disconnects and             *)
(* reconnections happened while it was fetched (refresh_snapshots,         *)
(* handle_oauth_callback, disconnect), and there is only one.              *)
EvidenceIsCurrent ==
    \A o \in Owners :
        /\ \A s \in active[o] : /\ conn[o].status = "CONNECTED"
                                /\ s.token = conn[o].token
                                /\ s.account = conn[o].account
                                /\ s.generation = conn[o].generation
        /\ \A s, u \in active[o] : s = u

(* Two users are never ready for live trading on one broker account. *)
ReadyIsExclusive ==
    \A o, p \in Owners :
        Ready(o) /\ Ready(p) /\ conn[o].account = conn[p].account => o = p

(* An authorization is good for one token exchange, and connects nobody    *)
(* once a newer one was begun or its owner disconnected, even if that      *)
(* happened during the exchange (handle_oauth_callback).                   *)
AuthorizationIsSingleUse ==
    [][/\ \A t \in Tokens : exchanged'[t] <= 1
       /\ \A o \in Owners :
            conn'[o].token \notin {conn[o].token, None} => conn'[o].token \notin withdrawn]_vars
=============================================================================
