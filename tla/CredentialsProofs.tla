--------------------------- MODULE CredentialsProofs ---------------------------
(***************************************************************************)
(* Proofs about Credentials for every set of accounts, requests, sessions  *)
(* and handlers running at a time.                                         *)
(***************************************************************************)
EXTENDS Credentials, FiniteSetTheorems, TLAPS

Lock == User \cup Key \cup {Setup}
Saws == UNION {[S -> BOOLEAN] : S \in SUBSET Key}
CallType == [op : Op, at : Step, u : User \cup {NoUser}, k : Key \cup {Setup},
             held : SUBSET Lock, saw : Saws, on : BOOLEAN]
SessionType == [status : {"pending", "approved", "consumed", "expired"},
                by : User \cup {NoUser}]

Types ==
    /\ account \in [User -> {"absent", "active", "deleted"}]
    /\ founders \subseteq User /\ key \in [Key -> Row]
    /\ session \in [Session -> SessionType] /\ expired \in [Session -> BOOLEAN]
    /\ call \in [Call -> CallType] /\ ended \subseteq Key

\* What a handler has locked, and what it has read that its locks keep true.
\* The initialisation found no account:
FitsSetup(c) ==
    call[c].op = "initialize" =>
        Setup \in call[c].held /\ (call[c].at = "commit" => founders = {})

\* the subject of the new key is active, and the key is new or already its own:
FitsCreate(c) ==
    LET r == call[c] IN
    r.op \in {"create", "exchange"} =>
        /\ r.k \in IF r.op = "create" THEN Request ELSE Session
        /\ r.k \in r.held /\ r.u \in User
        /\ r.at \in {"existing", "commit"} => r.u \in r.held /\ account[r.u] = "active"
        /\ r.at = "commit" => IF r.on THEN key[r.k].st = "none"
                              ELSE key[r.k].st # "none" /\ key[r.k].owner = r.u

\* the session waits for this approval, or stands for this subject:
FitsSession(c) ==
    LET r == call[c] IN
    /\ r.op = "exchange" => session[r.k].status = "approved" /\ session[r.k].by = r.u
    /\ r.op = "approve" => /\ r.k \in Session /\ r.k \in r.held /\ r.u \in User
                           /\ session[r.k].status = "pending"
    /\ r.op = "get" => r.k \in Session

\* the account is there, and the keys that were read are all its keys:
FitsAccount(c) ==
    LET r == call[c] IN
    /\ r.op \in {"delete", "restore"} => r.u \in User /\ account[r.u] # "absent"
    /\ r.op = "delete" =>
         /\ r.u \in r.held
         /\ r.at = "commit" => \A k \in Key : key[k].owner = r.u => k \in DOMAIN r.saw

\* a key that was read was made, and a made key stays.
FitsKeys(c) ==
    LET r == call[c] IN
    /\ r.op = "update" => r.k \in Key /\ DOMAIN r.saw = {r.k}
    /\ \A k \in DOMAIN r.saw : key[k].st # "none"

Fits(c) == FitsSetup(c) /\ FitsCreate(c) /\ FitsSession(c) /\ FitsAccount(c) /\ FitsKeys(c)

Exclusion == \A c, d \in Call : c # d => call[c].held \cap call[d].held = {}

Founded == (\A u, v \in founders : u = v) /\ \A u \in founders : account[u] # "absent"

Sessions ==
    \A s \in Session : /\ session[s].status = "pending" => session[s].by = NoUser
                       /\ session[s].status = "approved" => session[s].by \in User

EndedIsRevoked == \A k \in ended : key[k].st = "revoked"

Lasting == Founded /\ Sessions /\ EndedIsRevoked /\ DeletedHasNoKey /\ KeyedIsOver

IInv == Types /\ Lasting /\ Exclusion /\ \A c \in Call : Fits(c)
-----------------------------------------------------------------------------
(* Records.                                                                 *)

LEMMA SawOK ==
    /\ \A s \in Saws : DOMAIN s \subseteq Key /\ \A k \in DOMAIN s : s[k] \in BOOLEAN
    /\ \A S \in SUBSET Key : \A s \in [S -> BOOLEAN] : s \in Saws
  BY DEF Saws

LEMMA RowOK ==
    ASSUME NEW r \in Row
    PROVE  /\ r.st \in {"none", "live", "revoked"} /\ r.enabled \in BOOLEAN
           /\ r.st = "none" => r = NoKey /\ r.owner = NoUser
           /\ r.st # "none" => r.owner \in User
           /\ r.owner = NoUser => r.st = "none"
  <1>1. CASE r = NoKey
    BY <1>1 DEF NoKey
  <1>2. CASE r \in [st : {"live", "revoked"}, enabled : BOOLEAN, owner : User]
    <2>1. r.st \in {"live", "revoked"} /\ r.enabled \in BOOLEAN /\ r.owner \in User
      BY <1>2
    <2> QED
      BY <2>1, CredentialsAssumption
  <1> QED
    BY <1>1, <1>2 DEF Row

LEMMA IdleOK == Idle \in CallType /\ Idle.op = "idle" /\ Idle.held = {} /\ DOMAIN Idle.saw = {}
  <1>1. [x \in {} |-> FALSE] \in [{} -> BOOLEAN]
    OBVIOUS
  <1>2. [x \in {} |-> FALSE] \in Saws
    BY <1>1, SawOK
  <1> QED
    BY <1>2 DEF Idle, CallType, Op, Step, Lock

\* A handler that is idle has nothing to keep.
LEMMA IdleFits == ASSUME NEW c \in Call, call'[c] = Idle PROVE Fits(c)'
  BY IdleOK DEF Fits, FitsSetup, FitsCreate, FitsSession, FitsAccount, FitsKeys
-----------------------------------------------------------------------------
(* A write leaves alone what the handler d has locked: no account that it    *)
(* holds is deleted, no key is made of it or under a request it holds.       *)

Respects(d) ==
    /\ \A u \in User : \/ account'[u] \in {account[u], "active"}
                       \/ /\ account'[u] = "deleted" /\ account[u] # "absent"
                          /\ u \notin call[d].held
    /\ founders' = founders \/ Setup \notin call[d].held
    /\ \A k \in Key : \/ key'[k] = key[k]
                      \/ /\ key[k].st # "none" /\ key'[k].st # "none"
                         /\ key'[k].owner = key[k].owner
                      \/ /\ key[k].st = "none" /\ k \notin call[d].held
                         /\ key'[k].st # "none" /\ key'[k].owner \notin call[d].held
    /\ \A s \in Session : session'[s] = session[s] \/ s \notin call[d].held

LEMMA FitsKept ==
    ASSUME IInv, NEW d \in Call, call'[d] = call[d], Respects(d)
    PROVE  Fits(d)'
  <1>1. Fits(d) /\ call[d] \in CallType
    BY DEF IInv, Types
  <1>2. DOMAIN call[d].saw \subseteq Key
    BY <1>1, SawOK DEF CallType
  <1>3. FitsSetup(d)'
    BY <1>1 DEF Fits, FitsSetup, Respects
  <1>4. FitsCreate(d)'
    <2> SUFFICES ASSUME call[d].op \in {"create", "exchange"} PROVE FitsCreate(d)'
      BY DEF FitsCreate
    <2>1. call[d].k \in Key /\ call[d].k \in call[d].held /\ call[d].u \in User
      BY <1>1 DEF Fits, FitsCreate, Key
    <2>2. call[d].at \in {"existing", "commit"} =>
            call[d].u \in call[d].held /\ account'[call[d].u] = "active"
      BY <1>1, <2>1 DEF Fits, FitsCreate, Respects
    <2>3. call[d].at = "commit" =>
            IF call[d].on THEN key'[call[d].k].st = "none"
            ELSE key'[call[d].k].st # "none" /\ key'[call[d].k].owner = call[d].u
      BY <1>1, <2>1 DEF Fits, FitsCreate, Respects
    <2> QED
      BY <1>1, <2>1, <2>2, <2>3 DEF Fits, FitsCreate
  <1>5. FitsSession(d)'
    BY <1>1 DEF Fits, FitsSession, FitsCreate, Respects
  <1>6. FitsAccount(d)'
    BY <1>1 DEF Fits, FitsAccount, Respects
  <1>7. FitsKeys(d)'
    BY <1>1, <1>2 DEF Fits, FitsKeys, Respects
  <1> QED
    BY <1>3, <1>4, <1>5, <1>6, <1>7 DEF Fits

\* A step of the handler c takes locks that nobody has.
LEMMA StepKeeps ==
    ASSUME IInv, NEW c \in Call, NEW r \in CallType, call' = [call EXCEPT ![c] = r],
           \A x \in r.held : x \in call[c].held \/ Free(c, x),
           Types', Lasting', Fits(c)', \A d \in Call \ {c} : Respects(d)
    PROVE  IInv'
  <1>0. call \in [Call -> CallType]
    BY DEF IInv, Types
  <1>1. call'[c] = r /\ \A d \in Call \ {c} : call'[d] = call[d]
    BY <1>0
  <1>2. \A d \in Call : Fits(d)'
    BY <1>1, FitsKept
  <1>3. Exclusion'
    <2>1. ASSUME NEW d \in Call \ {c} PROVE r.held \cap call[d].held = {}
      BY DEF IInv, Exclusion, Free
    <2> QED
      BY <1>1, <2>1 DEF IInv, Exclusion
  <1> QED
    BY <1>2, <1>3 DEF IInv

\* What is held by one is not held by another.
LEMMA HeldOK ==
    ASSUME IInv, NEW c \in Call, NEW x \in call[c].held, NEW d \in Call \ {c}
    PROVE  x \notin call[d].held
  BY DEF IInv, Exclusion
-----------------------------------------------------------------------------
(* Steps that only read.                                                    *)

Shared == <<account, founders, key, session, expired, ended>>

LEMMA ReadKeeps ==
    ASSUME IInv, NEW c \in Call, NEW r \in CallType, call' = [call EXCEPT ![c] = r],
           \A x \in r.held : x \in call[c].held \/ Free(c, x), UNCHANGED Shared, Fits(c)'
    PROVE  IInv'
  <1>1. \A d \in Call : Respects(d)
    BY DEF Respects, Shared, IInv, Types
  <1>2. call' \in [Call -> CallType]
    BY DEF IInv, Types
  <1>3. Types'
    BY <1>2 DEF IInv, Types, Shared
  <1>4. Lasting'
    BY DEF IInv, Lasting, Founded, Sessions, EndedIsRevoked, DeletedHasNoKey, KeyedIsOver,
       Shared
  <1> QED
    BY <1>1, <1>3, <1>4, StepKeeps

LEMMA GiveUpKeeps ==
    ASSUME IInv, NEW c \in Call, End(c), UNCHANGED Shared PROVE IInv'
  <1>1. call'[c] = Idle
    BY DEF End, IInv, Types
  <1> QED
    BY <1>1, IdleOK, IdleFits, ReadKeeps DEF End

\* A handler begins with what it asked for.
LEMMA BeginOK ==
    ASSUME IInv, NEW c \in Call, NEW op \in Op, NEW at \in Step, NEW u \in User \cup {NoUser},
           NEW k \in Key \cup {Setup}, NEW held \in SUBSET Lock,
           Begin(c, op, at, u, k, held), \A x \in held : Free(c, x), UNCHANGED Shared
    PROVE  /\ call'[c].op = op /\ call'[c].at = at /\ call'[c].u = u /\ call'[c].k = k
           /\ call'[c].held = held /\ DOMAIN call'[c].saw = {}
           /\ Fits(c)' => IInv'
  <1> DEFINE r == [Idle EXCEPT !.op = op, !.at = at, !.u = u, !.k = k, !.held = held]
  <1>1. r \in CallType
    BY IdleOK DEF CallType
  <1>2. /\ r.op = op /\ r.at = at /\ r.u = u /\ r.k = k /\ r.held = held /\ r.saw = Idle.saw
    BY IdleOK DEF CallType
  <1>3. call' = [call EXCEPT ![c] = r]
    BY DEF Begin
  <1> HIDE DEF r
  <1>4. call'[c] = r
    BY <1>3 DEF IInv, Types
  <1>5. Fits(c)' => IInv'
    BY <1>1, <1>2, <1>3, ReadKeeps
  <1> QED
    BY <1>2, <1>4, <1>5, IdleOK

LEMMA StartSetupKeeps == ASSUME IInv, NEW c \in Call, StartSetup(c) PROVE IInv'
  <1>1. UNCHANGED Shared /\ Free(c, Setup) /\ Begin(c, "initialize", "existing", NoUser, Setup, {Setup})
    BY DEF StartSetup, Shared
  <1>2. "initialize" \in Op /\ "existing" \in Step /\ {Setup} \in SUBSET Lock
    BY DEF Op, Step, Lock
  <1>3. /\ call'[c].op = "initialize" /\ call'[c].at = "existing" /\ call'[c].held = {Setup}
        /\ DOMAIN call'[c].saw = {}
        /\ Fits(c)' => IInv'
    BY <1>1, <1>2, BeginOK
  <1>4. Fits(c)'
    BY <1>3 DEF Fits, FitsSetup, FitsCreate, FitsSession, FitsAccount, FitsKeys
  <1> QED
    BY <1>3, <1>4

LEMMA StartCreateKeeps ==
    ASSUME IInv, NEW c \in Call, NEW k \in Request, NEW u \in User, StartCreate(c, k, u)
    PROVE  IInv'
  <1>1. UNCHANGED Shared /\ Free(c, k) /\ Begin(c, "create", "subject", u, k, {k})
    BY DEF StartCreate, Shared
  <1>2. "create" \in Op /\ "subject" \in Step /\ {k} \in SUBSET Lock /\ k \in Key
    BY DEF Op, Step, Lock, Key
  <1>3. /\ call'[c].op = "create" /\ call'[c].at = "subject" /\ call'[c].held = {k}
        /\ call'[c].k = k /\ call'[c].u = u /\ DOMAIN call'[c].saw = {}
        /\ Fits(c)' => IInv'
    BY <1>1, <1>2, BeginOK
  <1>4. Fits(c)'
    BY <1>3 DEF Fits, FitsSetup, FitsCreate, FitsSession, FitsAccount, FitsKeys
  <1> QED
    BY <1>3, <1>4

LEMMA StartExchangeKeeps ==
    ASSUME IInv, NEW c \in Call, NEW s \in Session, StartExchange(c, s) PROVE IInv'
  <1>1. /\ UNCHANGED Shared /\ Free(c, s) /\ session[s].status = "approved"
        /\ Begin(c, "exchange", "subject", session[s].by, s, {s})
    BY DEF StartExchange, Shared
  <1> SUFFICES ASSUME NEW u \in User, u = session[s].by PROVE IInv'
    BY <1>1 DEF IInv, Lasting, Sessions
  <1>2. "exchange" \in Op /\ "subject" \in Step /\ {s} \in SUBSET Lock /\ s \in Key
    BY DEF Op, Step, Lock, Key
  <1>3. /\ call'[c].op = "exchange" /\ call'[c].at = "subject" /\ call'[c].held = {s}
        /\ call'[c].k = s /\ call'[c].u = u /\ DOMAIN call'[c].saw = {}
        /\ Fits(c)' => IInv'
    BY <1>1, <1>2, BeginOK
  <1>4. session'[s].status = "approved" /\ session'[s].by = u
    BY <1>1 DEF Shared
  <1>5. Fits(c)'
    BY <1>3, <1>4 DEF Fits, FitsSetup, FitsCreate, FitsSession, FitsAccount, FitsKeys
  <1> QED
    BY <1>3, <1>5

LEMMA StartApproveKeeps ==
    ASSUME IInv, NEW c \in Call, NEW s \in Session, NEW u \in User, StartApprove(c, s, u)
    PROVE  IInv'
  <1>1. /\ UNCHANGED Shared /\ Free(c, s) /\ session'[s].status = "pending"
        /\ Begin(c, "approve", "commit", u, s, {s})
    BY DEF StartApprove, Shared
  <1>2. "approve" \in Op /\ "commit" \in Step /\ {s} \in SUBSET Lock /\ s \in Key
    BY DEF Op, Step, Lock, Key
  <1>3. /\ call'[c].op = "approve" /\ call'[c].at = "commit" /\ call'[c].held = {s}
        /\ call'[c].k = s /\ call'[c].u = u /\ DOMAIN call'[c].saw = {}
        /\ Fits(c)' => IInv'
    BY <1>1, <1>2, BeginOK
  <1>4. Fits(c)'
    BY <1>1, <1>3 DEF Fits, FitsSetup, FitsCreate, FitsSession, FitsAccount, FitsKeys
  <1> QED
    BY <1>3, <1>4

\* The GET holds nothing, and knows nothing of the session but its id.
LEMMA StartGetSessionKeeps ==
    ASSUME IInv, NEW c \in Call, NEW s \in Session, StartGetSession(c, s) PROVE IInv'
  <1>1. UNCHANGED Shared /\ Begin(c, "get", "commit", NoUser, s, {})
    BY DEF StartGetSession, Shared
  <1>2. "get" \in Op /\ "commit" \in Step /\ {} \in SUBSET Lock /\ s \in Key
    BY DEF Op, Step, Lock, Key
  <1>3. /\ call'[c].op = "get" /\ call'[c].at = "commit" /\ call'[c].held = {}
        /\ call'[c].k = s /\ DOMAIN call'[c].saw = {}
        /\ Fits(c)' => IInv'
    BY <1>1, <1>2, BeginOK
  <1>4. Fits(c)'
    BY <1>3 DEF Fits, FitsSetup, FitsCreate, FitsSession, FitsAccount, FitsKeys
  <1> QED
    BY <1>3, <1>4

LEMMA StartDeleteKeeps ==
    ASSUME IInv, NEW c \in Call, NEW u \in User, StartDelete(c, u) PROVE IInv'
  <1>1. /\ UNCHANGED Shared /\ Free(c, u) /\ account'[u] = "active"
        /\ Begin(c, "delete", "existing", u, Setup, {u})
    BY DEF StartDelete, Shared
  <1>2. "delete" \in Op /\ "existing" \in Step /\ {u} \in SUBSET Lock
    BY DEF Op, Step, Lock
  <1>3. /\ call'[c].op = "delete" /\ call'[c].at = "existing" /\ call'[c].held = {u}
        /\ call'[c].u = u /\ DOMAIN call'[c].saw = {}
        /\ Fits(c)' => IInv'
    BY <1>1, <1>2, BeginOK
  <1>4. Fits(c)'
    BY <1>1, <1>3 DEF Fits, FitsSetup, FitsCreate, FitsSession, FitsAccount, FitsKeys
  <1> QED
    BY <1>3, <1>4

LEMMA StartRestoreKeeps ==
    ASSUME IInv, NEW c \in Call, NEW u \in User, StartRestore(c, u) PROVE IInv'
  <1>1. /\ UNCHANGED Shared /\ account'[u] = "deleted"
        /\ Begin(c, "restore", "commit", u, Setup, {})
    BY DEF StartRestore, Shared
  <1>2. "restore" \in Op /\ "commit" \in Step /\ {} \in SUBSET Lock
    BY DEF Op, Step, Lock
  <1>3. /\ call'[c].op = "restore" /\ call'[c].at = "commit" /\ call'[c].held = {}
        /\ call'[c].u = u /\ DOMAIN call'[c].saw = {}
        /\ Fits(c)' => IInv'
    BY <1>1, <1>2, BeginOK
  <1>4. Fits(c)'
    BY <1>1, <1>3 DEF Fits, FitsSetup, FitsCreate, FitsSession, FitsAccount, FitsKeys
  <1> QED
    BY <1>3, <1>4

\* PUT and DELETE /apikey/{id} read one unrevoked key.
LEMMA StartKeyKeeps ==
    ASSUME IInv, NEW c \in Call, NEW k \in Key,
           StartRevoke(c, k) \/ \E on \in BOOLEAN : StartUpdate(c, k, on)
    PROVE  IInv'
  <1>0. key[k] \in Row /\ key[k].st = "live" /\ UNCHANGED Shared
    BY DEF IInv, Types, StartRevoke, StartUpdate, Shared
  <1> DEFINE saw == [x \in {k} |-> key[x].enabled]
  <1>1. saw \in Saws /\ DOMAIN saw = {k}
    <2>1. saw \in [{k} -> BOOLEAN]
      BY <1>0, RowOK
    <2> QED
      BY <2>1, SawOK
  <1>2. PICK op \in {"update", "revoke"} : \E on \in BOOLEAN :
          call' = [call EXCEPT ![c] = [[Idle EXCEPT !.op = op, !.at = "commit", !.k = k,
                                          !.saw = saw] EXCEPT !.on = on]]
    <2>1. ASSUME NEW on \in BOOLEAN, StartUpdate(c, k, on)
          PROVE  call' = [call EXCEPT ![c] = [[Idle EXCEPT !.op = "update", !.at = "commit",
                                                 !.k = k, !.saw = saw] EXCEPT !.on = on]]
      BY <2>1, IdleOK DEF StartUpdate, CallType
    <2>2. ASSUME StartRevoke(c, k)
          PROVE  call' = [call EXCEPT ![c] = [[Idle EXCEPT !.op = "revoke", !.at = "commit",
                                                 !.k = k, !.saw = saw] EXCEPT !.on = FALSE]]
      BY <2>2, IdleOK DEF StartRevoke, CallType, Idle
    <2> QED
      BY <2>1, <2>2
  <1> HIDE DEF saw
  <1> DEFINE r == [Idle EXCEPT !.op = op, !.at = "commit", !.k = k, !.saw = saw]
  <1>3. PICK on \in BOOLEAN : call' = [call EXCEPT ![c] = [r EXCEPT !.on = on]]
    BY <1>2
  <1> DEFINE q == [r EXCEPT !.on = on]
  <1>4. r \in CallType /\ r.op = op /\ r.k = k /\ r.held = {} /\ r.saw = saw
    BY <1>1, <1>2, IdleOK DEF CallType, Op, Step
  <1> HIDE DEF r
  <1>5. q \in CallType /\ q.op = op /\ q.k = k /\ q.held = {} /\ q.saw = saw
    BY <1>4 DEF CallType
  <1>6. call' = [call EXCEPT ![c] = q]
    BY <1>3
  <1> HIDE DEF q
  <1>7. call'[c] = q /\ key'[k].st # "none"
    BY <1>0, <1>6 DEF IInv, Types, Shared
  <1>8. Fits(c)'
    BY <1>1, <1>2, <1>5, <1>7 DEF Fits, FitsSetup, FitsCreate, FitsSession, FitsAccount, FitsKeys
  <1> QED
    BY <1>0, <1>5, <1>6, <1>8, ReadKeeps

\* A handler goes on: what it is and what it holds besides h stay.
LEMMA GoOnOK ==
    ASSUME IInv, NEW c \in Call, NEW r \in CallType, call' = [call EXCEPT ![c] = r]
    PROVE  call'[c] = r /\ call[c] \in CallType /\ Fits(c)
  BY DEF IInv, Types

LEMMA FirstRunKeeps == ASSUME IInv, NEW c \in Call, FirstRun(c) PROVE IInv'
  <1>0. UNCHANGED Shared /\ call[c].op = "initialize" /\ call[c] \in CallType /\ Fits(c)
    BY DEF FirstRun, Shared, IInv, Types
  <1>1. CASE (\A u \in User : account[u] = "absent") /\ call' = [call EXCEPT ![c].at = "commit"]
    <2> DEFINE r == [call[c] EXCEPT !.at = "commit"]
    <2>1. /\ r \in CallType /\ r.op = "initialize" /\ r.held = call[c].held /\ r.saw = call[c].saw
      BY <1>0 DEF CallType, Step
    <2>2. call' = [call EXCEPT ![c] = r]
      BY <1>1
    <2> HIDE DEF r
    <2>3. call'[c] = r
      BY <2>1, <2>2, GoOnOK
    <2>4. founders' = {}
      BY <1>0, <1>1 DEF IInv, Types, Lasting, Founded, Shared
    <2>5. \A k \in DOMAIN r.saw : key'[k].st # "none"
      BY <1>0, <2>1 DEF Fits, FitsKeys, Shared
    <2>6. Fits(c)'
      BY <1>0, <2>1, <2>3, <2>4, <2>5
         DEF Fits, FitsSetup, FitsCreate, FitsSession, FitsAccount, FitsKeys
    <2> QED
      BY <1>0, <2>1, <2>2, <2>6, ReadKeeps
  <1>2. CASE End(c)
    BY <1>0, <1>2, GiveUpKeeps
  <1> QED
    BY <1>1, <1>2 DEF FirstRun

\* SELECT users ... FOR UPDATE holds the row of an active account.
LEMMA LockSubjectKeeps == ASSUME IInv, NEW c \in Call, LockSubject(c) PROVE IInv'
  <1>0. /\ UNCHANGED Shared /\ call[c].op \in {"create", "exchange"} /\ call[c] \in CallType
        /\ Fits(c) /\ Free(c, call[c].u)
    BY DEF LockSubject, Shared, IInv, Types
  <1>1. CASE /\ account[call[c].u] = "active"
             /\ call' = [call EXCEPT ![c].at = "existing", ![c].held = @ \cup {call[c].u}]
    <2> DEFINE r == [call[c] EXCEPT !.at = "existing", !.held = call[c].held \cup {call[c].u}]
    <2>1. call[c].u \in User
      BY <1>0 DEF Fits, FitsCreate
    <2>2. /\ r \in CallType /\ r.op = call[c].op /\ r.held = call[c].held \cup {call[c].u}
          /\ r.saw = call[c].saw /\ r.u = call[c].u /\ r.k = call[c].k /\ r.at = "existing"
      BY <1>0, <2>1 DEF CallType, Step, Lock
    <2>3. call' = [call EXCEPT ![c] = r]
      BY <1>1
    <2> HIDE DEF r
    <2>4. call'[c] = r
      BY <2>2, <2>3, GoOnOK
    <2>5. account'[r.u] = "active" /\ session' = session /\ key' = key
      BY <1>0, <1>1, <2>2 DEF Shared
    <2>6. Fits(c)'
      BY <1>0, <2>2, <2>4, <2>5
         DEF Fits, FitsSetup, FitsCreate, FitsSession, FitsAccount, FitsKeys
    <2>7. \A x \in r.held : x \in call[c].held \/ Free(c, x)
      BY <1>0, <2>2
    <2> QED
      BY <1>0, <2>2, <2>3, <2>6, <2>7, ReadKeeps
  <1>2. CASE End(c)
    BY <1>0, <1>2, GiveUpKeeps
  <1> QED
    BY <1>0, <1>1, <1>2 DEF LockSubject

\* The key under a request id is read while the id is held.
LEMMA ReadExistingKeeps == ASSUME IInv, NEW c \in Call, ReadExisting(c) PROVE IInv'
  <1>0. /\ UNCHANGED Shared /\ call[c].op \in {"create", "exchange"} /\ call[c] \in CallType
        /\ call[c].at = "existing" /\ Fits(c)
    BY DEF ReadExisting, Shared, IInv, Types
  <1>1. CASE /\ MayCreate(call[c].k, call[c].u)
             /\ call' = [call EXCEPT ![c].at = "commit", ![c].on = (key[call[c].k].st # "live")]
    <2> DEFINE on == key[call[c].k].st # "live"
               r == [call[c] EXCEPT !.at = "commit", !.on = on]
    <2>1. on \in BOOLEAN
      OBVIOUS
    <2>2. IF on THEN key[call[c].k].st = "none"
          ELSE key[call[c].k].st # "none" /\ key[call[c].k].owner = call[c].u
      BY <1>1 DEF MayCreate
    <2>3. call' = [call EXCEPT ![c] = r]
      BY <1>1
    <2> HIDE DEF on
    <2>4. /\ r \in CallType /\ r.op = call[c].op /\ r.held = call[c].held /\ r.on = on
          /\ r.saw = call[c].saw /\ r.u = call[c].u /\ r.k = call[c].k /\ r.at = "commit"
      BY <1>0, <2>1 DEF CallType, Step
    <2> HIDE DEF r
    <2>5. call'[c] = r
      BY <2>3, <2>4, GoOnOK
    <2>6. account' = account /\ session' = session /\ key' = key
      BY <1>0 DEF Shared
    <2>7. FitsCreate(c)'
      BY <1>0, <2>2, <2>4, <2>5, <2>6 DEF Fits, FitsCreate
    <2>8. Fits(c)'
      BY <1>0, <2>4, <2>5, <2>6, <2>7 DEF Fits, FitsSetup, FitsSession, FitsAccount, FitsKeys
    <2> QED
      BY <1>0, <2>3, <2>4, <2>8, ReadKeeps
  <1>2. CASE End(c)
    BY <1>0, <1>2, GiveUpKeeps
  <1> QED
    BY <1>0, <1>1, <1>2 DEF ReadExisting

\* The keys of an account are read while its row is held.
LEMMA ReadKeysKeeps == ASSUME IInv, NEW c \in Call, ReadKeys(c) PROVE IInv'
  <1>0. /\ UNCHANGED Shared /\ call[c].op = "delete" /\ call[c] \in CallType /\ Fits(c)
        /\ key \in [Key -> Row] /\ call[c].u \in User
    BY DEF ReadKeys, Shared, IInv, Types, Fits, FitsAccount
  <1> DEFINE S == {x \in Key : key[x].owner = call[c].u}
             saw == [k \in S |-> key[k].enabled]
             r == [call[c] EXCEPT !.at = "commit", !.saw = saw]
  <1>1. saw \in Saws /\ DOMAIN saw = S
    <2>1. \A k \in S : key[k].enabled \in BOOLEAN
      BY <1>0, RowOK
    <2>2. saw \in [S -> BOOLEAN] /\ S \in SUBSET Key
      BY <2>1
    <2> QED
      BY <2>2, SawOK
  <1>2. \A k \in S : key[k].st # "none"
    <2>1. \A k \in S : key[k] \in Row /\ key[k].owner # NoUser
      BY <1>0, CredentialsAssumption
    <2> QED
      BY <2>1, RowOK
  <1>3. call' = [call EXCEPT ![c] = r]
    BY DEF ReadKeys
  <1>9. \A k \in Key : key[k].owner = call[c].u => k \in S
    OBVIOUS
  <1> HIDE DEF saw, S
  <1>4. /\ r \in CallType /\ r.op = "delete" /\ r.held = call[c].held
        /\ r.saw = saw /\ r.u = call[c].u
    BY <1>0, <1>1 DEF CallType, Step
  <1> HIDE DEF r
  <1>5. call'[c] = r
    BY <1>3, <1>4, GoOnOK
  <1>6. account' = account /\ key' = key
    BY <1>0 DEF Shared
  <1>7. FitsAccount(c)' /\ FitsKeys(c)'
    BY <1>0, <1>1, <1>2, <1>4, <1>5, <1>6, <1>9 DEF Fits, FitsAccount, FitsKeys
  <1>8. Fits(c)'
    BY <1>4, <1>5, <1>7 DEF Fits, FitsSetup, FitsSession, FitsCreate
  <1> QED
    BY <1>0, <1>3, <1>4, <1>8, ReadKeeps
-----------------------------------------------------------------------------
(* Commits.                                                                 *)

LEMMA WriteKeeps ==
    ASSUME IInv, NEW c \in Call, End(c), Types', Lasting', \A d \in Call \ {c} : Respects(d)
    PROVE  IInv'
  <1>1. call'[c] = Idle
    BY DEF End, IInv, Types
  <1> QED
    BY <1>1, IdleOK, IdleFits, StepKeeps DEF End

\* A write outside of the handlers in progress.
LEMMA OutsideKeeps ==
    ASSUME IInv, call' = call, Types', Lasting', \A d \in Call : Respects(d)
    PROVE  IInv'
  <1>1. \A d \in Call : Fits(d)'
    BY FitsKept
  <1>2. Exclusion'
    BY DEF IInv, Exclusion
  <1> QED
    BY <1>1, <1>2 DEF IInv

LEMMA EndTypes ==
    ASSUME IInv, NEW c \in Call, End(c) PROVE call' \in [Call -> CallType]
  BY IdleOK DEF End, IInv, Types

\* The initialisation makes the first account while it holds the advisory lock.
LEMMA FoundKeeps == ASSUME IInv, NEW c \in Call, Found(c) PROVE IInv'
  <1>0. /\ End(c) /\ UNCHANGED <<key, session, expired, ended>>
        /\ Setup \in call[c].held /\ founders = {}
        /\ account \in [User -> {"absent", "active", "deleted"}]
    BY DEF Found, IInv, Fits, FitsSetup, Types
  <1>1. PICK u \in User :
          IF account[u] = "absent"
          THEN account' = [account EXCEPT ![u] = "active"] /\ founders' = founders \cup {u}
          ELSE UNCHANGED <<account, founders>>
    BY DEF Found
  <1>2. /\ account' \in [User -> {"absent", "active", "deleted"}]
        /\ \A x \in User : account'[x] \in {account[x], "active"}
        /\ founders' \in {{}, {u}} /\ (u \in founders' => account'[u] = "active")
    BY <1>0, <1>1
  <1>3. Types'
    BY <1>0, <1>2, EndTypes DEF IInv, Types
  <1>4. Founded'
    BY <1>2 DEF Founded
  <1>5. DeletedHasNoKey'
    <2>1. ASSUME NEW k \in Key, key[k].st = "live" PROVE account'[key[k].owner] # "deleted"
      <3>1. key[k].owner \in User
        BY <2>1, RowOK DEF IInv, Types
      <3> QED
        BY <1>2, <2>1, <3>1 DEF IInv, Lasting, DeletedHasNoKey
    <2> QED
      BY <1>0, <2>1 DEF DeletedHasNoKey
  <1>6. Lasting'
    BY <1>0, <1>4, <1>5 DEF IInv, Lasting, Sessions, EndedIsRevoked, KeyedIsOver
  <1>7. ASSUME NEW d \in Call \ {c} PROVE Respects(d)
    <2>1. Setup \notin call[d].held
      BY <1>0, HeldOK
    <2> QED
      BY <1>0, <1>2, <2>1 DEF Respects
  <1> QED
    BY <1>0, <1>3, <1>6, <1>7, WriteKeeps

\* An account becomes active, by an administrator, an OIDC login or its restore.
LEMMA ActivatedOK ==
    ASSUME IInv, NEW u \in User, account' = [account EXCEPT ![u] = "active"],
           UNCHANGED <<founders, key, session, expired, ended>>, call' \in [Call -> CallType]
    PROVE  Types' /\ Lasting' /\ \A d \in Call : Respects(d)
  <1>1. /\ account' \in [User -> {"absent", "active", "deleted"}]
        /\ \A x \in User : account'[x] \in {account[x], "active"}
    BY DEF IInv, Types
  <1>2. Types'
    BY <1>1 DEF IInv, Types
  <1>3. DeletedHasNoKey'
    <2>1. ASSUME NEW k \in Key, key[k].st = "live" PROVE account'[key[k].owner] # "deleted"
      <3>1. key[k].owner \in User
        BY <2>1, RowOK DEF IInv, Types
      <3> QED
        BY <1>1, <2>1, <3>1 DEF IInv, Lasting, DeletedHasNoKey
    <2> QED
      BY <2>1 DEF DeletedHasNoKey
  <1>4. Founded'
    BY <1>1 DEF IInv, Types, Lasting, Founded
  <1>5. Lasting'
    BY <1>3, <1>4 DEF IInv, Lasting, Sessions, EndedIsRevoked, KeyedIsOver
  <1>6. \A d \in Call : Respects(d)
    BY <1>1 DEF Respects
  <1> QED
    BY <1>2, <1>5, <1>6

LEMMA AddUserKeeps == ASSUME IInv, NEW u \in User, AddUser(u) PROVE IInv'
  BY ActivatedOK, OutsideKeeps DEF AddUser, IInv, Types

LEMMA RestoreKeeps == ASSUME IInv, NEW c \in Call, Restore(c) PROVE IInv'
  <1>1. call[c].u \in User /\ End(c)
    BY DEF Restore, IInv, Fits, FitsAccount
  <1> QED
    BY <1>1, EndTypes, ActivatedOK, WriteKeeps DEF Restore
-----------------------------------------------------------------------------
(* Commits that change keys and sessions.                                   *)

LEMMA RowEditOK ==
    ASSUME NEW r \in Row, r.st # "none", NEW b \in BOOLEAN
    PROVE  /\ [r EXCEPT !.enabled = b] \in Row /\ [r EXCEPT !.enabled = b].st = r.st
           /\ [r EXCEPT !.enabled = b].owner = r.owner
           /\ Revoked(r, b) \in Row /\ Revoked(r, b).st = "revoked"
           /\ Revoked(r, b).owner = r.owner
  <1>1. r \in [st : {"live", "revoked"}, enabled : BOOLEAN, owner : User]
    BY DEF Row, NoKey
  <1>2. (r.enabled /\ ~b) \in BOOLEAN
    BY <1>1
  <1>3. Revoked(r, b) = [r EXCEPT !.st = "revoked", !.enabled = r.enabled /\ ~b]
    BY DEF Revoked
  <1> QED
    BY <1>1, <1>2, <1>3 DEF Row

\* Keys keep their owner and are at most revoked; the keys of an account that is
\* deleted are.
LEMMA KeyEditOK ==
    ASSUME IInv, key' \in [Key -> Row],
           \A k \in Key : /\ key'[k].owner = key[k].owner
                          /\ key'[k].st \in {key[k].st, "revoked"}
                          /\ key'[k].st = "none" <=> key[k].st = "none"
                          /\ key[k].st = "none" => key'[k] = key[k],
           ended \subseteq ended', ended' \subseteq Key,
           \A k \in ended' : k \in ended \/ key'[k].st = "revoked",
           account' \in [User -> {"absent", "active", "deleted"}],
           \A u \in User :
               \/ account'[u] = account[u]
               \/ /\ account'[u] = "deleted" /\ account[u] # "absent"
                  /\ \A k \in Key : key'[k].owner = u => key'[k].st # "live",
           UNCHANGED <<founders, session, expired>>, call' \in [Call -> CallType]
    PROVE  /\ Types' /\ Lasting'
           /\ \A d \in Call : (\A u \in User : account'[u] = account[u] \/ u \notin call[d].held)
                 => Respects(d)
  <1>0. /\ key \in [Key -> Row] /\ \A k \in Key : key[k].st = "live" => key[k].owner \in User
        /\ Founded /\ Sessions /\ EndedIsRevoked /\ DeletedHasNoKey /\ KeyedIsOver
        /\ founders \subseteq User /\ ended \subseteq Key
    BY RowOK DEF IInv, Types, Lasting
  <1>1. Types'
    BY DEF IInv, Types
  <1>2. DeletedHasNoKey'
    BY <1>0 DEF DeletedHasNoKey
  <1>3. EndedIsRevoked'
    BY <1>0 DEF EndedIsRevoked
  <1>4. KeyedIsOver'
    BY <1>0 DEF KeyedIsOver, Key
  <1>5. Founded'
    BY <1>0 DEF Founded
  <1>6. Lasting'
    BY <1>0, <1>2, <1>3, <1>4, <1>5 DEF Lasting, Sessions
  <1>7. ASSUME NEW d \in Call, \A u \in User : account'[u] = account[u] \/ u \notin call[d].held
        PROVE  Respects(d)
    BY <1>7 DEF Respects
  <1> QED
    BY <1>1, <1>6, <1>7

LEMMA UpdateKeeps == ASSUME IInv, NEW c \in Call, Update(c) PROVE IInv'
  <1>0. /\ End(c) /\ UNCHANGED <<account, founders, session, expired, ended>>
        /\ Fits(c) /\ call[c] \in CallType /\ call[c].op = "update" /\ key \in [Key -> Row]
        /\ ended \subseteq Key /\ account \in [User -> {"absent", "active", "deleted"}]
    BY DEF Update, IInv, Types
  <1>1. call[c].k \in Key /\ key[call[c].k].st # "none" /\ call[c].on \in BOOLEAN
    BY <1>0 DEF Fits, FitsKeys, CallType
  <1> DEFINE k == call[c].k
             v == [key[k] EXCEPT !.enabled = call[c].on]
  <1>2. v \in Row /\ v.st = key[k].st /\ v.owner = key[k].owner
    BY <1>0, <1>1, RowEditOK
  <1>3. key' = key \/ key' = [key EXCEPT ![k] = v]
    BY DEF Update
  <1> HIDE DEF v, k
  <1>4. key' \in [Key -> Row]
    BY <1>0, <1>2, <1>3
  <1>5. \A x \in Key : /\ key'[x].owner = key[x].owner
                       /\ key'[x].st \in {key[x].st, "revoked"}
                       /\ key'[x].st = "none" <=> key[x].st = "none"
                       /\ key[x].st = "none" => key'[x] = key[x]
    BY <1>0, <1>1, <1>2, <1>3 DEF k
  <1> QED
    BY <1>0, <1>4, <1>5, EndTypes, KeyEditOK, WriteKeeps

\* The keys that were read are revoked, whatever became of them since.
LEMMA RevokeAllOK ==
    ASSUME IInv, NEW c \in Call, RevokeAll(c)
    PROVE  /\ key' \in [Key -> Row] /\ ended \subseteq ended' /\ ended' \subseteq Key
           /\ \A k \in Key : /\ key'[k].owner = key[k].owner
                             /\ key'[k].st \in {key[k].st, "revoked"}
                             /\ key'[k].st = "none" <=> key[k].st = "none"
                             /\ key[k].st = "none" => key'[k] = key[k]
           /\ \A k \in DOMAIN call[c].saw : key'[k].st = "revoked"
           /\ ended' = ended \cup DOMAIN call[c].saw
  <1>0. /\ Fits(c) /\ call[c] \in CallType /\ key \in [Key -> Row] /\ ended \subseteq Key
    BY DEF IInv, Types
  <1>1. DOMAIN call[c].saw \subseteq Key /\ \A k \in DOMAIN call[c].saw : call[c].saw[k] \in BOOLEAN
    BY <1>0, SawOK DEF CallType
  <1>2. ASSUME NEW k \in Key, k \in DOMAIN call[c].saw
        PROVE  /\ key'[k] \in Row /\ key'[k].st = "revoked" /\ key'[k].owner = key[k].owner
               /\ key[k].st # "none"
    <2>1. key[k].st # "none"
      BY <1>0, <1>2 DEF Fits, FitsKeys
    <2>2. key'[k] = Revoked(key[k], call[c].saw[k])
      BY <1>2 DEF RevokeAll
    <2>3. key[k] \in Row /\ call[c].saw[k] \in BOOLEAN
      BY <1>0, <1>1, <1>2
    <2>4. PICK r \in Row, b \in BOOLEAN : r = key[k] /\ b = call[c].saw[k]
      BY <2>3
    <2>5. Revoked(r, b) \in Row /\ Revoked(r, b).st = "revoked" /\ Revoked(r, b).owner = r.owner
      BY <2>1, <2>4, RowEditOK
    <2>6. key'[k] = Revoked(r, b)
      BY <2>2, <2>4
    <2> QED
      BY <2>1, <2>4, <2>5, <2>6
  <1>3. ASSUME NEW k \in Key, k \notin DOMAIN call[c].saw PROVE key'[k] = key[k]
    BY <1>3 DEF RevokeAll
  <1>4. \A k \in Key : key'[k] \in Row
    BY <1>0, <1>2, <1>3
  <1>5. key' \in [Key -> Row]
    BY <1>4 DEF RevokeAll
  <1>6. \A k \in Key : /\ key'[k].owner = key[k].owner
                       /\ key'[k].st \in {key[k].st, "revoked"}
                       /\ key'[k].st = "none" <=> key[k].st = "none"
                       /\ key[k].st = "none" => key'[k] = key[k]
    BY <1>2, <1>3
  <1> QED
    BY <1>0, <1>1, <1>2, <1>5, <1>6 DEF RevokeAll

LEMMA RevokeKeeps == ASSUME IInv, NEW c \in Call, Revoke(c) PROVE IInv'
  <1>1. /\ RevokeAll(c) /\ End(c) /\ UNCHANGED <<account, founders, session, expired>>
        /\ account \in [User -> {"absent", "active", "deleted"}]
    BY DEF Revoke, IInv, Types
  <1> QED
    BY <1>1, RevokeAllOK, EndTypes, KeyEditOK, WriteKeeps

\* Nobody makes a key of the account that is being deleted: its row is held.
LEMMA DeleteUserKeeps == ASSUME IInv, NEW c \in Call, DeleteUser(c) PROVE IInv'
  <1> DEFINE u == call[c].u
  <1>0. /\ RevokeAll(c) /\ End(c) /\ UNCHANGED <<founders, session, expired>>
        /\ account \in [User -> {"absent", "active", "deleted"}]
        /\ account' = [account EXCEPT ![u] = "deleted"]
        /\ u \in User /\ u \in call[c].held /\ account[u] # "absent"
        /\ \A k \in Key : key[k].owner = u => k \in DOMAIN call[c].saw
    BY DEF DeleteUser, IInv, Types, Fits, FitsAccount
  <1> HIDE DEF u
  <1>1. /\ account' \in [User -> {"absent", "active", "deleted"}] /\ account'[u] = "deleted"
        /\ \A x \in User : x # u => account'[x] = account[x]
    BY <1>0
  <1>2. \A k \in Key : key'[k].owner = u => key'[k].st # "live"
    BY <1>0, RevokeAllOK
  <1>3. \A d \in Call \ {c} : u \notin call[d].held
    BY <1>0, HeldOK
  <1>4. /\ Types' /\ Lasting'
        /\ \A d \in Call : (\A x \in User : account'[x] = account[x] \/ x \notin call[d].held)
              => Respects(d)
    BY <1>0, <1>1, <1>2, RevokeAllOK, EndTypes, KeyEditOK
  <1>5. \A d \in Call \ {c} : Respects(d)
    BY <1>1, <1>3, <1>4
  <1> QED
    BY <1>0, <1>4, <1>5, WriteKeeps

\* A session changes while nobody else holds it: it is written off, or approved
\* before it has a key.
LEMMA SessionEditOK ==
    ASSUME IInv, NEW s \in Session, NEW v \in SessionType,
           session' = [session EXCEPT ![s] = v],
           UNCHANGED <<account, founders, key, expired, ended>>,
           \/ v.status = "expired" /\ v.by = session[s].by
           \/ v.status = "approved" /\ v.by \in User /\ key[s].st = "none",
           call' \in [Call -> CallType]
    PROVE  /\ Types' /\ Lasting' /\ session'[s] = v
           /\ \A d \in Call : s \notin call[d].held => Respects(d)
  <1>0. /\ key \in [Key -> Row] /\ session \in [Session -> SessionType]
        /\ Founded /\ Sessions /\ EndedIsRevoked /\ DeletedHasNoKey /\ KeyedIsOver
        /\ ended \subseteq Key /\ s \in Key
    BY DEF IInv, Types, Lasting, Key
  <1>1. /\ session' \in [Session -> SessionType] /\ session'[s] = v
        /\ \A t \in Session : t # s => session'[t] = session[t]
    BY <1>0
  <1>2. \A k \in Key : key'[k] = key[k]
    OBVIOUS
  <1>3. Types'
    BY <1>1 DEF IInv, Types
  <1>4. Sessions' /\ KeyedIsOver'
    BY <1>0, <1>1, <1>2 DEF Sessions, KeyedIsOver, Key
  <1>5. Founded' /\ EndedIsRevoked' /\ DeletedHasNoKey'
    BY <1>0, <1>2 DEF Founded, EndedIsRevoked, DeletedHasNoKey
  <1>6. ASSUME NEW d \in Call, s \notin call[d].held PROVE Respects(d)
    BY <1>1, <1>2, <1>6 DEF Respects
  <1> QED
    BY <1>1, <1>3, <1>4, <1>5, <1>6 DEF Lasting

LEMMA WrittenOffOK ==
    ASSUME NEW r \in SessionType
    PROVE  /\ [r EXCEPT !.status = "expired"] \in SessionType
           /\ [r EXCEPT !.status = "expired"].status = "expired"
           /\ [r EXCEPT !.status = "expired"].by = r.by
  BY DEF SessionType

LEMMA WriteOffKeeps == ASSUME IInv, NEW c \in Call, NEW s \in Session, WriteOff(c, s) PROVE IInv'
  <1> DEFINE v == [session[s] EXCEPT !.status = "expired"]
  <1>0. /\ UNCHANGED <<account, founders, key, expired, call, ended>>
        /\ session' = [session EXCEPT ![s] = v] /\ Free(c, s) /\ call[c] = Idle
        /\ session[s] \in SessionType /\ call \in [Call -> CallType]
    BY DEF WriteOff, IInv, Types
  <1>1. v \in SessionType /\ v.status = "expired" /\ v.by = session[s].by
    BY <1>0, WrittenOffOK
  <1> HIDE DEF v
  <1>2. \A d \in Call : s \notin call[d].held
    BY <1>0, IdleOK DEF Free
  <1> QED
    BY <1>0, <1>1, <1>2, SessionEditOK, OutsideKeeps

\* Whatever the session has become since the GET read it, it is not held now.
LEMMA GetSessionKeeps == ASSUME IInv, NEW c \in Call, GetSession(c) PROVE IInv'
  <1> DEFINE s == call[c].k
             v == [session[s] EXCEPT !.status = "expired"]
  <1>0. /\ UNCHANGED <<account, founders, key, expired, ended>> /\ End(c)
        /\ s \in Session /\ session[s] \in SessionType
    BY DEF GetSession, IInv, Types, Fits, FitsSession
  <1>1. CASE UNCHANGED session
    BY <1>0, <1>1, GiveUpKeeps DEF Shared
  <1>2. CASE Free(c, s) /\ session' = [session EXCEPT ![s] = v]
    <2>1. v \in SessionType /\ v.status = "expired" /\ v.by = session[s].by
      BY <1>0, WrittenOffOK
    <2> HIDE DEF v, s
    <2>2. \A d \in Call \ {c} : s \notin call[d].held
      BY <1>2 DEF Free
    <2> QED
      BY <1>0, <1>2, <2>1, <2>2, SessionEditOK, EndTypes, WriteKeeps
  <1> QED
    BY <1>1, <1>2 DEF GetSession

LEMMA ApproveKeeps == ASSUME IInv, NEW c \in Call, Approve(c) PROVE IInv'
  <1> DEFINE v == [status |-> "approved", by |-> call[c].u]
             s == call[c].k
  <1>0. /\ UNCHANGED <<account, founders, key, expired, ended>> /\ End(c)
        /\ session' = [session EXCEPT ![s] = v] /\ key \in [Key -> Row]
        /\ s \in Session /\ s \in call[c].held /\ call[c].u \in User
        /\ session[s].status = "pending"
    BY DEF Approve, IInv, Types, Fits, FitsSession
  <1>1. v \in SessionType /\ v.status = "approved" /\ v.by \in User
    BY <1>0 DEF SessionType
  <1> HIDE DEF v, s
  <1>2. key[s].st = "none"
    BY <1>0 DEF IInv, Lasting, KeyedIsOver
  <1>3. \A d \in Call \ {c} : s \notin call[d].held
    BY <1>0, HeldOK
  <1> QED
    BY <1>0, <1>1, <1>2, <1>3, SessionEditOK, EndTypes, WriteKeeps

LEMMA TickKeeps == ASSUME IInv, NEW s \in Session, Tick(s) PROVE IInv'
  <1>1. UNCHANGED <<account, founders, key, session, call, ended>>
    BY DEF Tick
  <1>2. expired' \in [Session -> BOOLEAN]
    BY DEF Tick, IInv, Types
  <1>3. Types' /\ Lasting'
    BY <1>1, <1>2 DEF IInv, Types, Lasting, Founded, Sessions, EndedIsRevoked, DeletedHasNoKey,
       KeyedIsOver
  <1>4. \A d \in Call : Respects(d)
    BY <1>1 DEF IInv, Types, Respects
  <1> QED
    BY <1>1, <1>3, <1>4, OutsideKeeps

\* The key is made for an active account and under an id that this handler holds.
LEMMA CommitKeyKeeps == ASSUME IInv, NEW c \in Call, CommitKey(c) PROVE IInv'
  <1> DEFINE k == call[c].k
             u == call[c].u
             v == [st |-> "live", enabled |-> TRUE, owner |-> u]
  <1>0. /\ UNCHANGED <<account, founders, expired, ended>> /\ End(c)
        /\ key' = IF call[c].on THEN [key EXCEPT ![k] = v] ELSE key
        /\ session' = IF call[c].op = "exchange"
                      THEN [session EXCEPT ![k] = [session[k] EXCEPT !.status = "consumed"]]
                      ELSE session
        /\ call[c].op \in {"create", "exchange"} /\ call[c].at = "commit"
    BY DEF CommitKey
  <1>1. /\ k \in IF call[c].op = "create" THEN Request ELSE Session
        /\ k \in call[c].held /\ u \in User /\ u \in call[c].held /\ account[u] = "active"
        /\ IF call[c].on THEN key[k].st = "none" ELSE key[k].st # "none" /\ key[k].owner = u
        /\ call[c].op = "exchange" => session[k].status = "approved" /\ session[k].by = u
    BY <1>0 DEF IInv, Fits, FitsCreate, FitsSession
  <1>2. v \in Row /\ v.st = "live" /\ v.owner = u
    BY <1>1 DEF Row
  <1>3. k \in Key /\ (call[c].op = "create" => k \notin Session)
    BY <1>0, <1>1, CredentialsAssumption DEF Key
  <1> HIDE DEF v, k, u
  <1>4. /\ key \in [Key -> Row] /\ session \in [Session -> SessionType]
        /\ account \in [User -> {"absent", "active", "deleted"}] /\ ended \subseteq Key
        /\ Founded /\ Sessions /\ EndedIsRevoked /\ DeletedHasNoKey /\ KeyedIsOver
    BY DEF IInv, Types, Lasting
  <1>5. /\ key' \in [Key -> Row] /\ key'[k].st # "none" /\ key'[k].owner = u
        /\ \A x \in Key \ {k} : key'[x] = key[x]
        /\ key'[k] = key[k] \/ (key[k].st = "none" /\ key'[k] = v)
    BY <1>0, <1>1, <1>2, <1>3, <1>4
  <1>6. /\ session' \in [Session -> SessionType]
        /\ \A s \in Session : s # k => session'[s] = session[s]
        /\ k \in Session => session'[k].status = "consumed" /\ session'[k].by = u
    <2>1. CASE call[c].op = "exchange"
      <3>1. k \in Session
        BY <1>1, <2>1
      <3>2. /\ [session[k] EXCEPT !.status = "consumed"] \in SessionType
            /\ [session[k] EXCEPT !.status = "consumed"].status = "consumed"
            /\ [session[k] EXCEPT !.status = "consumed"].by = session[k].by
        BY <1>4, <3>1 DEF SessionType
      <3> QED
        BY <1>0, <1>1, <1>4, <2>1, <3>1, <3>2
    <2>2. CASE call[c].op = "create"
      BY <1>0, <1>3, <1>4, <2>2
    <2> QED
      BY <1>0, <2>1, <2>2
  <1>7. Types'
    BY <1>0, <1>5, <1>6, EndTypes DEF IInv, Types
  <1>8. Lasting'
    <2>1. Founded' /\ Sessions'
      BY <1>0, <1>4, <1>6 DEF Founded, Sessions
    <2>2. EndedIsRevoked'
      BY <1>0, <1>4, <1>5 DEF EndedIsRevoked
    <2>3. DeletedHasNoKey'
      BY <1>0, <1>1, <1>4, <1>5 DEF DeletedHasNoKey
    <2>4. KeyedIsOver'
      BY <1>4, <1>5, <1>6 DEF KeyedIsOver, Key
    <2> QED
      BY <2>1, <2>2, <2>3, <2>4 DEF Lasting
  <1>9. ASSUME NEW d \in Call \ {c} PROVE Respects(d)
    <2>1. k \notin call[d].held /\ u \notin call[d].held
      BY <1>1, HeldOK
    <2> QED
      BY <1>0, <1>2, <1>4, <1>5, <1>6, <2>1 DEF Respects
  <1> QED
    BY <1>0, <1>7, <1>8, <1>9, WriteKeeps
-----------------------------------------------------------------------------
LEMMA InitKeeps == Init => IInv
  <1> SUFFICES ASSUME Init PROVE IInv
    OBVIOUS
  <1>1. /\ \A u \in User : account[u] = "absent"
        /\ founders = {} /\ ended = {}
        /\ \A k \in Key : key[k] = NoKey
        /\ \A s \in Session : session[s] = [status |-> "pending", by |-> NoUser]
        /\ \A c \in Call : call[c] = Idle
    BY DEF Init
  <1>2. NoKey \in Row /\ NoKey.st = "none"
    BY DEF Row, NoKey
  <1>3. [status |-> "pending", by |-> NoUser] \in SessionType
    BY DEF SessionType
  <1>4. Types
    BY <1>2, <1>3, IdleOK DEF Init, Types
  <1>5. Lasting
    BY <1>1, <1>2 DEF Lasting, Founded, Sessions, EndedIsRevoked, DeletedHasNoKey,
       KeyedIsOver, Key
  <1>6. Exclusion
    BY <1>1, IdleOK DEF Exclusion
  <1>7. \A c \in Call : Fits(c)
    BY <1>1, IdleOK DEF Fits, FitsSetup, FitsCreate, FitsSession, FitsAccount, FitsKeys
  <1> QED
    BY <1>4, <1>5, <1>6, <1>7 DEF IInv

LEMMA StutterKeeps == ASSUME IInv, UNCHANGED vars PROVE IInv'
  <1>1. Types' /\ Exclusion'
    BY DEF IInv, Types, Exclusion, vars
  <1>2. Lasting'
    BY DEF IInv, Lasting, Founded, Sessions, EndedIsRevoked, DeletedHasNoKey, KeyedIsOver,
       vars
  <1>3. \A d \in Call : Respects(d)
    BY DEF IInv, Types, Respects, vars
  <1> QED
    BY <1>1, <1>2, <1>3, OutsideKeeps DEF vars

LEMMA StartKeeps == ASSUME IInv, NEW c \in Call, Start(c) PROVE IInv'
  BY StartSetupKeeps, StartCreateKeeps, StartExchangeKeeps, WriteOffKeeps, StartGetSessionKeeps,
     StartApproveKeeps,
     StartKeyKeeps, StartDeleteKeeps, StartRestoreKeeps DEF Start

LEMMA ProceedKeeps == ASSUME IInv, NEW c \in Call, Proceed(c) PROVE IInv'
  BY FirstRunKeeps, FoundKeeps, LockSubjectKeeps, ReadExistingKeeps, CommitKeyKeeps,
     ApproveKeeps, GetSessionKeeps, UpdateKeeps, RevokeKeeps, ReadKeysKeeps, DeleteUserKeeps, RestoreKeeps
     DEF Proceed

LEMMA CrashKeeps == ASSUME IInv, NEW c \in Call, Crash(c) PROVE IInv'
  BY GiveUpKeeps DEF Crash, Shared

LEMMA NextKeeps == IInv /\ [Next]_vars => IInv'
  BY StartKeeps, ProceedKeeps, CrashKeeps, AddUserKeeps, TickKeeps, StutterKeeps DEF Next

LEMMA Invariance == Spec => []IInv
  BY InitKeeps, NextKeeps, PTL DEF Spec
-----------------------------------------------------------------------------
(* The theorems.                                                            *)

\* Accounts, keys, sessions and handlers keep their types: a key that was ever
\* made has an owner, and a lock is a row or the initialisation.
THEOREM CredentialTypes == Spec => []TypeOK
  <1>1. IInv => TypeOK
    <2> SUFFICES ASSUME IInv, NEW c \in Call PROVE DOMAIN call[c].saw \subseteq Key
      BY DEF IInv, Types, TypeOK, SessionType, CallType, Lock
    <2>1. call[c] \in CallType
      BY DEF IInv, Types
    <2> QED
      BY <2>1, SawOK DEF CallType
  <1> QED
    BY <1>1, Invariance, PTL

\* Two initialisations at a time never make two initial superadmins.
THEOREM CredentialFounder == Spec => []OneFounder
  <1>1. ASSUME IInv PROVE OneFounder
    <2>1. \A u, v \in founders : u = v
      BY <1>1 DEF IInv, Lasting, Founded
    <2>2. CASE founders = {}
      BY <2>2, FS_EmptySet DEF OneFounder
    <2>3. CASE founders # {}
      <3>1. PICK u : founders = {u}
        BY <2>1, <2>3
      <3>2. Cardinality({u}) = 1
        BY FS_Singleton
      <3>3. Cardinality(founders) = 1
        BY <3>1, <3>2
      <3> QED
        BY <3>3 DEF OneFounder
    <2> QED
      BY <2>2, <2>3
  <1> QED
    BY <1>1, Invariance, PTL

\* A deleted account has no usable key, a revoked key never authenticates again,
\* a session's key is its approver's, and a session that has one is over.
THEOREM CredentialKeys == Spec => []KeyLife
  <1>1. IInv => KeyLife
    BY DEF IInv, Lasting, EndedIsRevoked, EndedNeverAuthenticates, Authenticates, KeyLife
  <1> QED
    BY <1>1, Invariance, PTL

\* What becomes of a session: its approver stays, and it stays over.
Lasts(s) ==
    /\ session[s].by # NoUser => session'[s].by = session[s].by
    /\ session[s].status \in {"consumed", "expired"} =>
         session'[s].status \in {session[s].status, "expired"}

\* A write-off keeps the approver, also a late one.
LEMMA WriteOffLasts ==
    ASSUME IInv, NEW s \in Session, NEW t \in Session,
           session' = [session EXCEPT ![t] = [session[t] EXCEPT !.status = "expired"]]
    PROVE  Lasts(s)
  <1>1. session \in [Session -> SessionType]
    BY DEF IInv, Types
  <1>2. CASE s = t
    BY <1>1, <1>2, WrittenOffOK DEF Lasts
  <1>3. CASE s # t
    BY <1>1, <1>3 DEF Lasts
  <1> QED
    BY <1>2, <1>3

LEMMA SessionSteps == ASSUME IInv, Next, NEW s \in Session PROVE Lasts(s)
  <1>0. session \in [Session -> SessionType]
    BY DEF IInv, Types
  <1>1. ASSUME NEW c \in Call, NEW t \in Session, WriteOff(c, t) PROVE Lasts(s)
    BY <1>1, WriteOffLasts DEF WriteOff
  <1>2. ASSUME NEW c \in Call, GetSession(c) PROVE Lasts(s)
    <2>1. call[c].k \in Session
      BY <1>2 DEF GetSession, IInv, Fits, FitsSession
    <2>2. CASE UNCHANGED session
      BY <2>2 DEF Lasts
    <2> QED
      BY <1>2, <2>1, <2>2, WriteOffLasts DEF GetSession
  <1>3. ASSUME NEW c \in Call, Approve(c) PROVE Lasts(s)
    <2>1. /\ call[c].k \in Session /\ session[call[c].k].by = NoUser
          /\ session[call[c].k].status = "pending"
      BY <1>3 DEF Approve, IInv, Fits, FitsSession, Lasting, Sessions
    <2> QED
      BY <1>0, <1>3, <2>1 DEF Approve, Lasts
  <1>4. ASSUME NEW c \in Call, CommitKey(c) PROVE Lasts(s)
    <2>1. call[c].op = "exchange" => session[call[c].k].status = "approved"
      BY DEF IInv, Fits, FitsSession
    <2>2. /\ call[c].op = "exchange" =>
              session' = [session EXCEPT ![call[c].k] =
                            [session[call[c].k] EXCEPT !.status = "consumed"]]
          /\ call[c].op # "exchange" => session' = session
      BY <1>4 DEF CommitKey
    <2> QED
      BY <1>0, <2>1, <2>2 DEF SessionType, Lasts
  <1>5. ASSUME NEW c \in Call, Proceed(c) \/ Crash(c), ~Approve(c), ~CommitKey(c), ~GetSession(c)
        PROVE  session' = session
    BY <1>5 DEF Proceed, Crash, FirstRun, Found, LockSubject, ReadExisting, Update, Revoke,
       ReadKeys, DeleteUser, Restore
  <1>6. ASSUME NEW c \in Call, Start(c), ~\E t \in Session : WriteOff(c, t)
        PROVE  session' = session
    BY <1>6 DEF Start, StartSetup, StartCreate, StartExchange, StartGetSession, StartApprove,
       StartUpdate, StartRevoke, StartDelete, StartRestore
  <1>7. (\E u \in User : AddUser(u)) \/ (\E t \in Session : Tick(t)) => session' = session
    BY DEF AddUser, Tick
  <1>8. session' = session => Lasts(s)
    BY DEF Lasts
  <1> QED
    BY <1>1, <1>2, <1>3, <1>4, <1>5, <1>6, <1>7, <1>8 DEF Next

\* Once given, an approval is never changed to another user's, and a session that
\* is over is never open again.
THEOREM CredentialApproval == Spec => ApprovalIsFinal
  <1>1. IInv /\ [Next]_vars => [\A s \in Session : Lasts(s)]_vars
    BY SessionSteps
  <1>2. IInv /\ [Next]_vars =>
          [\A s \in Session :
             /\ session[s].by # NoUser => session'[s].by = session[s].by
             /\ session[s].status \in {"consumed", "expired"} =>
                  session'[s].status \in {session[s].status, "expired"}]_vars
    BY <1>1 DEF Lasts
  <1> QED
    BY <1>2, Invariance, PTL DEF Spec, ApprovalIsFinal
=============================================================================
