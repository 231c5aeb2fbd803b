---------------------------- MODULE Credentials ----------------------------
(***************************************************************************)
(* Users, the API keys that stand for them, the browser approval of a CLI  *)
(* device, and the first administrator: api_key_repository.py,             *)
(* auth_service.py, user_repository.py, identity_admin_service.py and the  *)
(* OIDC restore of a deleted account.                                      *)
(*                                                                         *)
(* Every handler is one PostgreSQL transaction under READ COMMITTED.  It   *)
(* reads, waits for the row or advisory locks it asks for, and its writes  *)
(* are seen when it commits; a crash rolls it back.  A row the handler did *)
(* not lock may change between its read and its commit, and SQLAlchemy     *)
(* then writes only the columns the handler changed.                       *)
(***************************************************************************)
EXTENDS Integers, FiniteSets

CONSTANTS
    User,       \* accounts that may come to exist
    Request,    \* idempotency ids of POST /apikey
    Session,    \* CLI authorisation sessions; each is also the id of its key
    Call,       \* handlers running at a time
    Setup,      \* the advisory lock of the first initialisation
    NoUser

ASSUME CredentialsAssumption ==
    /\ NoUser \notin User
    /\ Setup \notin User \cup Request \cup Session
    /\ User \cap (Request \cup Session) = {}
    /\ Request \cap Session = {}

Key == Request \cup Session

VARIABLES
    account,    \* users.is_deleted, and whether the row exists
    founders,   \* accounts made by initialize_system_admin (superadmin)
    key,        \* api_keys by request_id
    session,    \* cli_auth_sessions
    expired,    \* sessions whose expires_at has passed
    call,       \* the handlers in progress
    ended       \* history: keys revoked by a DELETE or with their account

vars == <<account, founders, key, session, expired, call, ended>>

NoKey == [st |-> "none", enabled |-> FALSE, owner |-> NoUser]
Row == [st : {"live", "revoked"}, enabled : BOOLEAN, owner : User] \cup {NoKey}

Idle == [op |-> "idle", at |-> "start", u |-> NoUser, k |-> Setup,
         held |-> {}, saw |-> [x \in {} |-> FALSE], on |-> FALSE]

Op == {"idle", "create", "exchange", "approve", "update", "revoke", "delete",
       "restore", "initialize", "get"}

Step == {"start", "subject", "existing", "commit"}

(* What an authenticating request accepts (_verify_api_key).               *)
Authenticates(k) ==
    /\ key[k].st = "live"
    /\ key[k].enabled
    /\ account[key[k].owner] = "active"

(* Nobody else holds the row or the advisory lock.                         *)
Free(c, lock) == \A d \in Call \ {c} : lock \notin call[d].held

Begin(c, op, at, u, k, held) ==
    /\ call[c] = Idle
    /\ call' = [call EXCEPT ![c] = [Idle EXCEPT !.op = op, !.at = at, !.u = u,
                                                !.k = k, !.held = held]]

End(c) == call' = [call EXCEPT ![c] = Idle]

Administered == \E f \in founders : account[f] = "active"

-----------------------------------------------------------------------------
Init ==
    /\ account = [u \in User |-> "absent"]
    /\ founders = {}
    /\ key = [k \in Key |-> NoKey]
    /\ session = [s \in Session |-> [status |-> "pending", by |-> NoUser]]
    /\ expired = [s \in Session |-> FALSE]
    /\ call = [c \in Call |-> Idle]
    /\ ended = {}

(* Mutant: without the advisory lock.                                      *)
StartSetupUnlocked(c) ==
    /\ Begin(c, "initialize", "existing", NoUser, Setup, {})
    /\ UNCHANGED <<account, founders, key, session, expired, ended>>

(* initialize_system_admin: the advisory lock, is_first_run, the commit.   *)
StartSetup(c) ==
    /\ Free(c, Setup)
    /\ Begin(c, "initialize", "existing", NoUser, Setup, {Setup})
    /\ UNCHANGED <<account, founders, key, session, expired, ended>>

FirstRun(c) ==
    /\ call[c].op = "initialize" /\ call[c].at = "existing"
    /\ IF \A u \in User : account[u] = "absent"
         THEN call' = [call EXCEPT ![c].at = "commit"]
         ELSE End(c)
    /\ UNCHANGED <<account, founders, key, session, expired, ended>>

(* A uid taken since the check is an IntegrityError and rolls back.        *)
Found(c) ==
    /\ call[c].op = "initialize" /\ call[c].at = "commit"
    /\ \E u \in User :
         IF account[u] = "absent"
           THEN /\ account' = [account EXCEPT ![u] = "active"]
                /\ founders' = founders \cup {u}
           ELSE UNCHANGED <<account, founders>>
    /\ End(c)
    /\ UNCHANGED <<key, session, expired, ended>>

(* An administrator adds an account, or an OIDC login creates it; neither  *)
(* takes the initialisation lock.                                          *)
AddUser(u) ==
    /\ account[u] = "absent"
    /\ account' = [account EXCEPT ![u] = "active"]
    /\ UNCHANGED <<founders, key, session, expired, call, ended>>

-----------------------------------------------------------------------------
(* APIKeyRepository.create, called by POST /apikey with the advisory lock  *)
(* of its request id and by the exchange under the session's row lock.     *)
StartCreate(c, k, u) ==
    /\ \E v \in User : account[v] = "active"
    /\ Free(c, k)
    /\ Begin(c, "create", "subject", u, k, {k})
    /\ UNCHANGED <<account, founders, key, session, expired, ended>>

(* Mutant: the account is read without FOR UPDATE.                         *)
ReadSubject(c) ==
    /\ call[c].at = "subject" /\ call[c].op \in {"create", "exchange"}
    /\ IF account[call[c].u] = "active"
         THEN call' = [call EXCEPT ![c].at = "existing"]
         ELSE End(c)
    /\ UNCHANGED <<account, founders, key, session, expired, ended>>

(* SELECT users ... FOR UPDATE: waits, then sees the committed row.        *)
LockSubject(c) ==
    /\ call[c].at = "subject" /\ call[c].op \in {"create", "exchange"}
    /\ Free(c, call[c].u)
    /\ IF account[call[c].u] = "active"
         THEN call' = [call EXCEPT ![c].at = "existing", ![c].held = @ \cup {call[c].u}]
         ELSE End(c)
    /\ UNCHANGED <<account, founders, key, session, expired, ended>>

(* The row under this request id: none is inserted, the same intent is     *)
(* replayed, another intent or a revoked key is a conflict.                *)
MayCreate(k, u) ==
    \/ key[k].st = "none"
    \/ key[k].st = "live" /\ key[k].owner = u

ReadExisting(c) ==
    /\ call[c].at = "existing" /\ call[c].op \in {"create", "exchange"}
    /\ IF MayCreate(call[c].k, call[c].u)
         THEN call' = [call EXCEPT ![c].at = "commit", ![c].on = (key[call[c].k].st # "live")]
         ELSE End(c)
    /\ UNCHANGED <<account, founders, key, session, expired, ended>>

(* The key and, for a CLI session, its consumption are one commit.         *)
CommitKey(c) ==
    LET k == call[c].k IN
    /\ call[c].at = "commit" /\ call[c].op \in {"create", "exchange"}
    /\ key' = IF call[c].on
                THEN [key EXCEPT ![k] = [st |-> "live", enabled |-> TRUE,
                                         owner |-> call[c].u]]
                ELSE key
    /\ session' = IF call[c].op = "exchange"
                    THEN [session EXCEPT ![k].status = "consumed"]
                    ELSE session
    /\ End(c)
    /\ UNCHANGED <<account, founders, expired, ended>>

-----------------------------------------------------------------------------
(* _expire_if_needed: an open session past its time is to be written off.  *)
Expires(s) == expired[s] /\ session[s].status \in {"pending", "approved"}

(* The approval and the exchange hold the row FOR UPDATE from the read to  *)
(* this commit.                                                            *)
WriteOff(c, s) ==
    /\ call[c] = Idle
    /\ Free(c, s)
    /\ Expires(s)
    /\ session' = [session EXCEPT ![s].status = "expired"]
    /\ UNCHANGED <<account, founders, key, expired, call, ended>>

(* GET /cli/sessions/{user_code} takes no lock when it reads, ...          *)
StartGetSession(c, s) ==
    /\ session[s].status \in {"pending", "approved"}
    /\ Begin(c, "get", "commit", NoUser, s, {})
    /\ UNCHANGED <<account, founders, key, session, expired, ended>>

(* ... and its UPDATE of the status, by id, waits for whoever holds the    *)
(* row and then overwrites what was committed since the read.              *)
GetSession(c) ==
    LET s == call[c].k IN
    /\ call[c].op = "get"
    /\ IF expired[s]
         THEN /\ Free(c, s)
              /\ session' = [session EXCEPT ![s].status = "expired"]
         ELSE UNCHANGED session
    /\ End(c)
    /\ UNCHANGED <<account, founders, key, expired, ended>>

(* Mutant: the session is read without FOR UPDATE.                         *)
StartApproveUnlocked(c, s, u) ==
    /\ account[u] = "active"
    /\ ~Expires(s)
    /\ session[s].status = "pending"
    /\ Begin(c, "approve", "commit", u, s, {})
    /\ UNCHANGED <<account, founders, key, session, expired, ended>>

(* approve_cli_auth_session by a logged-in user.  Writing approved_user_id *)
(* takes a key-share lock on that user's row, which waits for FOR UPDATE.  *)
StartApprove(c, s, u) ==
    /\ account[u] = "active"
    /\ Free(c, s)
    /\ ~Expires(s)
    /\ session[s].status = "pending"
    /\ Begin(c, "approve", "commit", u, s, {s})
    /\ UNCHANGED <<account, founders, key, session, expired, ended>>

Approve(c) ==
    /\ call[c].op = "approve"
    /\ Free(c, call[c].u)
    /\ session' = [session EXCEPT ![call[c].k] = [status |-> "approved", by |-> call[c].u]]
    /\ End(c)
    /\ UNCHANGED <<account, founders, key, expired, ended>>

(* exchange_cli_auth_token on an approved session; the device polls, and   *)
(* polls again when it missed the answer.                                  *)
StartExchange(c, s) ==
    /\ Free(c, s)
    /\ ~Expires(s)
    /\ session[s].status = "approved"
    /\ Begin(c, "exchange", "subject", session[s].by, s, {s})
    /\ UNCHANGED <<account, founders, key, session, expired, ended>>

-----------------------------------------------------------------------------
(* PUT and DELETE /apikey/{id} read an unrevoked key without a lock.       *)
StartUpdate(c, k, on) ==
    /\ key[k].st = "live"
    /\ call[c] = Idle
    /\ call' = [call EXCEPT ![c] = [Idle EXCEPT !.op = "update", !.at = "commit",
                                      !.k = k, !.on = on, !.saw = [x \in {k} |-> key[x].enabled]]]
    /\ UNCHANGED <<account, founders, key, session, expired, ended>>

(* Only a changed column is written.                                       *)
Update(c) ==
    LET k == call[c].k IN
    /\ call[c].op = "update"
    /\ key' = IF call[c].saw[k] # call[c].on
                THEN [key EXCEPT ![k].enabled = call[c].on]
                ELSE key
    /\ End(c)
    /\ UNCHANGED <<account, founders, session, expired, ended>>

(* Mutant: the row loses its owner.                                        *)
RevokedUnlinked(row, wasOn) ==
    [row EXCEPT !.st = "revoked", !.enabled = @ /\ ~wasOn, !.owner = NoUser]

(* A revoked row: disabled if it was read enabled, and a tombstone.        *)
Revoked(row, wasOn) ==
    [row EXCEPT !.st = "revoked", !.enabled = @ /\ ~wasOn]

StartRevoke(c, k) ==
    /\ key[k].st = "live"
    /\ call[c] = Idle
    /\ call' = [call EXCEPT ![c] = [Idle EXCEPT !.op = "revoke", !.at = "commit",
                                      !.k = k, !.saw = [x \in {k} |-> key[x].enabled]]]
    /\ UNCHANGED <<account, founders, key, session, expired, ended>>

(* The keys the handler read: one for DELETE /apikey, the account's for    *)
(* _revoke_api_keys.                                                       *)
RevokeAll(c) ==
    /\ key' = [k \in Key |-> IF k \in DOMAIN call[c].saw
                               THEN Revoked(key[k], call[c].saw[k])
                               ELSE key[k]]
    /\ ended' = ended \cup DOMAIN call[c].saw

Revoke(c) ==
    /\ call[c].op = "revoke"
    /\ RevokeAll(c)
    /\ End(c)
    /\ UNCHANGED <<account, founders, session, expired>>

-----------------------------------------------------------------------------
(* delete_user: the row FOR UPDATE, the checks (never a superadmin), the   *)
(* account's keys, and both written in one commit.                         *)
StartDelete(c, u) ==
    /\ Administered
    /\ Free(c, u)
    /\ account[u] = "active" /\ u \notin founders
    /\ Begin(c, "delete", "existing", u, Setup, {u})
    /\ UNCHANGED <<account, founders, key, session, expired, ended>>

ReadKeys(c) ==
    /\ call[c].op = "delete" /\ call[c].at = "existing"
    /\ call' = [call EXCEPT ![c].at = "commit",
                            ![c].saw = [k \in {x \in Key : key[x].owner = call[c].u}
                                          |-> key[k].enabled]]
    /\ UNCHANGED <<account, founders, key, session, expired, ended>>

DeleteUser(c) ==
    /\ call[c].op = "delete" /\ call[c].at = "commit"
    /\ account' = [account EXCEPT ![call[c].u] = "deleted"]
    /\ RevokeAll(c)
    /\ End(c)
    /\ UNCHANGED <<founders, session, expired>>

(* An OIDC login finds the deleted account and restores it; the read takes *)
(* no lock, the update waits for whoever holds the row.                    *)
StartRestore(c, u) ==
    /\ account[u] = "deleted"
    /\ Begin(c, "restore", "commit", u, Setup, {})
    /\ UNCHANGED <<account, founders, key, session, expired, ended>>

Restore(c) ==
    /\ call[c].op = "restore"
    /\ Free(c, call[c].u)
    /\ account' = [account EXCEPT ![call[c].u] = "active"]
    /\ End(c)
    /\ UNCHANGED <<founders, key, session, expired, ended>>

-----------------------------------------------------------------------------
(* The process or its database connection dies: the transaction rolls back *)
Crash(c) ==
    /\ call[c] # Idle
    /\ End(c)
    /\ UNCHANGED <<account, founders, key, session, expired, ended>>

Tick(s) ==
    /\ ~expired[s]
    /\ expired' = [expired EXCEPT ![s] = TRUE]
    /\ UNCHANGED <<account, founders, key, session, call, ended>>

Start(c) ==
    \/ StartSetup(c)
    \/ \E k \in Request, u \in User : StartCreate(c, k, u)
    \/ \E s \in Session : StartExchange(c, s) \/ WriteOff(c, s) \/ StartGetSession(c, s)
    \/ \E s \in Session, u \in User : StartApprove(c, s, u)
    \/ \E k \in Key, on \in BOOLEAN : StartUpdate(c, k, on)
    \/ \E k \in Key : StartRevoke(c, k)
    \/ \E u \in User : StartDelete(c, u) \/ StartRestore(c, u)

(* The steps of a handler that has begun.                                  *)
Proceed(c) ==
    \/ FirstRun(c) \/ Found(c)
    \/ LockSubject(c) \/ ReadExisting(c) \/ CommitKey(c)
    \/ Approve(c) \/ GetSession(c)
    \/ Update(c) \/ Revoke(c)
    \/ ReadKeys(c) \/ DeleteUser(c)
    \/ Restore(c)

Next ==
    \/ \E c \in Call : Start(c) \/ Proceed(c) \/ Crash(c)
    \/ \E u \in User : AddUser(u)
    \/ \E s \in Session : Tick(s)

Spec == Init /\ [][Next]_vars

-----------------------------------------------------------------------------
TypeOK ==
    /\ account \in [User -> {"absent", "active", "deleted"}]
    /\ founders \subseteq User
    /\ key \in [Key -> Row]
    /\ session \in [Session -> [status : {"pending", "approved", "consumed", "expired"},
                                by : User \cup {NoUser}]]
    /\ expired \in [Session -> BOOLEAN]
    /\ \A c \in Call :
         /\ call[c].op \in Op /\ call[c].at \in Step
         /\ call[c].u \in User \cup {NoUser}
         /\ call[c].k \in Key \cup {Setup}
         /\ call[c].held \subseteq User \cup Key \cup {Setup}
         /\ DOMAIN call[c].saw \subseteq Key
    /\ ended \subseteq Key

(* A system is founded once: two initialisations in flight never leave two *)
(* initial superadmins (the advisory lock of initialize_system_admin).     *)
OneFounder == Cardinality(founders) <= 1

(* A deleted account has no unrevoked key, also when a key of that account *)
(* was being created while it was deleted (both lock the user's row).      *)
DeletedHasNoKey ==
    \A k \in Key : key[k].st = "live" => account[key[k].owner] # "deleted"

(* A key revoked by its owner or with its account never authenticates      *)
(* again: not by a retry of the request that made it, by an update that    *)
(* had read it before, or by the restore of the account.                   *)
EndedNeverAuthenticates == \A k \in ended : ~Authenticates(k)

(* The key of a session is its approver's; a consumed session has one, and *)
(* a session that has one is never open to another exchange, though it may *)
(* read expired (GetSession): a crash between the two never shows.         *)
KeyedIsOver ==
    \A s \in Session :
      /\ session[s].status = "consumed" => key[s].st # "none"
      /\ key[s].st # "none" => /\ session[s].status \in {"consumed", "expired"}
                              /\ key[s].owner = session[s].by

(* What becomes of a key, in the three parts above.                        *)
KeyLife == DeletedHasNoKey /\ EndedNeverAuthenticates /\ KeyedIsOver

(* The approval is given once: neither a second approval in flight nor a   *)
(* late GET changes whom a session stands for or reopens one that is over; *)
(* only a GET's late write-off still turns consumed into expired.          *)
ApprovalIsFinal ==
    [][\A s \in Session :
         /\ session[s].by # NoUser => session'[s].by = session[s].by
         /\ session[s].status \in {"consumed", "expired"} =>
              session'[s].status \in {session[s].status, "expired"}]_vars

=============================================================================
